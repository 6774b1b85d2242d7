------------------------- MODULE CentralCacheProofs -------------------------
(***************************************************************************)
(* Proofs about CentralCache for any threads, classes, sizes and pages.    *)
(*                                                                         *)
(* Inv is inductive.  To what the invariants say it adds that spans are    *)
(* disjoint, that a small-object span was cut into as many blocks as fit,  *)
(* and that a span all of whose blocks are free is alone on its shard's    *)
(* list, with a thread about to take one of them.                          *)
(***************************************************************************)
EXTENDS CentralCache, FiniteSetTheorems, TLAPS

(* No two spans share a page.                                              *)
SpansDisjoint ==
  \A s, r \in DOMAIN live : s # r => (s .. (s + live[s] - 1)) \cap (r .. (r + live[r] - 1)) = {}

(* Every span lies within the modelled pages.                              *)
InsideSpace == \A s \in DOMAIN live : (s .. (s + live[s] - 1)) \subseteq Pages

(* createSpan cut the whole span into blocks of its class.                 *)
CutWhole ==
  \A s \in SmallSpans :
    /\ spans[s].blockCount = (live[s] * PageBytes) \div BlockSize[spans[s].sizeClass]
    /\ spans[s].blockCount >= 1

(* A wholly free span is alone on its list, and only while the thread that *)
(* had it created fetches from it.                                         *)
FreshSpan ==
  \A c \in Classes : \A s \in partial[c] :
    spans[s].freeCount = spans[s].blockCount =>
      /\ partial[c] = {s}
      /\ \E t \in Threads : lock[c] = t /\ Fetching(t)

(* The inductive invariant.                                                *)
Inv == /\ TypeOK /\ SpansDisjoint /\ InsideSpace /\ CutWhole
       /\ BlocksConserved /\ CountsExact /\ PartialExact /\ LockExact /\ FreshSpan

-----------------------------------------------------------------------------
(* Arithmetic of pages and blocks.                                         *)

(* Multiplication is monotone.                                             *)
LEMMA ProductMonotone ==
  ASSUME NEW a \in Nat, NEW b \in Nat, NEW m \in Nat, a <= b
  PROVE  a * m <= b * m /\ a * m \in Nat /\ b * m \in Nat
<1>1. b * m = a * m + (b - a) * m
  OBVIOUS
<1>2. (b - a) * m \in Nat /\ a * m \in Nat
  OBVIOUS
<1> QED BY <1>1, <1>2

(* b \div d is the number of whole d's in b.                               *)
LEMMA QuotientBounds ==
  ASSUME NEW b \in Nat, NEW d \in Nat \ {0}
  PROVE  /\ b \div d \in Nat
         /\ (b \div d) * d <= b
         /\ b < (b \div d + 1) * d
OBVIOUS

(* A page number from the bounds of a byte address.                        *)
LEMMA QuotientWithin ==
  ASSUME NEW b \in Nat, NEW d \in Nat \ {0}, NEW s \in Nat, NEW e \in Nat,
         s * d <= b, b < e * d
  PROVE  b \div d \in s .. (e - 1)
<1> DEFINE q == b \div d
<1>1. q \in Nat /\ q * d <= b /\ b < (q + 1) * d
  BY QuotientBounds
<1> HIDE DEF q
<1>2. s <= q
  <2>1. CASE q + 1 <= s
    <3>1. (q + 1) * d <= s * d
      BY <1>1, <2>1, ProductMonotone
    <3> QED BY <1>1, <3>1
  <2> QED BY <1>1, <2>1
<1>3. q < e
  <2>1. CASE e <= q
    <3>1. e * d <= q * d
      BY <1>1, <2>1, ProductMonotone
    <3> QED BY <1>1, <3>1
  <2> QED BY <1>1, <2>1
<1>4. q \in s .. (e - 1)
  BY <1>1, <1>2, <1>3
<1> QED BY <1>4 DEF q

(* The blocks cut from a span of m pages lie in the pages of the span.     *)
LEMMA BlocksInside ==
  ASSUME NEW s \in Nat, NEW m \in Nat, NEW c \in Classes, NEW n \in Nat,
         n = (m * PageBytes) \div BlockSize[c],
         NEW b \in BlockAddrs(s, c, n)
  PROVE  /\ b \in Nat
         /\ b < (s + m) * PageBytes
         /\ (b \div PageBytes) \in s .. (s + m - 1)
<1> DEFINE d == PageBytes
           z == BlockSize[c]
<1>1. d \in Nat \ {0} /\ z \in Nat \ {0}
  BY CentralCacheAssumption
<1>2. PICK i \in 0 .. n - 1 : b = s * d + i * z
  BY DEF BlockAddrs
<1>3. i \in Nat /\ i + 1 <= n
  BY <1>2
<1>4. m * d \in Nat /\ s * d \in Nat /\ i * z \in Nat
  BY <1>1, <1>3
<1>5. n * z <= m * d
  <2>1. n = (m * d) \div z
    OBVIOUS
  <2> HIDE DEF z, d
  <2> QED BY <1>1, <1>4, <2>1, QuotientBounds
<1> HIDE DEF z, d
<1>6. (i + 1) * z <= n * z
  BY <1>1, <1>3, ProductMonotone
<1>7. (i + 1) * z = i * z + z
  BY <1>1, <1>3
<1>8. i * z < m * d
  BY <1>1, <1>4, <1>5, <1>6, <1>7, n * z \in Nat
<1>9. (s + m) * d = s * d + m * d /\ s + m \in Nat
  BY <1>1
<1>10. b \in Nat /\ s * d <= b /\ b < (s + m) * d
  BY <1>2, <1>4, <1>8, <1>9
<1>11. b \div d \in s .. (s + m - 1)
  <2> DEFINE e == s + m
  <2>1. e \in Nat /\ b \in Nat /\ s * d <= b /\ b < e * d
    BY <1>9, <1>10
  <2> HIDE DEF e
  <2>2. b \div d \in s .. (e - 1)
    BY <1>1, <2>1, QuotientWithin
  <2> QED BY <2>2 DEF e
<1> QED BY <1>10, <1>11 DEF d

(* A span is cut into as many different blocks as are counted.             *)
LEMMA BlocksCounted ==
  ASSUME NEW s \in Nat, NEW c \in Classes, NEW n \in Nat
  PROVE  /\ IsFiniteSet(BlockAddrs(s, c, n))
         /\ Cardinality(BlockAddrs(s, c, n)) = n
<1> DEFINE z == BlockSize[c]
           a == s * PageBytes
           f == [i \in 1 .. n |-> a + (i - 1) * z]
           B == BlockAddrs(s, c, n)
<1>1. z \in Nat \ {0} /\ a \in Nat
  BY CentralCacheAssumption
<1>2. B = {a + i * z : i \in 0 .. n - 1}
  BY DEF BlockAddrs
<1> HIDE DEF z, a, B
<1>3. \A i, j \in 1 .. n : i < j => f[i] # f[j]
  <2> SUFFICES ASSUME NEW i \in 1 .. n, NEW j \in 1 .. n, i < j
               PROVE  f[i] # f[j]
    OBVIOUS
  <2>1. i - 1 \in Nat /\ j - 1 \in Nat /\ (i - 1) + 1 <= j - 1
    OBVIOUS
  <2>2. ((i - 1) + 1) * z <= (j - 1) * z /\ (j - 1) * z \in Nat
    BY <1>1, <2>1, ProductMonotone
  <2>3. ((i - 1) + 1) * z = (i - 1) * z + z /\ (i - 1) * z \in Nat
    BY <1>1, <2>1
  <2> QED BY <1>1, <2>2, <2>3
<1>4. f \in Injection(1 .. n, B)
  <2>1. f \in [1 .. n -> B]
    BY <1>2
  <2>2. \A i, j \in 1 .. n : f[i] = f[j] => i = j
    <3> SUFFICES ASSUME NEW i \in 1 .. n, NEW j \in 1 .. n, f[i] = f[j]
                 PROVE  i = j
      OBVIOUS
    <3>1. ~ (i < j) /\ ~ (j < i)
      BY <1>3
    <3> QED BY <3>1
  <2> HIDE DEF f
  <2> QED BY <2>1, <2>2 DEF Injection, IsInjective
<1>5. f \in Surjection(1 .. n, B)
  <2>1. \A b \in B : \E i \in 1 .. n : f[i] = b
    <3> SUFFICES ASSUME NEW b \in B
                 PROVE  \E i \in 1 .. n : f[i] = b
      OBVIOUS
    <3>1. PICK k \in 0 .. n - 1 : b = a + k * z
      BY <1>2
    <3>2. k + 1 \in 1 .. n /\ (k + 1) - 1 = k
      OBVIOUS
    <3> QED BY <3>1, <3>2
  <2>2. f \in [1 .. n -> B]
    BY <1>2
  <2> HIDE DEF f
  <2> QED BY <2>1, <2>2 DEF Surjection
<1>6. ExistsBijection(1 .. n, B)
  <2> HIDE DEF f
  <2> QED BY <1>4, <1>5 DEF ExistsBijection, Bijection
<1>7. IsFiniteSet(B) /\ Cardinality(B) = n
  BY <1>6, FS_CountingElements, FS_NatBijection
<1> QED BY <1>7 DEF B

-----------------------------------------------------------------------------
(* What Inv says of the spans of small objects and of their blocks.        *)

(* The size class of large spans is none of the classes.                   *)
LEMMA LargeIsNoClass == Large \notin Classes
BY CentralCacheAssumption DEF Large, Classes

(* The fields of a span of small blocks, and how many blocks it has.       *)
LEMMA SmallSpanFacts ==
  ASSUME Inv, NEW s \in SmallSpans
  PROVE  /\ s \in DOMAIN live /\ s \in DOMAIN spans /\ s \in Pages /\ s \in Nat
         /\ live[s] \in Nat \ {0}
         /\ spans[s] \in SpanFields
         /\ spans[s].sizeClass \in Classes
         /\ spans[s].blockCount \in Nat \ {0}
         /\ spans[s].freeCount \in Nat
         /\ IsFiniteSet(Blocks(s)) /\ Cardinality(Blocks(s)) = spans[s].blockCount
         /\ spans[s].freeList \subseteq Blocks(s)
         /\ IsFiniteSet(spans[s].freeList)
         /\ Cardinality(spans[s].freeList) = spans[s].freeCount
<1>1. /\ s \in DOMAIN live /\ s \in DOMAIN spans /\ s \in Pages /\ s \in Nat
      /\ live[s] \in Nat \ {0}
      /\ spans[s] \in SpanFields
  BY CentralCacheAssumption DEF Inv, TypeOK, SmallSpans, Pages
<1>2. /\ spans[s].sizeClass \in Classes
      /\ spans[s].blockCount \in Nat \ {0}
      /\ spans[s].freeCount \in Nat
  BY <1>1 DEF SpanFields, SmallSpans, Inv, CutWhole
<1>3. IsFiniteSet(Blocks(s)) /\ Cardinality(Blocks(s)) = spans[s].blockCount
  BY <1>1, <1>2, BlocksCounted DEF Blocks
<1>4. spans[s].freeList \subseteq Blocks(s)
  BY DEF Inv, BlocksConserved
<1>5. IsFiniteSet(spans[s].freeList)
  BY <1>3, <1>4, FS_Subset
<1>6. Cardinality(spans[s].freeList) = spans[s].freeCount
  BY DEF Inv, CountsExact
<1> QED BY <1>1, <1>2, <1>3, <1>4, <1>5, <1>6

(* The span at a block's page is the span the block was cut from.          *)
LEMMA BlockHome ==
  ASSUME Inv, NEW s \in SmallSpans, NEW b \in Blocks(s)
  PROVE  b \in Bytes /\ findSpan(b) = {s}
<1>1. /\ s \in DOMAIN live /\ s \in DOMAIN spans /\ s \in Nat /\ live[s] \in Nat \ {0}
      /\ spans[s].sizeClass \in Classes /\ spans[s].blockCount \in Nat
  BY SmallSpanFacts
<1>2. /\ b \in Nat
      /\ b < (s + live[s]) * PageBytes
      /\ (b \div PageBytes) \in s .. (s + live[s] - 1)
  BY <1>1, BlocksInside DEF Blocks, Inv, CutWhole
<1>3. b \in Bytes
  <2>1. s + live[s] <= NumPages
    <3>1. s + live[s] - 1 \in s .. (s + live[s] - 1)
      BY <1>1
    <3>2. s + live[s] - 1 \in Pages
      BY <1>1, <3>1 DEF Inv, InsideSpace
    <3> QED BY <1>1, <3>2, CentralCacheAssumption DEF Pages
  <2>2. PageBytes \in Nat /\ NumPages \in Nat /\ s + live[s] \in Nat
    BY <1>1, CentralCacheAssumption
  <2>3. (s + live[s]) * PageBytes <= NumPages * PageBytes /\ NumPages * PageBytes \in Nat
        /\ (s + live[s]) * PageBytes \in Nat
    BY <2>1, <2>2, ProductMonotone
  <2> QED BY <1>2, <2>3 DEF Bytes
<1>4. \A r \in DOMAIN spans : (b \div PageBytes) \in r .. (r + live[r] - 1) => r = s
  BY <1>1, <1>2 DEF Inv, SpansDisjoint, TypeOK
<1> QED BY <1>1, <1>2, <1>3, <1>4 DEF findSpan

(* A block on its way or lent out has exactly one home, of a small class.  *)
LEMMA BlockOut ==
  ASSUME Inv, NEW b \in Away
  PROVE  \E s \in SmallSpans : b \in Blocks(s) /\ findSpan(b) = {s} /\ b \notin spans[s].freeList
<1>1. PICK s \in SmallSpans : b \in Blocks(s)
  BY DEF Inv, BlocksConserved
<1>2. b \notin spans[s].freeList
  BY <1>1 DEF Inv, BlocksConserved
<1> QED BY <1>1, <1>2, BlockHome

(* Nothing is said of spans that have not changed.                         *)
LEMMA SpansKept ==
  ASSUME Inv, UNCHANGED <<live, spans>>
  PROVE  /\ SpansDisjoint' /\ InsideSpace' /\ CutWhole' /\ CountsExact'
         /\ SmallSpans' = SmallSpans
         /\ \A s \in SmallSpans : Blocks(s)' = Blocks(s)
         /\ \A b : findSpan(b)' = findSpan(b)
         /\ DOMAIN live' \subseteq Pages /\ live' \in [DOMAIN live' -> 1 .. NumPages]
         /\ DOMAIN spans' = DOMAIN live' /\ spans' \in [DOMAIN spans' -> SpanFields]
BY DEF Inv, TypeOK, SpansDisjoint, InsideSpace, CutWhole, CountsExact, SmallSpans, Blocks, findSpan

(* A call of fetchRange has not touched a shard before it has the lock.    *)
LEMMA FetchCallInv ==
  ASSUME Inv, NEW t \in Threads, NEW c \in Classes, FetchCall(t, c)
  PROVE  Inv'
<1>1. /\ call[t] = Idle
      /\ call' = [call EXCEPT ![t] = [op |-> "fetchLock", class |-> c, chain |-> {}]]
      /\ UNCHANGED <<live, spans, partial, lock, out, lost>>
  BY DEF FetchCall
<1>2. /\ \A u \in Threads : call'[u].chain = call[u].chain
      /\ \A u \in Threads \ {t} : call'[u] = call[u]
      /\ call'[t].op = "fetchLock"
      /\ call[t].op = "none"
  <2>1. DOMAIN call = Threads
    BY DEF Inv, TypeOK
  <2>2. call[t].op = "none" /\ call[t].chain = {}
    BY <1>1 DEF Idle
  <2> QED BY <1>1, <2>1, <2>2
<1>3. TypeOK'
  BY <1>1, SpansKept DEF Inv, TypeOK, Ops
<1>4. BlocksConserved'
  <2>1. InTransit' = InTransit
    BY <1>2 DEF InTransit
  <2> QED BY <1>1, <1>2, <2>1, SpansKept DEF Inv, BlocksConserved, Away
<1>5. PartialExact'
  BY <1>1, SpansKept DEF Inv, PartialExact
<1>6. LockExact'
  BY <1>1, <1>2, SpansKept DEF Inv, LockExact
<1>7. FreshSpan'
  <2>1. \A u \in Threads, d \in Classes : lock[d] = u => u # t
    BY <1>2 DEF Inv, LockExact
  <2> QED BY <1>1, <1>2, <2>1 DEF Inv, FreshSpan, Fetching
<1> QED BY <1>1, <1>3, <1>4, <1>5, <1>6, <1>7, SpansKept DEF Inv

(* A shard nobody holds has no wholly free span.                           *)
LEMMA LockedIfFresh ==
  ASSUME Inv, NEW c \in Classes, NEW s \in partial[c], spans[s].freeCount = spans[s].blockCount
  PROVE  lock[c] \in Threads /\ Fetching(lock[c]) /\ partial[c] = {s}
BY DEF Inv, FreshSpan

(* A thread that waits for a lock gets it.                                 *)
LEMMA AcquireInv ==
  ASSUME Inv, NEW t \in Threads, NEW op \in {"fetch", "return"},
         call[t].op \in {"fetchLock", "returnLock"}, Acquire(t, op)
  PROVE  Inv'
<1> DEFINE c0 == call[t].class
<1>1. /\ lock[c0] = NoThread
      /\ lock' = [lock EXCEPT ![c0] = t]
      /\ call' = [call EXCEPT ![t].op = op]
      /\ UNCHANGED <<live, spans, partial, out, lost>>
  BY DEF Acquire
<1>2. /\ DOMAIN call = Threads /\ DOMAIN lock = Classes /\ c0 \in Classes
      /\ call[t] \in [op : Ops, class : Classes, chain : SUBSET Bytes]
  BY DEF Inv, TypeOK
<1>3. /\ \A u \in Threads : call'[u].chain = call[u].chain /\ call'[u].class = call[u].class
      /\ \A u \in Threads \ {t} : call'[u] = call[u]
      /\ call'[t].op = op
      /\ \A c \in Classes \ {c0} : lock'[c] = lock[c]
      /\ lock'[c0] = t
  BY <1>1, <1>2
<1>4. \A c \in Classes : lock[c] # t
  BY DEF Inv, LockExact
<1>5. NoThread \notin Threads
  BY CentralCacheAssumption
<1> HIDE DEF c0
<1>6. TypeOK'
  <2>1. call' \in [Threads -> [op : Ops, class : Classes, chain : SUBSET Bytes]]
    BY <1>1, <1>2 DEF Inv, TypeOK, Ops
  <2>2. lock' \in [Classes -> Threads \cup {NoThread}]
    BY <1>1, <1>2 DEF Inv, TypeOK
  <2> QED BY <1>1, <2>1, <2>2, SpansKept DEF Inv, TypeOK
<1>7. BlocksConserved'
  <2>1. InTransit' = InTransit
    BY <1>3 DEF InTransit
  <2> QED BY <1>1, <1>3, <2>1, SpansKept DEF Inv, BlocksConserved, Away
<1>8. PartialExact'
  <2>1. \A c \in Classes : lock'[c] = NoThread => lock[c] = NoThread
    BY <1>3, <1>5
  <2> QED BY <1>1, <2>1, SpansKept DEF Inv, PartialExact
<1>9. LockExact'
  <2>1. \A u \in Threads, c \in Classes :
          lock'[c] = u <=> call'[u].op \in {"fetch", "return"} /\ call'[u].class = c
    <3> SUFFICES ASSUME NEW u \in Threads, NEW c \in Classes
                 PROVE  lock'[c] = u <=> call'[u].op \in {"fetch", "return"} /\ call'[u].class = c
      OBVIOUS
    <3>1. lock[c] = u <=> call[u].op \in {"fetch", "return"} /\ call[u].class = c
      BY DEF Inv, LockExact
    <3>2. CASE u = t
      BY <1>2, <1>3, <1>4, <3>2 DEF c0
    <3>3. CASE u # t
      BY <1>1, <1>3, <1>5, <3>1, <3>3
    <3> QED BY <3>2, <3>3
  <2> QED BY <1>1, <1>3, <2>1, SpansKept DEF Inv, LockExact
<1>10. FreshSpan'
  <2> SUFFICES ASSUME NEW c \in Classes, NEW s \in partial[c],
                      spans[s].freeCount = spans[s].blockCount
               PROVE  partial[c] = {s} /\ \E u \in Threads : lock'[c] = u /\ Fetching(u)'
    BY <1>1 DEF FreshSpan
  <2>1. lock[c] \in Threads /\ Fetching(lock[c]) /\ partial[c] = {s}
    BY LockedIfFresh
  <2>2. c # c0 /\ lock[c] # t
    BY <1>1, <1>4, <1>5, <2>1
  <2>3. lock'[c] = lock[c] /\ call'[lock[c]] = call[lock[c]]
    BY <1>3, <2>1, <2>2
  <2> QED BY <2>1, <2>3 DEF Fetching
<1> QED BY <1>1, <1>6, <1>7, <1>8, <1>9, <1>10, SpansKept DEF Inv

(* fetchRange hands its blocks over and unlocks.                           *)
LEMMA FetchEndInv ==
  ASSUME Inv, NEW t \in Threads, FetchEnd(t)
  PROVE  Inv'
<1> DEFINE c0 == call[t].class
<1>1. /\ call[t].op = "fetch"
      /\ Fetching(t) => partial[c0] = {}
      /\ lock' = [lock EXCEPT ![c0] = NoThread]
      /\ call' = [call EXCEPT ![t] = Idle]
      /\ out' = out \cup call[t].chain
      /\ UNCHANGED <<live, spans, partial, lost>>
  BY DEF FetchEnd
<1>2. /\ DOMAIN call = Threads /\ DOMAIN lock = Classes /\ c0 \in Classes
      /\ call[t].chain \subseteq Bytes
      /\ lock[c0] = t
  BY <1>1 DEF Inv, TypeOK, LockExact
<1>3. /\ \A u \in Threads \ {t} : call'[u] = call[u]
      /\ call'[t].op = "none" /\ call'[t].chain = {}
      /\ \A c \in Classes \ {c0} : lock'[c] = lock[c]
      /\ lock'[c0] = NoThread
  BY <1>1, <1>2 DEF Idle
<1>4. \A c \in Classes \ {c0} : lock[c] # t
  BY DEF Inv, LockExact
<1>5. NoThread \notin Threads
  BY CentralCacheAssumption
<1>6. \A s \in partial[c0] : spans[s].freeCount < spans[s].blockCount
  <2> SUFFICES ASSUME NEW s \in partial[c0]
               PROVE  spans[s].freeCount < spans[s].blockCount
    OBVIOUS
  <2>1. spans[s].freeCount # spans[s].blockCount
    <3>1. CASE spans[s].freeCount = spans[s].blockCount
      <4>1. Fetching(lock[c0])
        BY <1>2, <3>1, LockedIfFresh
      <4> QED BY <1>1, <1>2, <4>1
    <3> QED BY <3>1
  <2>2. s \in SmallSpans
    BY <1>2 DEF Inv, PartialExact
  <2> QED BY <2>1, <2>2, SmallSpanFacts DEF Inv, CountsExact
<1> HIDE DEF c0
<1>7. TypeOK'
  <2>1. call' \in [Threads -> [op : Ops, class : Classes, chain : SUBSET Bytes]]
    <3>1. Idle \in [op : Ops, class : Classes, chain : SUBSET Bytes]
      BY <1>2, CentralCacheAssumption DEF Idle, Ops, Classes
    <3> QED BY <1>1, <3>1 DEF Inv, TypeOK
  <2>2. lock' \in [Classes -> Threads \cup {NoThread}]
    BY <1>1, <1>2 DEF Inv, TypeOK
  <2> QED BY <1>1, <1>2, <2>1, <2>2, SpansKept DEF Inv, TypeOK
<1>8. BlocksConserved'
  <2>1. InTransit' = InTransit \ call[t].chain
    BY <1>3 DEF InTransit, Inv, BlocksConserved
  <2>2. Away' = Away
    BY <1>1, <2>1 DEF Away, InTransit
  <2>3. InTransit' \cap out' = {} /\ lost \cap (InTransit' \cup out') = {}
    <3>1. call[t].chain \subseteq InTransit
      BY DEF InTransit
    <3> QED BY <1>1, <2>1, <3>1 DEF Inv, BlocksConserved
  <2>4. \A u, v \in Threads : u # v => call'[u].chain \cap call'[v].chain = {}
    BY <1>3 DEF Inv, BlocksConserved
  <2> QED BY <1>1, <2>2, <2>3, <2>4, SpansKept DEF Inv, BlocksConserved
<1>9. PartialExact'
  <2>1. \A c \in Classes : lock'[c] = NoThread => c = c0 \/ lock[c] = NoThread
    BY <1>3
  <2> QED BY <1>1, <1>6, <2>1, SpansKept DEF Inv, PartialExact
<1>10. LockExact'
  <2>1. \A u \in Threads, c \in Classes :
          lock'[c] = u <=> call'[u].op \in {"fetch", "return"} /\ call'[u].class = c
    <3> SUFFICES ASSUME NEW u \in Threads, NEW c \in Classes
                 PROVE  lock'[c] = u <=> call'[u].op \in {"fetch", "return"} /\ call'[u].class = c
      OBVIOUS
    <3>1. lock[c] = u <=> call[u].op \in {"fetch", "return"} /\ call[u].class = c
      BY DEF Inv, LockExact
    <3>2. CASE u = t
      BY <1>3, <1>4, <1>5, <3>2
    <3>3. CASE u # t
      BY <1>2, <1>3, <1>5, <3>1, <3>3
    <3> QED BY <3>2, <3>3
  <2>2. \A u \in Threads : call'[u].chain = {} \/ call'[u] = call[u]
    BY <1>3
  <2> QED BY <2>1, <2>2, <1>1, SpansKept DEF Inv, LockExact
<1>11. FreshSpan'
  <2> SUFFICES ASSUME NEW c \in Classes, NEW s \in partial[c],
                      spans[s].freeCount = spans[s].blockCount
               PROVE  partial[c] = {s} /\ \E u \in Threads : lock'[c] = u /\ Fetching(u)'
    BY <1>1 DEF FreshSpan
  <2>1. lock[c] \in Threads /\ Fetching(lock[c]) /\ partial[c] = {s}
    BY LockedIfFresh
  <2>2. c # c0
    <3>1. CASE c = c0
      BY <1>1, <1>2, <2>1, <3>1 DEF c0
    <3> QED BY <3>1
  <2>3. lock'[c] = lock[c] /\ call'[lock[c]] = call[lock[c]]
    BY <1>3, <1>4, <2>1, <2>2
  <2> QED BY <2>1, <2>3 DEF Fetching
<1> QED BY <1>1, <1>7, <1>8, <1>9, <1>10, <1>11, SpansKept DEF Inv

(* An exception ends fetchRange: it unlocks, and the batch is nobody's.    *)
LEMMA FetchThrowsInv ==
  ASSUME Inv, NEW t \in Threads, FetchThrows(t)
  PROVE  Inv'
<1> DEFINE c0 == call[t].class
<1>1. /\ call[t].op = "fetch"
      /\ partial[c0] = {}
      /\ lock' = [lock EXCEPT ![c0] = NoThread]
      /\ call' = [call EXCEPT ![t] = Idle]
      /\ lost' = lost \cup call[t].chain
      /\ UNCHANGED <<live, spans, partial, out>>
  BY DEF FetchThrows, Fetching
<1>2. /\ DOMAIN call = Threads /\ DOMAIN lock = Classes /\ c0 \in Classes
      /\ call[t].chain \subseteq Bytes
      /\ lock[c0] = t
  BY <1>1 DEF Inv, TypeOK, LockExact
<1>3. /\ \A u \in Threads \ {t} : call'[u] = call[u]
      /\ call'[t].op = "none" /\ call'[t].chain = {}
      /\ \A c \in Classes \ {c0} : lock'[c] = lock[c]
      /\ lock'[c0] = NoThread
  BY <1>1, <1>2 DEF Idle
<1>4. \A c \in Classes \ {c0} : lock[c] # t
  BY DEF Inv, LockExact
<1>5. NoThread \notin Threads
  BY CentralCacheAssumption
<1>6. \A s \in partial[c0] : spans[s].freeCount < spans[s].blockCount
  BY <1>1
<1> HIDE DEF c0
<1>7. TypeOK'
  <2>1. call' \in [Threads -> [op : Ops, class : Classes, chain : SUBSET Bytes]]
    <3>1. Idle \in [op : Ops, class : Classes, chain : SUBSET Bytes]
      BY <1>2, CentralCacheAssumption DEF Idle, Ops, Classes
    <3> QED BY <1>1, <3>1 DEF Inv, TypeOK
  <2>2. lock' \in [Classes -> Threads \cup {NoThread}]
    BY <1>1, <1>2 DEF Inv, TypeOK
  <2> QED BY <1>1, <1>2, <2>1, <2>2, SpansKept DEF Inv, TypeOK
<1>8. BlocksConserved'
  <2>1. InTransit' = InTransit \ call[t].chain
    BY <1>3 DEF InTransit, Inv, BlocksConserved
  <2>2. Away' = Away
    BY <1>1, <2>1 DEF Away, InTransit
  <2>3. InTransit' \cap out' = {} /\ lost' \cap (InTransit' \cup out') = {}
    <3>1. call[t].chain \subseteq InTransit
      BY DEF InTransit
    <3> QED BY <1>1, <2>1, <3>1 DEF Inv, BlocksConserved
  <2>4. \A u, v \in Threads : u # v => call'[u].chain \cap call'[v].chain = {}
    BY <1>3 DEF Inv, BlocksConserved
  <2> QED BY <1>1, <2>2, <2>3, <2>4, SpansKept DEF Inv, BlocksConserved
<1>9. PartialExact'
  <2>1. \A c \in Classes : lock'[c] = NoThread => c = c0 \/ lock[c] = NoThread
    BY <1>3
  <2> QED BY <1>1, <1>6, <2>1, SpansKept DEF Inv, PartialExact
<1>10. LockExact'
  <2>1. \A u \in Threads, c \in Classes :
          lock'[c] = u <=> call'[u].op \in {"fetch", "return"} /\ call'[u].class = c
    <3> SUFFICES ASSUME NEW u \in Threads, NEW c \in Classes
                 PROVE  lock'[c] = u <=> call'[u].op \in {"fetch", "return"} /\ call'[u].class = c
      OBVIOUS
    <3>1. lock[c] = u <=> call[u].op \in {"fetch", "return"} /\ call[u].class = c
      BY DEF Inv, LockExact
    <3>2. CASE u = t
      BY <1>3, <1>4, <1>5, <3>2
    <3>3. CASE u # t
      BY <1>2, <1>3, <1>5, <3>1, <3>3
    <3> QED BY <3>2, <3>3
  <2>2. \A u \in Threads : call'[u].chain = {} \/ call'[u] = call[u]
    BY <1>3
  <2> QED BY <2>1, <2>2, <1>1, SpansKept DEF Inv, LockExact
<1>11. FreshSpan'
  <2> SUFFICES ASSUME NEW c \in Classes, NEW s \in partial[c],
                      spans[s].freeCount = spans[s].blockCount
               PROVE  partial[c] = {s} /\ \E u \in Threads : lock'[c] = u /\ Fetching(u)'
    BY <1>1 DEF FreshSpan
  <2>1. lock[c] \in Threads /\ Fetching(lock[c]) /\ partial[c] = {s}
    BY LockedIfFresh
  <2>2. c # c0
    <3>1. CASE c = c0
      BY <1>1, <1>2, <2>1, <3>1 DEF c0
    <3> QED BY <3>1
  <2>3. lock'[c] = lock[c] /\ call'[lock[c]] = call[lock[c]]
    BY <1>3, <1>4, <2>1, <2>2
  <2> QED BY <2>1, <2>3 DEF Fetching
<1> QED BY <1>1, <1>7, <1>8, <1>9, <1>10, <1>11, SpansKept DEF Inv

(* A caller of returnRange hands over blocks it was lent.                  *)
LEMMA ReturnCallInv ==
  ASSUME Inv, NEW t \in Threads, NEW c \in Classes, NEW chain \in SUBSET Lent(c),
         ReturnCall(t, c, chain)
  PROVE  Inv'
<1>1. /\ call[t] = Idle
      /\ call' = [call EXCEPT ![t] = [op |-> "returnLock", class |-> c, chain |-> chain]]
      /\ out' = out \ chain
      /\ UNCHANGED <<live, spans, partial, lock, lost>>
  BY DEF ReturnCall
<1>2. DOMAIN call = Threads /\ call[t].op = "none" /\ call[t].chain = {}
  BY <1>1 DEF Inv, TypeOK, Idle
<1>3. /\ \A u \in Threads \ {t} : call'[u] = call[u]
      /\ call'[t].op = "returnLock" /\ call'[t].class = c /\ call'[t].chain = chain
  BY <1>1, <1>2
<1>4. /\ chain \subseteq out
      /\ \A b \in chain : \E s \in findSpan(b) : spans[s].sizeClass = c
  BY DEF Lent
<1>5. TypeOK'
  <2>1. call' \in [Threads -> [op : Ops, class : Classes, chain : SUBSET Bytes]]
    BY <1>1, <1>4 DEF Inv, TypeOK, Ops
  <2> QED BY <1>1, <2>1, SpansKept DEF Inv, TypeOK
<1>6. BlocksConserved'
  <2>1. InTransit' = InTransit \cup chain
    BY <1>2, <1>3 DEF InTransit
  <2>2. Away' = Away
    BY <1>1, <1>4, <2>1 DEF Away
  <2>3. InTransit' \cap out' = {} /\ lost \cap (InTransit' \cup out') = {}
    BY <1>1, <1>4, <2>1 DEF Inv, BlocksConserved
  <2>4. \A u, v \in Threads : u # v => call'[u].chain \cap call'[v].chain = {}
    <3> SUFFICES ASSUME NEW u \in Threads, NEW v \in Threads, u # v
                 PROVE  call'[u].chain \cap call'[v].chain = {}
      OBVIOUS
    <3>1. call[u].chain \subseteq InTransit /\ call[v].chain \subseteq InTransit
      BY DEF InTransit
    <3> QED BY <1>3, <1>4, <3>1 DEF Inv, BlocksConserved
  <2> QED BY <1>1, <2>2, <2>3, <2>4, SpansKept DEF Inv, BlocksConserved
<1>7. PartialExact'
  BY <1>1, SpansKept DEF Inv, PartialExact
<1>8. LockExact'
  <2>1. \A u \in Threads : \A b \in call'[u].chain :
          \E s \in findSpan(b) : spans[s].sizeClass = call'[u].class
    BY <1>3, <1>4 DEF Inv, LockExact
  <2> QED BY <1>1, <1>2, <1>3, <2>1, SpansKept DEF Inv, LockExact
<1>9. FreshSpan'
  <2>1. \A u \in Threads, d \in Classes : lock[d] = u => u # t
    BY <1>2 DEF Inv, LockExact
  <2> QED BY <1>1, <1>3, <2>1 DEF Inv, FreshSpan, Fetching
<1> QED BY <1>1, <1>5, <1>6, <1>7, <1>8, <1>9, SpansKept DEF Inv

(* returnRange unlocks with no block left to put back.                     *)
LEMMA ReturnEndInv ==
  ASSUME Inv, NEW t \in Threads, ReturnEnd(t)
  PROVE  Inv'
<1> DEFINE c0 == call[t].class
<1>1. /\ call[t].op = "return"
      /\ call[t].chain = {}
      /\ lock' = [lock EXCEPT ![c0] = NoThread]
      /\ call' = [call EXCEPT ![t] = Idle]
      /\ UNCHANGED <<live, spans, partial, out, lost>>
  BY DEF ReturnEnd
<1>2. /\ DOMAIN call = Threads /\ DOMAIN lock = Classes /\ c0 \in Classes
      /\ lock[c0] = t
  BY <1>1 DEF Inv, TypeOK, LockExact
<1>3. /\ \A u \in Threads \ {t} : call'[u] = call[u]
      /\ call'[t].op = "none" /\ call'[t].chain = {}
      /\ \A c \in Classes \ {c0} : lock'[c] = lock[c]
      /\ lock'[c0] = NoThread
  BY <1>1, <1>2 DEF Idle
<1>4. \A c \in Classes \ {c0} : lock[c] # t
  BY DEF Inv, LockExact
<1>5. NoThread \notin Threads
  BY CentralCacheAssumption
<1>6. \A s \in partial[c0] : spans[s].freeCount # spans[s].blockCount
  BY <1>1, <1>2, LockedIfFresh DEF Fetching
<1> HIDE DEF c0
<1>7. TypeOK'
  <2>1. call' \in [Threads -> [op : Ops, class : Classes, chain : SUBSET Bytes]]
    <3>1. Idle \in [op : Ops, class : Classes, chain : SUBSET Bytes]
      BY <1>2, CentralCacheAssumption DEF Idle, Ops, Classes
    <3> QED BY <1>1, <3>1 DEF Inv, TypeOK
  <2>2. lock' \in [Classes -> Threads \cup {NoThread}]
    BY <1>1, <1>2 DEF Inv, TypeOK
  <2> QED BY <1>1, <1>2, <2>1, <2>2, SpansKept DEF Inv, TypeOK
<1>8. BlocksConserved'
  <2>1. \A u \in Threads : call'[u].chain = call[u].chain
    BY <1>1, <1>3
  <2>2. InTransit' = InTransit
    BY <2>1 DEF InTransit
  <2> QED BY <1>1, <2>1, <2>2, SpansKept DEF Inv, BlocksConserved, Away
<1>9. PartialExact'
  <2>1. \A c \in Classes : lock'[c] = NoThread => c = c0 \/ lock[c] = NoThread
    BY <1>3
  <2>2. \A s \in partial[c0] : spans[s].freeCount < spans[s].blockCount
    <3>1. \A s \in partial[c0] : s \in SmallSpans
      BY <1>2 DEF Inv, PartialExact
    <3> QED BY <1>6, <3>1, SmallSpanFacts DEF Inv, CountsExact
  <2> QED BY <1>1, <2>1, <2>2, SpansKept DEF Inv, PartialExact
<1>10. LockExact'
  <2>1. \A u \in Threads, c \in Classes :
          lock'[c] = u <=> call'[u].op \in {"fetch", "return"} /\ call'[u].class = c
    <3> SUFFICES ASSUME NEW u \in Threads, NEW c \in Classes
                 PROVE  lock'[c] = u <=> call'[u].op \in {"fetch", "return"} /\ call'[u].class = c
      OBVIOUS
    <3>1. lock[c] = u <=> call[u].op \in {"fetch", "return"} /\ call[u].class = c
      BY DEF Inv, LockExact
    <3>2. CASE u = t
      BY <1>3, <1>4, <1>5, <3>2
    <3>3. CASE u # t
      BY <1>2, <1>3, <1>5, <3>1, <3>3
    <3> QED BY <3>2, <3>3
  <2>2. \A u \in Threads : call'[u].chain = {} \/ call'[u] = call[u]
    BY <1>3
  <2> QED BY <2>1, <2>2, <1>1, SpansKept DEF Inv, LockExact
<1>11. FreshSpan'
  <2> SUFFICES ASSUME NEW c \in Classes, NEW s \in partial[c],
                      spans[s].freeCount = spans[s].blockCount
               PROVE  partial[c] = {s} /\ \E u \in Threads : lock'[c] = u /\ Fetching(u)'
    BY <1>1 DEF FreshSpan
  <2>1. lock[c] \in Threads /\ Fetching(lock[c]) /\ partial[c] = {s}
    BY LockedIfFresh
  <2>2. c # c0
    BY <1>6
  <2>3. lock'[c] = lock[c] /\ call'[lock[c]] = call[lock[c]]
    BY <1>3, <1>4, <2>1, <2>2
  <2> QED BY <2>1, <2>3 DEF Fetching
<1> QED BY <1>1, <1>7, <1>8, <1>9, <1>10, <1>11, SpansKept DEF Inv

-----------------------------------------------------------------------------
(* The steps of the loops.                                                 *)

(* A block moves from its span's free list to the batch.                   *)
LEMMA TakeBlockInv ==
  ASSUME Inv, NEW t \in Threads, TakeBlock(t)
  PROVE  Inv'
<1> DEFINE c0 == call[t].class
<1>0. PICK s \in partial[c0] : \E b \in spans[s].freeList :
        /\ Fetching(t)
        /\ spans' = [spans EXCEPT ![s].freeList = @ \ {b}, ![s].freeCount = @ - 1]
        /\ call' = [call EXCEPT ![t].chain = @ \cup {b}]
        /\ partial' = IF StillPartial(s) THEN partial ELSE [partial EXCEPT ![c0] = @ \ {s}]
        /\ UNCHANGED <<live, lock, out, lost>>
  BY DEF TakeBlock
<1>1. PICK b \in spans[s].freeList :
        /\ Fetching(t)
        /\ spans' = [spans EXCEPT ![s].freeList = @ \ {b}, ![s].freeCount = @ - 1]
        /\ call' = [call EXCEPT ![t].chain = @ \cup {b}]
        /\ partial' = IF StillPartial(s) THEN partial ELSE [partial EXCEPT ![c0] = @ \ {s}]
        /\ UNCHANGED <<live, lock, out, lost>>
  BY <1>0
<1>2. /\ DOMAIN call = Threads /\ DOMAIN partial = Classes /\ c0 \in Classes
      /\ call[t] \in [op : Ops, class : Classes, chain : SUBSET Bytes]
      /\ lock[c0] = t
  BY <1>1 DEF Inv, TypeOK, LockExact, Fetching
<1>3. s \in SmallSpans /\ spans[s].sizeClass = c0 /\ spans[s].freeCount > 0
  BY <1>2 DEF Inv, PartialExact
<1>4. b \in Blocks(s) /\ b \in Bytes /\ findSpan(b) = {s} /\ b \notin Away
  BY <1>3, BlockHome DEF Inv, BlocksConserved
<1> HIDE DEF c0
<1>5. /\ DOMAIN spans' = DOMAIN spans
      /\ \A r \in DOMAIN spans \ {s} : spans'[r] = spans[r]
      /\ spans'[s].sizeClass = spans[s].sizeClass
      /\ spans'[s].blockCount = spans[s].blockCount
      /\ spans'[s].freeCount = spans[s].freeCount - 1
      /\ spans'[s].freeList = spans[s].freeList \ {b}
      /\ spans'[s] \in SpanFields
  BY <1>1, <1>3, SmallSpanFacts DEF SpanFields
<1>6. /\ SmallSpans' = SmallSpans
      /\ \A r \in SmallSpans : Blocks(r)' = Blocks(r) /\ spans'[r].sizeClass = spans[r].sizeClass
                               /\ spans'[r].blockCount = spans[r].blockCount
      /\ \A a : findSpan(a)' = findSpan(a)
      /\ \A r \in DOMAIN spans : spans'[r].sizeClass = spans[r].sizeClass
  BY <1>1, <1>5 DEF SmallSpans, Blocks, findSpan
<1>7. /\ \A u \in Threads \ {t} : call'[u] = call[u]
      /\ call'[t].op = call[t].op /\ call'[t].class = c0
      /\ call'[t].chain = call[t].chain \cup {b}
  BY <1>1, <1>2 DEF c0
<1>8. InTransit' = InTransit \cup {b} /\ Away' = Away \cup {b}
  BY <1>1, <1>7 DEF InTransit, Away
<1>9. TypeOK'
  <2>1. call' \in [Threads -> [op : Ops, class : Classes, chain : SUBSET Bytes]]
    BY <1>1, <1>2, <1>4 DEF Inv, TypeOK
  <2>2. spans' \in [DOMAIN spans' -> SpanFields]
    <3>1. \A r \in DOMAIN spans : spans[r] \in SpanFields
      BY DEF Inv, TypeOK
    <3>2. \A r \in DOMAIN spans' : spans'[r] \in SpanFields
      BY <1>5, <3>1
    <3> QED BY <1>1, <3>2
  <2>3. partial' \in [Classes -> SUBSET Pages]
    BY <1>1, <1>2 DEF Inv, TypeOK
  <2> QED BY <1>1, <1>5, <2>1, <2>2, <2>3 DEF Inv, TypeOK
<1>10. SpansDisjoint' /\ InsideSpace'
  BY <1>1 DEF Inv, SpansDisjoint, InsideSpace
<1>11. CutWhole'
  BY <1>1, <1>6 DEF Inv, CutWhole
<1>12. CountsExact'
  <2>1. Cardinality(spans[s].freeList \ {b}) = spans[s].freeCount - 1
    <3> DEFINE F == spans[s].freeList
    <3>1. IsFiniteSet(F) /\ Cardinality(F) = spans[s].freeCount /\ b \in F
      BY <1>3, SmallSpanFacts
    <3> HIDE DEF F
    <3>2. Cardinality(F \ {b}) = Cardinality(F) - 1
      BY <3>1, FS_RemoveElement
    <3> QED BY <3>1, <3>2 DEF F
  <2>2. spans[s].freeCount - 1 <= spans[s].blockCount
    BY <1>3, SmallSpanFacts DEF Inv, CountsExact
  <2>3. \A r \in SmallSpans : r # s => spans'[r] = spans[r]
    BY <1>5 DEF SmallSpans
  <2> QED BY <1>5, <1>6, <2>1, <2>2, <2>3, ZenonT(30) DEF Inv, CountsExact
<1>13. BlocksConserved'
  <2>1. \A u, v \in Threads : u # v => call'[u].chain \cap call'[v].chain = {}
    <3>1. \A u \in Threads : b \notin call[u].chain
      BY <1>4 DEF InTransit, Away
    <3> QED BY <1>7, <3>1 DEF Inv, BlocksConserved
  <2>2. InTransit' \cap out' = {} /\ lost' \cap (InTransit' \cup out') = {}
    BY <1>1, <1>4, <1>8 DEF Inv, BlocksConserved, Away
  <2>3. ASSUME NEW r \in SmallSpans
        PROVE  /\ spans'[r].freeList \subseteq Blocks(r)
               /\ \A a \in Blocks(r) : a \in spans'[r].freeList <=> a \notin Away'
    <3>1. /\ spans[r].freeList \subseteq Blocks(r)
          /\ \A a \in Blocks(r) : a \in spans[r].freeList <=> a \notin Away
      BY DEF Inv, BlocksConserved
    <3>2. CASE r = s
      BY <1>1, <1>5, <1>8, <3>1, <3>2
    <3>3. CASE r # s
      <4>1. b \notin Blocks(r)
        BY <1>4, <3>3, BlockHome
      <4>2. spans'[r] = spans[r]
        BY <1>5, <3>3 DEF SmallSpans
      <4> QED BY <1>1, <1>8, <3>1, <4>1, <4>2
    <3> QED BY <3>2, <3>3
  <2>4. \A a \in Away' : \E r \in SmallSpans : a \in Blocks(r)
    BY <1>1, <1>3, <1>4, <1>8 DEF Inv, BlocksConserved
  <2> QED BY <1>6, <2>1, <2>2, <2>3, <2>4 DEF BlocksConserved
<1>14. PartialExact'
  <2>1. \A c \in Classes \ {c0} : partial'[c] = partial[c]
    BY <1>1, <1>2
  <2>2. partial'[c0] = IF spans'[s].freeCount > 0 THEN partial[c0] ELSE partial[c0] \ {s}
    BY <1>1, <1>2, <1>5 DEF StillPartial
  <2>3. ASSUME NEW c \in Classes
        PROVE  partial'[c] = {r \in SmallSpans : spans'[r].sizeClass = c /\ spans'[r].freeCount > 0}
    <3>1. partial[c] = {r \in SmallSpans : spans[r].sizeClass = c /\ spans[r].freeCount > 0}
      BY DEF Inv, PartialExact
    <3>2. \A r \in SmallSpans \ {s} : spans'[r] = spans[r]
      BY <1>5 DEF SmallSpans
    <3>3. CASE c = c0
      BY <1>3, <1>5, <2>2, <3>1, <3>2, <3>3
    <3>4. CASE c # c0
      BY <1>3, <1>5, <2>1, <3>1, <3>2, <3>4
    <3> QED BY <3>3, <3>4
  <2>4. \A c \in Classes : lock'[c] = NoThread =>
          \A r \in partial'[c] : spans'[r].freeCount < spans'[r].blockCount
    <3> SUFFICES ASSUME NEW c \in Classes, lock'[c] = NoThread, NEW r \in partial'[c]
                 PROVE  spans'[r].freeCount < spans'[r].blockCount
      OBVIOUS
    <3>1. c # c0
      BY <1>1, <1>2, CentralCacheAssumption
    <3>2. r \in partial[c] /\ spans[r].freeCount < spans[r].blockCount
      BY <1>1, <2>1, <3>1 DEF Inv, PartialExact
    <3>3. r # s /\ r \in SmallSpans
      BY <1>3, <3>1, <3>2 DEF Inv, PartialExact
    <3> QED BY <1>5, <3>2, <3>3 DEF SmallSpans
  <2> QED BY <1>6, <2>3, <2>4 DEF PartialExact
<1>15. LockExact'
  <2>1. \A u \in Threads, c \in Classes :
          lock'[c] = u <=> call'[u].op \in {"fetch", "return"} /\ call'[u].class = c
    <3>1. \A u \in Threads : call'[u].op = call[u].op /\ call'[u].class = call[u].class
      BY <1>7 DEF c0
    <3> QED BY <1>1, <3>1 DEF Inv, LockExact
  <2>2. \A u \in Threads : \A a \in call'[u].chain :
          \E r \in findSpan(a) : spans'[r].sizeClass = call'[u].class
    <3>1. \A u \in Threads : \A a \in call[u].chain :
            \E r \in findSpan(a) : r \in DOMAIN spans /\ spans[r].sizeClass = call[u].class
      BY DEF Inv, LockExact, findSpan
    <3> QED BY <1>3, <1>4, <1>5, <1>6, <1>7, <3>1 DEF c0
  <2> QED BY <1>6, <2>1, <2>2 DEF LockExact
<1>16. FreshSpan'
  <2> SUFFICES ASSUME NEW c \in Classes, NEW r \in partial'[c],
                      spans'[r].freeCount = spans'[r].blockCount
               PROVE  partial'[c] = {r} /\ \E u \in Threads : lock'[c] = u /\ Fetching(u)'
    BY DEF FreshSpan
  <2>1. r \in SmallSpans /\ spans'[r].sizeClass = c
    BY <1>6, <1>14 DEF PartialExact
  <2>2. r # s
    BY <1>3, <1>5, SmallSpanFacts DEF Inv, CountsExact
  <2>3. spans'[r] = spans[r]
    BY <1>5, <2>1, <2>2 DEF SmallSpans
  <2>4. r \in partial[c]
    BY <1>1, <1>2
  <2>5. lock[c] \in Threads /\ Fetching(lock[c]) /\ partial[c] = {r}
    BY <2>3, <2>4, LockedIfFresh
  <2>6. c # c0
    BY <2>2, <2>5
  <2>7. lock[c] # t
    BY <2>6 DEF Inv, LockExact, c0
  <2> QED BY <1>1, <1>2, <1>7, <2>5, <2>6, <2>7 DEF Fetching
<1> QED BY <1>9, <1>10, <1>11, <1>12, <1>13, <1>14, <1>15, <1>16 DEF Inv

-----------------------------------------------------------------------------
(* Spans come and go.                                                      *)

(* A block lies on a page of its span.                                     *)
LEMMA BlockPage ==
  ASSUME Inv, NEW s \in SmallSpans, NEW b \in Blocks(s)
  PROVE  (b \div PageBytes) \in s .. (s + live[s] - 1)
<1>1. findSpan(b) = {s}
  BY BlockHome
<1> QED BY <1>1 DEF findSpan

(* What the page cache promises of the pages it hands out.                 *)
LEMMA AllocFacts ==
  ASSUME Inv, NEW n \in Nat \ {0}, NEW s \in Pages, PageLevel!Alloc(n, s)
  PROVE  /\ s \notin DOMAIN live /\ s \in Nat /\ s \in Pages
         /\ DOMAIN live' = DOMAIN live \cup {s}
         /\ \A r \in DOMAIN live : live'[r] = live[r]
         /\ live'[s] \in Nat \ {0} /\ n <= live'[s] /\ live'[s] \in 1 .. NumPages
         /\ (s .. (s + live'[s] - 1)) \subseteq Pages
         /\ \A r \in DOMAIN live : (s .. (s + live'[s] - 1)) \cap (r .. (r + live[r] - 1)) = {}
         /\ SpansDisjoint' /\ InsideSpace'
         /\ DOMAIN live' \subseteq Pages /\ live' \in [DOMAIN live' -> 1 .. NumPages]
<1>1. PICK m \in n .. (n + (Granularity - 1)) :
        /\ (s .. (s + m - 1)) \subseteq Pages
        /\ {r \in DOMAIN live : (r .. (r + live[r] - 1)) \cap (s .. (s + m - 1)) # {}} = {}
        /\ live' = [r \in DOMAIN live \cup {s} |-> IF r = s THEN m ELSE live[r]]
  BY DEF PageLevel!Alloc, PageLevel!Overlapping, PageLevel!Run, PageLevel!Units, Pages
<1>2. m \in Nat \ {0} /\ n <= m
  BY CentralCacheAssumption
<1>3. \A r \in DOMAIN live : r \in Nat /\ live[r] \in Nat \ {0} /\ r \in Pages
  BY CentralCacheAssumption DEF Inv, TypeOK, Pages
<1>4. \A r \in DOMAIN live : (s .. (s + m - 1)) \cap (r .. (r + live[r] - 1)) = {}
  BY <1>1
<1>5. s \in Nat /\ s \in Pages /\ m <= NumPages
  <2>1. s \in Nat /\ s + m - 1 \in s .. (s + m - 1)
    BY <1>2, CentralCacheAssumption DEF Pages
  <2>2. s + m - 1 \in Pages
    BY <1>1, <2>1
  <2> QED BY <1>2, <2>1, <2>2, CentralCacheAssumption DEF Pages
<1>6. s \notin DOMAIN live
  <2>1. s \in s .. (s + m - 1)
    BY <1>2, <1>5
  <2> QED BY <1>3, <1>4, <2>1
<1>7. /\ DOMAIN live' = DOMAIN live \cup {s}
      /\ \A r \in DOMAIN live : live'[r] = live[r]
      /\ live'[s] = m
  BY <1>1, <1>6
<1>8. SpansDisjoint'
  BY <1>4, <1>6, <1>7 DEF Inv, SpansDisjoint
<1>9. InsideSpace'
  BY <1>1, <1>7 DEF Inv, InsideSpace
<1>10. DOMAIN live' \subseteq Pages /\ live' \in [DOMAIN live' -> 1 .. NumPages]
  BY <1>1, <1>2, <1>5, <1>7, CentralCacheAssumption DEF Inv, TypeOK
<1> QED BY <1>1, <1>2, <1>4, <1>5, <1>6, <1>7, <1>8, <1>9, <1>10, CentralCacheAssumption

(* A new span changes nothing for the spans there were.                    *)
LEMMA SpanAdded ==
  ASSUME Inv, NEW n \in Nat \ {0}, NEW s \in Pages, PageLevel!Alloc(n, s),
         DOMAIN spans' = DOMAIN spans \cup {s},
         \A r \in DOMAIN spans : r # s => spans'[r] = spans[r]
  PROVE  /\ \A r \in DOMAIN spans : r # s
         /\ SmallSpans \subseteq SmallSpans'
         /\ SmallSpans' \ {s} = SmallSpans /\ s \notin SmallSpans
         /\ \A r \in SmallSpans : Blocks(r)' = Blocks(r) /\ spans'[r] = spans[r] /\ live'[r] = live[r]
         /\ \A a : findSpan(a) \subseteq findSpan(a)'
         /\ \A a : \A r \in findSpan(a) : r \in DOMAIN spans /\ spans'[r] = spans[r]
<1>1. DOMAIN spans = DOMAIN live
  BY DEF Inv, TypeOK
<1>2. s \notin DOMAIN live /\ \A r \in DOMAIN live : live'[r] = live[r]
  BY AllocFacts
<1> QED BY <1>1, <1>2 DEF SmallSpans, Blocks, findSpan

(* A large span takes free pages and touches no shard.                     *)
LEMMA AllocLargeSpanInv ==
  ASSUME Inv, NEW n \in LargePages, NEW s \in Pages, AllocLargeSpan(n, s)
  PROVE  Inv'
<1>1. /\ PageLevel!Alloc(n, s)
      /\ spans' = [x \in DOMAIN spans \cup {s} |->
                     IF x = s THEN [sizeClass |-> Large, blockCount |-> 1, freeCount |-> 0,
                                    freeList |-> {}]
                     ELSE spans[x]]
      /\ UNCHANGED <<partial, lock, call, out, lost>>
  BY DEF AllocLargeSpan
<1>2. n \in Nat \ {0}
  BY CentralCacheAssumption
<1>3. /\ DOMAIN spans' = DOMAIN spans \cup {s}
      /\ \A r \in DOMAIN spans : r # s => spans'[r] = spans[r]
      /\ spans'[s] = [sizeClass |-> Large, blockCount |-> 1, freeCount |-> 0, freeList |-> {}]
  BY <1>1
<1>4. /\ s \notin SmallSpans
      /\ SmallSpans' = SmallSpans
      /\ \A r \in SmallSpans : Blocks(r)' = Blocks(r) /\ spans'[r] = spans[r] /\ live'[r] = live[r]
      /\ \A a : findSpan(a) \subseteq findSpan(a)'
      /\ \A a : \A r \in findSpan(a) : spans'[r] = spans[r]
  <2>1. s \notin SmallSpans'
    BY <1>3 DEF SmallSpans
  <2>2. PageLevel!Alloc(n, s)
    BY <1>1
  <2>3. /\ SmallSpans \subseteq SmallSpans'
        /\ SmallSpans' \ {s} = SmallSpans /\ s \notin SmallSpans
        /\ \A r \in SmallSpans : Blocks(r)' = Blocks(r) /\ spans'[r] = spans[r] /\ live'[r] = live[r]
        /\ \A a : findSpan(a) \subseteq findSpan(a)'
        /\ \A a : \A r \in findSpan(a) : r \in DOMAIN spans /\ spans'[r] = spans[r]
    BY <1>2, <1>3, <2>2, SpanAdded
  <2>4. SmallSpans' = SmallSpans
    BY <2>1, <2>3
  <2> QED BY <2>3, <2>4
<1>11. UNCHANGED partial /\ UNCHANGED lock /\ UNCHANGED call /\ UNCHANGED out
       /\ UNCHANGED lost
  BY <1>1
<1>12. SmallSpans' = SmallSpans
  BY <1>4
<1>13. \A r \in SmallSpans : Blocks(r)' = Blocks(r) /\ spans'[r] = spans[r]
  BY <1>4
<1>5. TypeOK'
  <2>1. spans' \in [DOMAIN spans' -> SpanFields]
    BY <1>1 DEF Inv, TypeOK, SpanFields
  <2>2. DOMAIN spans' = DOMAIN live'
    BY <1>1, <1>2, <1>3, AllocFacts DEF Inv, TypeOK
  <2> QED BY <1>1, <1>2, <2>1, <2>2, AllocFacts DEF Inv, TypeOK
<1>6. CutWhole' /\ CountsExact'
  BY <1>4 DEF Inv, CutWhole, CountsExact
<1>7. BlocksConserved'
  <2>1. InTransit' = InTransit
    BY <1>1 DEF InTransit
  <2> QED BY <1>11, <1>12, <1>13, <2>1 DEF Inv, BlocksConserved, Away
<1>8. PartialExact'
  <2>1. \A c \in Classes : \A r \in partial[c] : r \in SmallSpans
    BY DEF Inv, PartialExact
  <2> QED BY <1>11, <1>12, <1>13, <2>1 DEF Inv, PartialExact
<1>9. LockExact'
  <2>1. \A u \in Threads : \A b \in call[u].chain :
          \E r \in findSpan(b)' : spans'[r].sizeClass = call[u].class
    BY <1>4 DEF Inv, LockExact
  <2> QED BY <1>11, <2>1 DEF Inv, LockExact
<1>10. FreshSpan'
  <2>1. \A c \in Classes : \A r \in partial[c] : spans'[r] = spans[r]
    BY <1>13 DEF Inv, PartialExact
  <2> QED BY <1>11, <2>1 DEF Inv, FreshSpan, Fetching
<1> QED BY <1>1, <1>2, <1>5, <1>6, <1>7, <1>8, <1>9, <1>10, AllocFacts DEF Inv

(* The new span is cut into blocks, all of them free and none known yet.   *)
LEMMA CreateSpanInv ==
  ASSUME Inv, NEW t \in Threads, CreateSpan(t)
  PROVE  Inv'
<1> DEFINE c0 == call[t].class
           size == SpanPages[c0]
<1>1. PICK s \in Pages :
        /\ PageLevel!Alloc(size, s)
        /\ spans' = [x \in DOMAIN spans \cup {s} |->
             IF x = s
             THEN [sizeClass |-> c0,
                   blockCount |-> (live'[s] * PageBytes) \div BlockSize[c0],
                   freeCount |-> (live'[s] * PageBytes) \div BlockSize[c0],
                   freeList |-> BlockAddrs(s, c0, (live'[s] * PageBytes) \div BlockSize[c0])]
             ELSE spans[x]]
        /\ partial' = [partial EXCEPT ![c0] = {s}]
        /\ UNCHANGED <<lock, call, out, lost>>
        /\ Fetching(t)
        /\ partial[c0] = {}
  BY DEF CreateSpan
<1>2. /\ DOMAIN partial = Classes /\ c0 \in Classes /\ lock[c0] = t
      /\ c0 # Large
  BY <1>1, LargeIsNoClass DEF Inv, TypeOK, LockExact, Fetching
<1>3. size \in Nat \ {0} /\ BlockSize[c0] \in Nat \ {0} /\ PageBytes \in Nat \ {0}
      /\ BlockSize[c0] <= size * PageBytes
  BY <1>2, CentralCacheAssumption
<1> HIDE DEF c0, size
<1>4. /\ s \notin DOMAIN live /\ s \in Nat
      /\ live'[s] \in Nat \ {0} /\ size <= live'[s]
      /\ \A r \in DOMAIN live : (s .. (s + live'[s] - 1)) \cap (r .. (r + live[r] - 1)) = {}
  BY <1>1, <1>3, AllocFacts
<1> DEFINE n == (live'[s] * PageBytes) \div BlockSize[c0]
<1>5. n \in Nat \ {0}
  <2> DEFINE w == live'[s] * PageBytes
             z == BlockSize[c0]
  <2>1. w \in Nat /\ z \in Nat \ {0} /\ z <= w
    BY <1>3, <1>4, ProductMonotone
  <2> HIDE DEF w, z
  <2>2. w \div z \in Nat /\ w < (w \div z + 1) * z
    BY <2>1, QuotientBounds
  <2>3. w \div z # 0
    <3>1. CASE w \div z = 0
      BY <2>1, <2>2, <3>1
    <3> QED BY <3>1
  <2> QED BY <2>2, <2>3 DEF w, z
<1>6. /\ DOMAIN spans' = DOMAIN spans \cup {s}
      /\ \A r \in DOMAIN spans : r # s => spans'[r] = spans[r]
      /\ spans'[s] = [sizeClass |-> c0, blockCount |-> n, freeCount |-> n,
                      freeList |-> BlockAddrs(s, c0, n)]
  BY <1>1
<1>7. n = (live'[s] * PageBytes) \div BlockSize[c0]
  OBVIOUS
<1> HIDE DEF n
<1>8. /\ SmallSpans' = SmallSpans \cup {s} /\ s \notin SmallSpans
      /\ \A r \in SmallSpans : Blocks(r)' = Blocks(r) /\ spans'[r] = spans[r] /\ live'[r] = live[r]
      /\ \A a : findSpan(a) \subseteq findSpan(a)'
      /\ \A a : \A r \in findSpan(a) : spans'[r] = spans[r]
  <2>1. s \in SmallSpans'
    BY <1>2, <1>6 DEF SmallSpans
  <2>2. SmallSpans' \ {s} = SmallSpans /\ s \notin SmallSpans
    BY <1>1, <1>3, <1>6, SpanAdded
  <2>3. SmallSpans' = SmallSpans \cup {s}
    BY <2>1, <2>2
  <2> QED BY <1>1, <1>3, <1>6, <2>2, <2>3, SpanAdded
<1>20. UNCHANGED lock /\ UNCHANGED call /\ UNCHANGED out
       /\ UNCHANGED lost
  BY <1>1
<1>21. /\ partial'[c0] = {s} /\ partial[c0] = {}
      /\ \A c \in Classes \ {c0} : partial'[c] = partial[c]
  BY <1>1, <1>2
<1>22. SmallSpans' = SmallSpans \cup {s} /\ \A r \in SmallSpans : r # s /\ spans'[r] = spans[r]
  BY <1>8
<1>9. Blocks(s)' = BlockAddrs(s, c0, n)
  BY <1>6 DEF Blocks
<1>10. BlockAddrs(s, c0, n) \cap Away = {}
  <2> SUFFICES ASSUME NEW b \in BlockAddrs(s, c0, n), b \in Away
               PROVE  FALSE
    OBVIOUS
  <2>1. (b \div PageBytes) \in s .. (s + live'[s] - 1)
    BY <1>2, <1>4, <1>5, <1>7, BlocksInside
  <2>2. PICK r \in SmallSpans : b \in Blocks(r)
    BY BlockOut
  <2>3. (b \div PageBytes) \in r .. (r + live[r] - 1) /\ r \in DOMAIN live
    BY <2>2, BlockPage, SmallSpanFacts
  <2> QED BY <1>4, <2>1, <2>3
<1>11. BlockAddrs(s, c0, n) \subseteq Bytes
  <2> SUFFICES ASSUME NEW b \in BlockAddrs(s, c0, n)
               PROVE  b \in Bytes
    OBVIOUS
  <2>1. b \in Nat /\ b < (s + live'[s]) * PageBytes
    BY <1>2, <1>4, <1>5, <1>7, BlocksInside
  <2>2. s + live'[s] <= NumPages
    <3>1. s + live'[s] - 1 \in s .. (s + live'[s] - 1)
      BY <1>4
    <3>2. s + live'[s] - 1 \in Pages
      BY <1>1, <1>3, <3>1, AllocFacts
    <3> QED BY <1>4, <3>2, CentralCacheAssumption DEF Pages
  <2>3. (s + live'[s]) * PageBytes <= NumPages * PageBytes /\ NumPages * PageBytes \in Nat
        /\ (s + live'[s]) * PageBytes \in Nat
    <3>1. s + live'[s] \in Nat /\ NumPages \in Nat /\ PageBytes \in Nat
      BY <1>4, CentralCacheAssumption
    <3> DEFINE e == s + live'[s]
    <3> HIDE DEF e
    <3>2. e \in Nat /\ e <= NumPages
      BY <2>2, <3>1 DEF e
    <3>3. e * PageBytes <= NumPages * PageBytes /\ NumPages * PageBytes \in Nat
          /\ e * PageBytes \in Nat
      BY <3>1, <3>2, ProductMonotone
    <3> QED BY <3>3 DEF e
  <2> QED BY <2>1, <2>3 DEF Bytes
<1>12. TypeOK'
  <2>1. \A r \in DOMAIN spans' : spans'[r] \in SpanFields
    <3>1. \A r \in DOMAIN spans : spans[r] \in SpanFields
      BY DEF Inv, TypeOK
    <3>2. spans'[s] \in SpanFields
      BY <1>2, <1>5, <1>6, <1>11 DEF SpanFields
    <3> QED BY <1>6, <3>1, <3>2
  <2>2. spans' \in [DOMAIN spans' -> SpanFields]
    BY <1>1, <2>1
  <2>3. DOMAIN spans' = DOMAIN live'
    BY <1>1, <1>3, <1>6, AllocFacts DEF Inv, TypeOK
  <2>4. partial' \in [Classes -> SUBSET Pages]
    BY <1>1, <1>2 DEF Inv, TypeOK
  <2> QED BY <1>1, <1>3, <2>2, <2>3, <2>4, AllocFacts DEF Inv, TypeOK
<1>13. CutWhole'
  BY <1>5, <1>6, <1>7, <1>8 DEF Inv, CutWhole
<1>14. CountsExact'
  <2>1. Cardinality(BlockAddrs(s, c0, n)) = n
    BY <1>2, <1>4, <1>5, BlocksCounted
  <2> QED BY <1>5, <1>6, <1>8, <2>1 DEF Inv, CountsExact
<1>15. BlocksConserved'
  <2>1. InTransit' = InTransit /\ Away' = Away
    BY <1>1 DEF InTransit, Away
  <2>2. ASSUME NEW r \in SmallSpans'
        PROVE  /\ spans'[r].freeList \subseteq Blocks(r)'
               /\ \A b \in Blocks(r)' : b \in spans'[r].freeList <=> b \notin Away
    <3>1. CASE r = s
      BY <1>6, <1>9, <1>10, <3>1
    <3>2. CASE r # s
      <4>1. r \in SmallSpans
        BY <1>8, <3>2
      <4> QED BY <1>8, <4>1 DEF Inv, BlocksConserved
    <3> QED BY <3>1, <3>2
  <2>3. \A b \in Away : \E r \in SmallSpans' : b \in Blocks(r)'
    BY <1>8 DEF Inv, BlocksConserved
  <2>4. /\ InTransit \cap out = {} /\ lost \cap (InTransit \cup out) = {}
        /\ \A u, v \in Threads : u # v => call[u].chain \cap call[v].chain = {}
    BY DEF Inv, BlocksConserved
  <2> QED BY <1>1, <2>1, <2>2, <2>3, <2>4 DEF BlocksConserved
<1>16. \A r \in SmallSpans \ {s} : spans'[r] = spans[r]
  BY <1>8
<1>17. PartialExact'
  <2>1. ASSUME NEW c \in Classes
        PROVE  partial'[c] = {r \in SmallSpans' : spans'[r].sizeClass = c /\ spans'[r].freeCount > 0}
    <3>1. partial[c] = {r \in SmallSpans : spans[r].sizeClass = c /\ spans[r].freeCount > 0}
      BY DEF Inv, PartialExact
    <3>2. CASE c = c0
      BY <1>5, <1>6, <1>21, <1>22, <3>1, <3>2
    <3>3. CASE c # c0
      BY <1>6, <1>21, <1>22, <3>1, <3>3
    <3> QED BY <3>2, <3>3
  <2>2. \A c \in Classes : lock'[c] = NoThread =>
          \A r \in partial'[c] : spans'[r].freeCount < spans'[r].blockCount
    <3> SUFFICES ASSUME NEW c \in Classes, lock'[c] = NoThread, NEW r \in partial'[c]
                 PROVE  spans'[r].freeCount < spans'[r].blockCount
      OBVIOUS
    <3>1. c # c0
      BY <1>1, <1>2, CentralCacheAssumption
    <3>2. r \in partial[c] /\ spans[r].freeCount < spans[r].blockCount
      BY <1>1, <1>2, <3>1 DEF Inv, PartialExact
    <3> QED BY <1>8, <3>2 DEF Inv, PartialExact
  <2> QED BY <2>1, <2>2 DEF PartialExact
<1>18. LockExact'
  <2>1. \A u \in Threads : \A b \in call[u].chain :
          \E r \in findSpan(b)' : spans'[r].sizeClass = call[u].class
    BY <1>8 DEF Inv, LockExact
  <2> QED BY <1>20, <2>1 DEF Inv, LockExact
<1>19. FreshSpan'
  <2> SUFFICES ASSUME NEW c \in Classes, NEW r \in partial'[c],
                      spans'[r].freeCount = spans'[r].blockCount
               PROVE  partial'[c] = {r} /\ \E u \in Threads : lock[c] = u /\ Fetching(u)
    BY <1>1 DEF FreshSpan, Fetching
  <2>1. CASE c = c0
    BY <1>1, <1>2, <2>1
  <2>2. CASE c # c0
    <3>1. partial'[c] = partial[c]
      BY <1>1, <1>2, <2>2
    <3>2. r \in SmallSpans
      BY <3>1 DEF Inv, PartialExact
    <3>3. spans[r].freeCount = spans[r].blockCount
      BY <1>8, <3>2
    <3> QED BY <3>1, <3>3 DEF Inv, FreshSpan
  <2> QED BY <2>1, <2>2
<1> QED BY <1>1, <1>3, <1>12, <1>13, <1>14, <1>15, <1>17, <1>18, <1>19, AllocFacts DEF Inv

(* What a span leaves behind when it goes back to the page cache.          *)
LEMMA SpanRemoved ==
  ASSUME Inv, NEW s \in DOMAIN spans, deallocateSpan(s)
  PROVE  /\ SpansDisjoint' /\ InsideSpace' /\ CutWhole' /\ CountsExact'
         /\ DOMAIN live' \subseteq Pages /\ live' \in [DOMAIN live' -> 1 .. NumPages]
         /\ DOMAIN spans' = DOMAIN live' /\ spans' \in [DOMAIN spans' -> SpanFields]
         /\ SmallSpans' = SmallSpans \ {s}
         /\ \A r \in SmallSpans \ {s} : Blocks(r)' = Blocks(r) /\ spans'[r] = spans[r]
         /\ \A a : findSpan(a)' = findSpan(a) \ {s}
         /\ \A a : \A r \in findSpan(a) : r # s => spans'[r] = spans[r]
<1>1. /\ live' = [r \in DOMAIN live \ {s} |-> live[r]]
      /\ spans' = [r \in DOMAIN spans \ {s} |-> spans[r]]
  BY DEF deallocateSpan, PageLevel!Free
<1>2. /\ DOMAIN live' = DOMAIN live \ {s} /\ \A r \in DOMAIN live \ {s} : live'[r] = live[r]
      /\ DOMAIN spans' = DOMAIN spans \ {s} /\ \A r \in DOMAIN spans \ {s} : spans'[r] = spans[r]
  BY <1>1
<1>3. SmallSpans' = SmallSpans \ {s}
  BY <1>2 DEF SmallSpans
<1>4. \A r \in SmallSpans \ {s} : /\ Blocks(r)' = Blocks(r)
                                   /\ spans'[r] = spans[r] /\ live'[r] = live[r]
  BY <1>2 DEF SmallSpans, Blocks, Inv, TypeOK
<1>5. /\ \A a : findSpan(a)' = findSpan(a) \ {s}
      /\ \A a : \A r \in findSpan(a) : r # s => spans'[r] = spans[r]
  BY <1>2 DEF findSpan, Inv, TypeOK
<1>6. SpansDisjoint' /\ InsideSpace'
  BY <1>2 DEF Inv, SpansDisjoint, InsideSpace
<1>7. CutWhole' /\ CountsExact'
  BY <1>3, <1>4 DEF Inv, CutWhole, CountsExact
<1>8. /\ DOMAIN live' \subseteq Pages /\ live' \in [DOMAIN live' -> 1 .. NumPages]
      /\ DOMAIN spans' = DOMAIN live' /\ spans' \in [DOMAIN spans' -> SpanFields]
  BY <1>1, <1>2 DEF Inv, TypeOK
<1> QED BY <1>3, <1>4, <1>5, <1>6, <1>7, <1>8

(* A large span goes back and touches no shard.                            *)
LEMMA FreeLargeSpanInv ==
  ASSUME Inv, NEW s \in DOMAIN spans, FreeLargeSpan(s)
  PROVE  Inv'
<1>1. /\ spans[s].sizeClass = Large
      /\ deallocateSpan(s)
      /\ UNCHANGED partial /\ UNCHANGED lock /\ UNCHANGED call /\ UNCHANGED out
       /\ UNCHANGED lost
  BY DEF FreeLargeSpan
<1>2. s \notin SmallSpans
  BY <1>1 DEF SmallSpans
<1>3. /\ SmallSpans' = SmallSpans
      /\ \A r \in SmallSpans : Blocks(r)' = Blocks(r) /\ spans'[r] = spans[r]
  BY <1>1, <1>2, SpanRemoved
<1>4. TypeOK'
  BY <1>1, SpanRemoved DEF Inv, TypeOK
<1>5. BlocksConserved'
  <2>1. InTransit' = InTransit
    BY <1>1 DEF InTransit
  <2> QED BY <1>1, <1>3, <2>1 DEF Inv, BlocksConserved, Away
<1>6. PartialExact'
  <2>1. \A c \in Classes : \A r \in partial[c] : r \in SmallSpans
    BY DEF Inv, PartialExact
  <2> QED BY <1>1, <1>3, <2>1 DEF Inv, PartialExact
<1>7. LockExact'
  <2>1. \A u \in Threads : \A b \in call[u].chain :
          \E r \in findSpan(b)' : spans'[r].sizeClass = call[u].class
    <3> SUFFICES ASSUME NEW u \in Threads, NEW b \in call[u].chain
                 PROVE  \E r \in findSpan(b)' : spans'[r].sizeClass = call[u].class
      OBVIOUS
    <3>1. PICK r \in findSpan(b) : spans[r].sizeClass = call[u].class
      BY DEF Inv, LockExact
    <3>2. r # s
      BY <1>1, <3>1, LargeIsNoClass DEF Inv, TypeOK
    <3> QED BY <1>1, <3>1, <3>2, SpanRemoved
  <2> QED BY <1>1, <2>1 DEF Inv, LockExact
<1>8. FreshSpan'
  <2>1. \A c \in Classes : \A r \in partial[c] : spans'[r] = spans[r]
    BY <1>3 DEF Inv, PartialExact
  <2> QED BY <1>1, <2>1 DEF Inv, FreshSpan, Fetching
<1> QED BY <1>1, <1>4, <1>5, <1>6, <1>7, <1>8, SpanRemoved DEF Inv

-----------------------------------------------------------------------------
(* A block comes back to its span.                                         *)

(* What returning block b of span s does to the threads, whatever becomes  *)
(* of the span.                                                            *)
Returns(t, b, s) ==
  /\ call[t].op = "return"
  /\ b \in call[t].chain
  /\ s \in SmallSpans
  /\ b \in Blocks(s) /\ findSpan(b) = {s} /\ b \notin spans[s].freeList
  /\ spans[s].sizeClass = call[t].class
  /\ call' = [call EXCEPT ![t].chain = @ \ {b}]
  /\ UNCHANGED lock /\ UNCHANGED out /\ UNCHANGED lost

(* What is known of the block returned, its span and its shard.            *)
LEMMA ReturnFacts ==
  ASSUME Inv, NEW t \in Threads, NEW b, NEW s, Returns(t, b, s)
  PROVE  /\ call[t].class \in Classes /\ lock[call[t].class] = t
         /\ \A u \in Threads : call'[u].op = call[u].op /\ call'[u].class = call[u].class
         /\ \A u \in Threads \ {t} : call'[u] = call[u]
         /\ \A u \in Threads : call'[u].chain = call[u].chain \ {b}
         /\ InTransit' = InTransit \ {b} /\ Away' = Away \ {b}
         /\ b \in InTransit /\ b \notin out /\ b \notin lost
         /\ call' \in [Threads -> [op : Ops, class : Classes, chain : SUBSET Bytes]]
         /\ \A c \in Classes \ {call[t].class} : lock[c] # t
         /\ \A r \in partial[call[t].class] : spans[r].freeCount # spans[r].blockCount
<1>1. /\ call[t] \in [op : Ops, class : Classes, chain : SUBSET Bytes]
      /\ DOMAIN call = Threads
  BY DEF Inv, TypeOK
<1>2. call' = [call EXCEPT ![t].chain = @ \ {b}] /\ b \in call[t].chain /\ call[t].op = "return"
  BY DEF Returns
<1>3. \A u \in Threads \ {t} : call'[u] = call[u] /\ b \notin call[u].chain
  BY <1>1, <1>2 DEF Inv, BlocksConserved
<1>4. call'[t].op = call[t].op /\ call'[t].class = call[t].class
      /\ call'[t].chain = call[t].chain \ {b}
  BY <1>1, <1>2
<1>5. \A u \in Threads : call'[u].chain = call[u].chain \ {b}
  BY <1>3, <1>4
<1>6. InTransit' = InTransit \ {b} /\ b \in InTransit
  BY <1>2, <1>5 DEF InTransit
<1>7. b \notin out /\ b \notin lost
  BY <1>6 DEF Inv, BlocksConserved
<1>8. call' \in [Threads -> [op : Ops, class : Classes, chain : SUBSET Bytes]]
  BY <1>1, <1>2 DEF Inv, TypeOK
<1>9. lock[call[t].class] = t /\ \A c \in Classes \ {call[t].class} : lock[c] # t
  BY <1>1, <1>2 DEF Inv, LockExact
<1>10. \A r \in partial[call[t].class] : spans[r].freeCount # spans[r].blockCount
  BY <1>1, <1>2, <1>9, LockedIfFresh DEF Fetching
<1>11. Away' = Away \ {b}
  BY <1>6, <1>7 DEF Away, Returns
<1> QED BY <1>1, <1>3, <1>4, <1>5, <1>6, <1>7, <1>8, <1>9, <1>10, <1>11

(* A returned block joins the free list of its span.                       *)
LEMMA PutBackInv ==
  ASSUME Inv, NEW t \in Threads, NEW b, NEW s, Returns(t, b, s), PutBack(b, call[t].class, s)
  PROVE  Inv'
<1> DEFINE c0 == call[t].class
<1>1. /\ spans[s].freeCount + 1 # spans[s].blockCount
      /\ spans' = [spans EXCEPT ![s].freeList = @ \cup {b}, ![s].freeCount = @ + 1]
      /\ partial' = IF spans[s].freeCount = 0 THEN [partial EXCEPT ![c0] = @ \cup {s}] ELSE partial
      /\ UNCHANGED live
  BY DEF PutBack, AllBack
<1>2. /\ s \in SmallSpans /\ spans[s].sizeClass = c0
      /\ b \in Blocks(s) /\ findSpan(b) = {s} /\ b \notin spans[s].freeList
      /\ UNCHANGED lock /\ UNCHANGED out /\ UNCHANGED lost
  BY DEF Returns
<1>3. /\ c0 \in Classes /\ lock[c0] = t
      /\ \A u \in Threads : call'[u].op = call[u].op /\ call'[u].class = call[u].class
      /\ \A u \in Threads \ {t} : call'[u] = call[u]
      /\ \A u \in Threads : call'[u].chain = call[u].chain \ {b}
      /\ InTransit' = InTransit \ {b} /\ Away' = Away \ {b}
      /\ b \in InTransit /\ b \notin out /\ b \notin lost
  BY ReturnFacts
<1>4. /\ \A c \in Classes \ {c0} : lock[c] # t
      /\ \A r \in partial[c0] : spans[r].freeCount # spans[r].blockCount
  BY ReturnFacts
<1> HIDE DEF c0
<1>5. /\ DOMAIN spans' = DOMAIN spans
      /\ \A r \in DOMAIN spans \ {s} : spans'[r] = spans[r]
      /\ spans'[s].sizeClass = spans[s].sizeClass
      /\ spans'[s].blockCount = spans[s].blockCount
      /\ spans'[s].freeCount = spans[s].freeCount + 1
      /\ spans'[s].freeList = spans[s].freeList \cup {b}
  BY <1>1, <1>2, SmallSpanFacts DEF SpanFields
<1>6. spans'[s] \in SpanFields
  <2>1. b \in Bytes
    BY <1>2, BlockHome
  <2> QED BY <1>1, <1>2, <2>1, SmallSpanFacts DEF SpanFields
<1>7. /\ SmallSpans' = SmallSpans
      /\ \A r \in SmallSpans : Blocks(r)' = Blocks(r) /\ spans'[r].sizeClass = spans[r].sizeClass
                               /\ spans'[r].blockCount = spans[r].blockCount
      /\ \A a : findSpan(a)' = findSpan(a)
      /\ \A r \in DOMAIN spans : spans'[r].sizeClass = spans[r].sizeClass
  BY <1>1, <1>5 DEF SmallSpans, Blocks, findSpan
<1>8. \A r \in SmallSpans \ {s} : spans'[r] = spans[r]
  BY <1>5 DEF SmallSpans
<1>9. /\ Cardinality(spans[s].freeList \cup {b}) = spans[s].freeCount + 1
      /\ spans[s].freeCount + 1 <= spans[s].blockCount
      /\ spans[s].freeCount \in Nat
  <2> DEFINE F == spans[s].freeList
             B == Blocks(s)
  <2>1. /\ IsFiniteSet(F) /\ Cardinality(F) = spans[s].freeCount /\ b \notin F
        /\ F \subseteq B /\ b \in B /\ IsFiniteSet(B) /\ Cardinality(B) = spans[s].blockCount
        /\ spans[s].freeCount \in Nat
    BY <1>2, SmallSpanFacts
  <2> HIDE DEF F, B
  <2>2. IsFiniteSet(F \cup {b}) /\ Cardinality(F \cup {b}) = Cardinality(F) + 1
    BY <2>1, FS_AddElement
  <2>3. Cardinality(F \cup {b}) <= Cardinality(B)
    BY <2>1, FS_Subset
  <2> QED BY <2>1, <2>2, <2>3 DEF F, B
<1>10. TypeOK'
  <2>1. spans' \in [DOMAIN spans' -> SpanFields]
    <3>1. \A r \in DOMAIN spans : spans[r] \in SpanFields
      BY DEF Inv, TypeOK
    <3>2. \A r \in DOMAIN spans' : spans'[r] \in SpanFields
      BY <1>5, <1>6, <3>1
    <3> QED BY <1>1, <3>2
  <2>2. partial' \in [Classes -> SUBSET Pages]
    BY <1>1, <1>2, <1>3, SmallSpanFacts DEF Inv, TypeOK
  <2> QED BY <1>1, <1>2, <1>5, <2>1, <2>2, ReturnFacts DEF Inv, TypeOK
<1>11. SpansDisjoint' /\ InsideSpace'
  BY <1>1 DEF Inv, SpansDisjoint, InsideSpace
<1>12. CutWhole'
  BY <1>1, <1>7 DEF Inv, CutWhole
<1>13. CountsExact'
  BY <1>5, <1>7, <1>8, <1>9, ZenonT(30) DEF Inv, CountsExact
<1>14. BlocksConserved'
  <2>1. \A u, v \in Threads : u # v => call'[u].chain \cap call'[v].chain = {}
    BY <1>3 DEF Inv, BlocksConserved
  <2>2. InTransit' \cap out' = {} /\ lost' \cap (InTransit' \cup out') = {}
    BY <1>2, <1>3 DEF Inv, BlocksConserved
  <2>3. ASSUME NEW r \in SmallSpans
        PROVE  /\ spans'[r].freeList \subseteq Blocks(r)
               /\ \A a \in Blocks(r) : a \in spans'[r].freeList <=> a \notin Away'
    <3>1. /\ spans[r].freeList \subseteq Blocks(r)
          /\ \A a \in Blocks(r) : a \in spans[r].freeList <=> a \notin Away
      BY DEF Inv, BlocksConserved
    <3>2. CASE r = s
      BY <1>2, <1>3, <1>5, <3>1, <3>2
    <3>3. CASE r # s
      <4>1. b \notin Blocks(r)
        BY <1>2, <3>3, BlockHome
      <4> QED BY <1>2, <1>3, <1>8, <3>1, <3>3, <4>1
    <3> QED BY <3>2, <3>3
  <2>4. \A a \in Away' : \E r \in SmallSpans : a \in Blocks(r)
    BY <1>2, <1>3 DEF Inv, BlocksConserved
  <2> QED BY <1>7, <2>1, <2>2, <2>3, <2>4 DEF BlocksConserved
<1>15. \A c \in Classes \ {c0} : partial'[c] = partial[c]
  BY <1>1 DEF Inv, TypeOK
<1>16. partial'[c0] = partial[c0] \cup {s}
  <2>1. CASE spans[s].freeCount = 0
    BY <1>1, <1>3, <2>1 DEF Inv, TypeOK
  <2>2. CASE spans[s].freeCount # 0
    BY <1>1, <1>2, <1>3, <1>9, <2>2 DEF Inv, PartialExact
  <2> QED BY <2>1, <2>2
<1>17. PartialExact'
  <2>1. ASSUME NEW c \in Classes
        PROVE  partial'[c] = {r \in SmallSpans : spans'[r].sizeClass = c /\ spans'[r].freeCount > 0}
    <3>1. partial[c] = {r \in SmallSpans : spans[r].sizeClass = c /\ spans[r].freeCount > 0}
      BY DEF Inv, PartialExact
    <3>2. CASE c = c0
      BY <1>2, <1>5, <1>8, <1>9, <1>16, <3>1, <3>2
    <3>3. CASE c # c0
      BY <1>2, <1>5, <1>8, <1>15, <3>1, <3>3
    <3> QED BY <3>2, <3>3
  <2>2. \A c \in Classes : lock'[c] = NoThread =>
          \A r \in partial'[c] : spans'[r].freeCount < spans'[r].blockCount
    <3> SUFFICES ASSUME NEW c \in Classes, lock'[c] = NoThread, NEW r \in partial'[c]
                 PROVE  spans'[r].freeCount < spans'[r].blockCount
      OBVIOUS
    <3>1. c # c0
      BY <1>2, <1>3, CentralCacheAssumption
    <3>2. r \in partial[c] /\ spans[r].freeCount < spans[r].blockCount
      BY <1>2, <1>15, <3>1 DEF Inv, PartialExact
    <3>3. r # s /\ r \in SmallSpans
      BY <1>2, <3>1, <3>2 DEF Inv, PartialExact
    <3> QED BY <1>8, <3>2, <3>3
  <2> QED BY <1>7, <2>1, <2>2 DEF PartialExact
<1>18. LockExact'
  <2>1. \A u \in Threads : \A a \in call'[u].chain :
          \E r \in findSpan(a) : spans'[r].sizeClass = call'[u].class
    <3>1. \A u \in Threads : \A a \in call[u].chain :
            \E r \in findSpan(a) : r \in DOMAIN spans /\ spans[r].sizeClass = call[u].class
      BY DEF Inv, LockExact, findSpan
    <3> QED BY <1>3, <1>7, <3>1
  <2> QED BY <1>2, <1>3, <1>7, <2>1 DEF Inv, LockExact
<1>19. FreshSpan'
  <2> SUFFICES ASSUME NEW c \in Classes, NEW r \in partial'[c],
                      spans'[r].freeCount = spans'[r].blockCount
               PROVE  partial'[c] = {r} /\ \E u \in Threads : lock'[c] = u /\ Fetching(u)'
    BY DEF FreshSpan
  <2>1. r \in SmallSpans /\ r # s
    BY <1>1, <1>5, <1>7, <1>17 DEF PartialExact
  <2>2. spans'[r] = spans[r]
    BY <1>8, <2>1
  <2>3. c # c0
    BY <1>4, <1>16, <2>1, <2>2
  <2>4. partial'[c] = partial[c]
    BY <1>15, <2>3
  <2>5. lock[c] \in Threads /\ Fetching(lock[c]) /\ partial[c] = {r}
    BY <2>2, <2>4, LockedIfFresh
  <2>6. call'[lock[c]] = call[lock[c]]
    BY <1>3, <1>4, <2>3, <2>5
  <2> QED BY <1>2, <2>4, <2>5, <2>6 DEF Fetching
<1> QED BY <1>10, <1>11, <1>12, <1>13, <1>14, <1>17, <1>18, <1>19 DEF Inv

(* What is left when a span goes back with its last block: nothing of it,  *)
(* for all its other blocks are on the free list, and the spans that stay  *)
(* are as they were.                                                       *)
LEMMA ReleaseFacts ==
  ASSUME Inv, NEW c0 \in Classes, NEW s \in SmallSpans, spans[s].sizeClass = c0,
         NEW b \in Blocks(s), b \notin spans[s].freeList, ReleaseSpan(c0, s)
  PROVE  /\ SpansDisjoint' /\ InsideSpace' /\ CutWhole' /\ CountsExact'
         /\ DOMAIN live' \subseteq Pages /\ live' \in [DOMAIN live' -> 1 .. NumPages]
         /\ DOMAIN spans' = DOMAIN live' /\ spans' \in [DOMAIN spans' -> SpanFields]
         /\ partial' \in [Classes -> SUBSET Pages]
         /\ SmallSpans' = SmallSpans \ {s}
         /\ \A r \in SmallSpans \ {s} : Blocks(r)' = Blocks(r) /\ spans'[r] = spans[r]
         /\ \A c \in Classes \ {c0} : partial'[c] = partial[c]
         /\ partial'[c0] = partial[c0] \ {s}
         /\ \A c \in Classes :
              partial'[c] = {r \in SmallSpans \ {s} :
                               spans'[r].sizeClass = c /\ spans'[r].freeCount > 0}
         /\ \A a \in Away \ {b} : \E r \in SmallSpans \ {s} : a \in Blocks(r)
         /\ \A r \in SmallSpans \ {s} : b \notin Blocks(r)
         /\ \A a \in Away \ {b} : \A r \in findSpan(a) :
              r \in findSpan(a)' /\ spans'[r] = spans[r]
<1>1. /\ spans[s].freeCount + 1 = spans[s].blockCount
      /\ partial' = [partial EXCEPT ![c0] = @ \ {s}]
      /\ deallocateSpan(s)
  BY DEF ReleaseSpan, AllBack, unlinkPartial
<1>2. findSpan(b) = {s}
  BY BlockHome
<1>5. s \in DOMAIN spans
  BY DEF SmallSpans
<1>6. /\ SmallSpans' = SmallSpans \ {s}
      /\ \A r \in SmallSpans \ {s} : Blocks(r)' = Blocks(r) /\ spans'[r] = spans[r]
      /\ \A a : findSpan(a)' = findSpan(a) \ {s}
      /\ \A a : \A r \in findSpan(a) : r # s => spans'[r] = spans[r]
  BY <1>1, <1>5, SpanRemoved
<1>7. Blocks(s) = spans[s].freeList \cup {b}
  <2> DEFINE F == spans[s].freeList
             B == Blocks(s)
  <2>1. /\ IsFiniteSet(F) /\ Cardinality(F) = spans[s].freeCount /\ b \notin F
        /\ F \subseteq B /\ b \in B /\ IsFiniteSet(B) /\ Cardinality(B) = spans[s].blockCount
    BY SmallSpanFacts
  <2>2. Cardinality(B) = Cardinality(F) + 1
    BY <1>1, <2>1
  <2> HIDE DEF F, B
  <2>3. IsFiniteSet(F \cup {b}) /\ Cardinality(F \cup {b}) = Cardinality(F) + 1
    BY <2>1, FS_AddElement
  <2>4. F \cup {b} \in SUBSET B
    BY <2>1
  <2>5. B = F \cup {b}
    BY <2>1, <2>2, <2>3, <2>4, FS_Subset
  <2> QED BY <2>5 DEF F, B
<1>8. Blocks(s) \cap (Away \ {b}) = {}
  <2>1. spans[s].freeList \cap Away = {}
    BY <1>7 DEF Inv, BlocksConserved
  <2> QED BY <1>7, <2>1
<1>9. partial' \in [Classes -> SUBSET Pages]
  BY <1>1 DEF Inv, TypeOK
<1>10. \A a \in Away \ {b} : \E r \in SmallSpans \ {s} : a \in Blocks(r)
  <2>1. \A a \in Away : \E r \in SmallSpans : a \in Blocks(r)
    BY DEF Inv, BlocksConserved
  <2> QED BY <1>8, <2>1
<1>11. \A r \in SmallSpans \ {s} : b \notin Blocks(r)
  BY <1>2, BlockHome
<1>12. /\ \A c \in Classes \ {c0} : partial'[c] = partial[c]
       /\ partial'[c0] = partial[c0] \ {s}
  BY <1>1 DEF Inv, TypeOK
<1>13. ASSUME NEW c \in Classes
       PROVE  partial'[c] = {r \in SmallSpans \ {s} :
                               spans'[r].sizeClass = c /\ spans'[r].freeCount > 0}
  <2>1. partial[c] = {r \in SmallSpans : spans[r].sizeClass = c /\ spans[r].freeCount > 0}
    BY DEF Inv, PartialExact
  <2>2. \A r \in SmallSpans \ {s} : spans'[r] = spans[r]
    BY <1>6
  <2>3. CASE c = c0
    BY <1>12, <2>1, <2>2, <2>3
  <2>4. CASE c # c0
    BY <1>12, <2>1, <2>2, <2>4
  <2> QED BY <2>3, <2>4
<1>14. ASSUME NEW a \in Away \ {b}, NEW r \in findSpan(a)
       PROVE  r \in findSpan(a)' /\ spans'[r] = spans[r]
  <2>1. PICK q \in SmallSpans \ {s} : a \in Blocks(q)
    BY <1>10
  <2>2. findSpan(a) = {q}
    BY <2>1, BlockHome
  <2> QED BY <1>6, <2>1, <2>2
<1>15. /\ SpansDisjoint' /\ InsideSpace' /\ CutWhole' /\ CountsExact'
       /\ DOMAIN live' \subseteq Pages /\ live' \in [DOMAIN live' -> 1 .. NumPages]
       /\ DOMAIN spans' = DOMAIN live' /\ spans' \in [DOMAIN spans' -> SpanFields]
  BY <1>1, <1>5, SpanRemoved
<1> QED BY <1>6, <1>9, <1>10, <1>11, <1>12, <1>13, <1>14, <1>15

(* The last block comes back and the span goes.                            *)
LEMMA ReleaseSpanInv ==
  ASSUME Inv, NEW t \in Threads, NEW b, NEW s, Returns(t, b, s), ReleaseSpan(call[t].class, s)
  PROVE  Inv'
<1> DEFINE c0 == call[t].class
<1>2. /\ s \in SmallSpans /\ spans[s].sizeClass = c0
      /\ b \in Blocks(s) /\ findSpan(b) = {s} /\ b \notin spans[s].freeList
      /\ UNCHANGED lock /\ UNCHANGED out /\ UNCHANGED lost
  BY DEF Returns
<1>3. /\ c0 \in Classes /\ lock[c0] = t
      /\ \A u \in Threads : call'[u].op = call[u].op /\ call'[u].class = call[u].class
      /\ \A u \in Threads \ {t} : call'[u] = call[u]
      /\ \A u \in Threads : call'[u].chain = call[u].chain \ {b}
      /\ InTransit' = InTransit \ {b} /\ Away' = Away \ {b}
      /\ b \in InTransit /\ b \notin out /\ b \notin lost
  BY ReturnFacts
<1>4. /\ \A c \in Classes \ {c0} : lock[c] # t
      /\ \A r \in partial[c0] : spans[r].freeCount # spans[r].blockCount
  BY ReturnFacts
<1> HIDE DEF c0
<1>5. /\ SmallSpans' = SmallSpans \ {s}
      /\ \A r \in SmallSpans \ {s} : Blocks(r)' = Blocks(r) /\ spans'[r] = spans[r]
      /\ \A c \in Classes \ {c0} : partial'[c] = partial[c]
      /\ partial'[c0] = partial[c0] \ {s}
      /\ \A c \in Classes :
           partial'[c] = {r \in SmallSpans \ {s} :
                            spans'[r].sizeClass = c /\ spans'[r].freeCount > 0}
  BY <1>2, <1>3, ReleaseFacts DEF c0
<1>6. /\ \A a \in Away \ {b} : \E r \in SmallSpans \ {s} : a \in Blocks(r)
      /\ \A r \in SmallSpans \ {s} : b \notin Blocks(r)
      /\ \A a \in Away \ {b} : \A r \in findSpan(a) :
           r \in findSpan(a)' /\ spans'[r] = spans[r]
  BY <1>2, <1>3, ReleaseFacts DEF c0
<1>7. /\ SpansDisjoint' /\ InsideSpace' /\ CutWhole' /\ CountsExact'
      /\ DOMAIN live' \subseteq Pages /\ live' \in [DOMAIN live' -> 1 .. NumPages]
      /\ DOMAIN spans' = DOMAIN live' /\ spans' \in [DOMAIN spans' -> SpanFields]
      /\ partial' \in [Classes -> SUBSET Pages]
  BY <1>2, <1>3, ReleaseFacts DEF c0
<1>9. TypeOK'
  <2>2. call' \in [Threads -> [op : Ops, class : Classes, chain : SUBSET Bytes]]
    BY ReturnFacts
  <2> QED BY <1>2, <1>7, <2>2 DEF Inv, TypeOK
<1>11. BlocksConserved'
  <2>1. \A u, v \in Threads : u # v => call'[u].chain \cap call'[v].chain = {}
    BY <1>3 DEF Inv, BlocksConserved
  <2>2. InTransit' \cap out' = {} /\ lost' \cap (InTransit' \cup out') = {}
    BY <1>2, <1>3 DEF Inv, BlocksConserved
  <2>3. ASSUME NEW r \in SmallSpans \ {s}
        PROVE  /\ spans[r].freeList \subseteq Blocks(r)
               /\ \A a \in Blocks(r) : a \in spans[r].freeList <=> a \notin Away'
    BY <1>3, <1>6 DEF Inv, BlocksConserved
  <2> QED BY <1>3, <1>5, <1>6, <2>1, <2>2, <2>3 DEF BlocksConserved
<1>13. PartialExact'
  <2>1. \A c \in Classes : lock'[c] = NoThread =>
          \A r \in partial'[c] : spans'[r].freeCount < spans'[r].blockCount
    <3> SUFFICES ASSUME NEW c \in Classes, lock'[c] = NoThread, NEW r \in partial'[c]
                 PROVE  spans'[r].freeCount < spans'[r].blockCount
      OBVIOUS
    <3>1. r \in partial[c]
      BY <1>5
    <3>2. spans[r].freeCount < spans[r].blockCount
      BY <1>2, <3>1 DEF Inv, PartialExact
    <3>3. r \in SmallSpans \ {s}
      BY <1>5
    <3> QED BY <1>5, <3>2, <3>3
  <2> QED BY <1>5, <2>1 DEF PartialExact
<1>14. LockExact'
  <2>1. \A u \in Threads : \A a \in call'[u].chain :
          \E r \in findSpan(a)' : spans'[r].sizeClass = call'[u].class
    <3> SUFFICES ASSUME NEW u \in Threads, NEW a \in call'[u].chain
                 PROVE  \E r \in findSpan(a)' : spans'[r].sizeClass = call'[u].class
      OBVIOUS
    <3>1. a \in call[u].chain /\ a \in Away \ {b}
      BY <1>3 DEF InTransit, Away
    <3>2. PICK r \in findSpan(a) : spans[r].sizeClass = call[u].class
      BY <3>1 DEF Inv, LockExact
    <3> QED BY <1>3, <1>6, <3>1, <3>2
  <2> QED BY <1>2, <1>3, <2>1 DEF Inv, LockExact
<1>15. FreshSpan'
  <2> SUFFICES ASSUME NEW c \in Classes, NEW r \in partial'[c],
                      spans'[r].freeCount = spans'[r].blockCount
               PROVE  partial'[c] = {r} /\ \E u \in Threads : lock'[c] = u /\ Fetching(u)'
    BY DEF FreshSpan
  <2>1. r \in SmallSpans \ {s}
    BY <1>5
  <2>2. spans'[r] = spans[r]
    BY <1>5, <2>1
  <2>3. c # c0
    BY <1>4, <1>5, <2>2
  <2>4. partial'[c] = partial[c]
    BY <1>5, <2>3
  <2>5. lock[c] \in Threads /\ Fetching(lock[c]) /\ partial[c] = {r}
    BY <2>2, <2>4, LockedIfFresh
  <2>6. call'[lock[c]] = call[lock[c]]
    BY <1>3, <1>4, <2>3, <2>5
  <2> QED BY <1>2, <2>4, <2>5, <2>6 DEF Fetching
<1> QED BY <1>7, <1>9, <1>11, <1>13, <1>14, <1>15 DEF Inv

(* An exception takes the span off the shard, unlocks it, and leaves the   *)
(* blocks the loop had not come to with nobody.                            *)
LEMMA ReturnThrowsInv ==
  ASSUME Inv, NEW t \in Threads, ReturnThrows(t)
  PROVE  Inv'
<1> DEFINE c0 == call[t].class
           chain == call[t].chain
<1>1. PICK b \in chain :
        /\ call[t].op = "return"
        /\ lost' = lost \cup (chain \ {b})
        /\ \E s \in Owners(b, c0) : ReleaseSpan(c0, s)
        /\ lock' = [lock EXCEPT ![c0] = NoThread]
        /\ call' = [call EXCEPT ![t] = Idle]
        /\ UNCHANGED out
  BY DEF ReturnThrows
<1>2. /\ DOMAIN call = Threads /\ DOMAIN lock = Classes /\ c0 \in Classes
      /\ chain \subseteq Bytes /\ lock[c0] = t
      /\ \A c \in Classes \ {c0} : lock[c] # t
  BY <1>1 DEF Inv, TypeOK, LockExact
<1>3. NoThread \notin Threads
  BY CentralCacheAssumption
<1>4. b \in InTransit /\ b \in Away /\ b \notin out /\ b \notin lost
  BY DEF InTransit, Away, Inv, BlocksConserved
<1>5. PICK s \in SmallSpans : b \in Blocks(s) /\ findSpan(b) = {s} /\ b \notin spans[s].freeList
  BY <1>4, BlockOut
<1>6. spans[s].sizeClass = c0 /\ ReleaseSpan(c0, s)
  BY <1>1, <1>5 DEF Owners
<1>7. \A r \in partial[c0] : spans[r].freeCount # spans[r].blockCount
  BY <1>1, <1>2, LockedIfFresh DEF Fetching
<1>8. /\ \A u \in Threads \ {t} : call'[u] = call[u] /\ b \notin call[u].chain
      /\ call'[t].op = "none" /\ call'[t].chain = {}
      /\ \A c \in Classes \ {c0} : lock'[c] = lock[c]
      /\ lock'[c0] = NoThread
  BY <1>1, <1>2 DEF Idle, Inv, BlocksConserved
<1> HIDE DEF c0, chain
<1>9. /\ SmallSpans' = SmallSpans \ {s}
      /\ \A r \in SmallSpans \ {s} : Blocks(r)' = Blocks(r) /\ spans'[r] = spans[r]
      /\ \A c \in Classes \ {c0} : partial'[c] = partial[c]
      /\ partial'[c0] = partial[c0] \ {s}
      /\ \A c \in Classes :
           partial'[c] = {r \in SmallSpans \ {s} :
                            spans'[r].sizeClass = c /\ spans'[r].freeCount > 0}
  BY <1>2, <1>5, <1>6, ReleaseFacts
<1>10. /\ \A a \in Away \ {b} : \E r \in SmallSpans \ {s} : a \in Blocks(r)
       /\ \A r \in SmallSpans \ {s} : b \notin Blocks(r)
       /\ \A a \in Away \ {b} : \A r \in findSpan(a) :
            r \in findSpan(a)' /\ spans'[r] = spans[r]
  BY <1>2, <1>5, <1>6, ReleaseFacts
<1>11. /\ SpansDisjoint' /\ InsideSpace' /\ CutWhole' /\ CountsExact'
       /\ DOMAIN live' \subseteq Pages /\ live' \in [DOMAIN live' -> 1 .. NumPages]
       /\ DOMAIN spans' = DOMAIN live' /\ spans' \in [DOMAIN spans' -> SpanFields]
       /\ partial' \in [Classes -> SUBSET Pages]
  BY <1>2, <1>5, <1>6, ReleaseFacts
<1>12. InTransit' = InTransit \ chain /\ Away' = Away \ {b}
  <2>1. InTransit' = InTransit \ chain
    BY <1>8 DEF InTransit, Inv, BlocksConserved, chain
  <2>2. chain \subseteq InTransit
    BY DEF InTransit, chain
  <2> QED BY <1>1, <1>4, <2>1, <2>2 DEF Away
<1>13. TypeOK'
  <2>1. call' \in [Threads -> [op : Ops, class : Classes, chain : SUBSET Bytes]]
    <3>1. Idle \in [op : Ops, class : Classes, chain : SUBSET Bytes]
      BY <1>2, CentralCacheAssumption DEF Idle, Ops, Classes
    <3> QED BY <1>1, <3>1 DEF Inv, TypeOK
  <2>2. lock' \in [Classes -> Threads \cup {NoThread}]
    BY <1>1, <1>2 DEF Inv, TypeOK
  <2> QED BY <1>1, <1>2, <1>11, <2>1, <2>2 DEF Inv, TypeOK
<1>14. BlocksConserved'
  <2>1. \A u, v \in Threads : u # v => call'[u].chain \cap call'[v].chain = {}
    BY <1>8 DEF Inv, BlocksConserved
  <2>2. InTransit' \cap out' = {} /\ lost' \cap (InTransit' \cup out') = {}
    <3>1. chain \subseteq InTransit
      BY DEF InTransit, chain
    <3> QED BY <1>1, <1>12, <3>1 DEF Inv, BlocksConserved
  <2>3. ASSUME NEW r \in SmallSpans \ {s}
        PROVE  /\ spans[r].freeList \subseteq Blocks(r)
               /\ \A a \in Blocks(r) : a \in spans[r].freeList <=> a \notin Away'
    BY <1>10, <1>12 DEF Inv, BlocksConserved
  <2> QED BY <1>9, <1>10, <1>12, <2>1, <2>2, <2>3 DEF BlocksConserved
<1>15. PartialExact'
  <2>1. \A c \in Classes : lock'[c] = NoThread =>
          \A r \in partial'[c] : spans'[r].freeCount < spans'[r].blockCount
    <3> SUFFICES ASSUME NEW c \in Classes, lock'[c] = NoThread, NEW r \in partial'[c]
                 PROVE  spans'[r].freeCount < spans'[r].blockCount
      OBVIOUS
    <3>1. r \in partial[c] /\ r \in SmallSpans \ {s}
      BY <1>9
    <3>2. spans[r].freeCount < spans[r].blockCount
      <4>1. CASE c = c0
        BY <1>7, <3>1, <4>1, SmallSpanFacts DEF Inv, CountsExact
      <4>2. CASE c # c0
        BY <1>8, <3>1, <4>2 DEF Inv, PartialExact
      <4> QED BY <4>1, <4>2
    <3> QED BY <1>9, <3>1, <3>2
  <2> QED BY <1>9, <2>1 DEF PartialExact
<1>16. LockExact'
  <2>1. \A u \in Threads, c \in Classes :
          lock'[c] = u <=> call'[u].op \in {"fetch", "return"} /\ call'[u].class = c
    <3> SUFFICES ASSUME NEW u \in Threads, NEW c \in Classes
                 PROVE  lock'[c] = u <=> call'[u].op \in {"fetch", "return"} /\ call'[u].class = c
      OBVIOUS
    <3>1. lock[c] = u <=> call[u].op \in {"fetch", "return"} /\ call[u].class = c
      BY DEF Inv, LockExact
    <3>2. CASE u = t
      BY <1>2, <1>3, <1>8, <3>2
    <3>3. CASE u # t
      BY <1>2, <1>3, <1>8, <3>1, <3>3
    <3> QED BY <3>2, <3>3
  <2>2. \A u \in Threads : \A a \in call'[u].chain :
          \E r \in findSpan(a)' : spans'[r].sizeClass = call'[u].class
    <3> SUFFICES ASSUME NEW u \in Threads, NEW a \in call'[u].chain
                 PROVE  \E r \in findSpan(a)' : spans'[r].sizeClass = call'[u].class
      OBVIOUS
    <3>1. call'[u] = call[u] /\ a \in Away \ {b}
      BY <1>8 DEF InTransit, Away
    <3>2. PICK r \in findSpan(a) : spans[r].sizeClass = call[u].class
      BY <3>1 DEF Inv, LockExact
    <3> QED BY <1>10, <3>1, <3>2
  <2> QED BY <2>1, <2>2 DEF LockExact
<1>17. FreshSpan'
  <2> SUFFICES ASSUME NEW c \in Classes, NEW r \in partial'[c],
                      spans'[r].freeCount = spans'[r].blockCount
               PROVE  partial'[c] = {r} /\ \E u \in Threads : lock'[c] = u /\ Fetching(u)'
    BY DEF FreshSpan
  <2>1. r \in SmallSpans \ {s} /\ spans'[r] = spans[r]
    BY <1>9
  <2>2. c # c0
    BY <1>7, <1>9, <2>1
  <2>3. partial'[c] = partial[c]
    BY <1>9, <2>2
  <2>4. lock[c] \in Threads /\ Fetching(lock[c]) /\ partial[c] = {r}
    BY <2>1, <2>3, LockedIfFresh
  <2>5. lock'[c] = lock[c] /\ call'[lock[c]] = call[lock[c]]
    BY <1>2, <1>8, <2>2, <2>4
  <2> QED BY <2>3, <2>4, <2>5 DEF Fetching
<1> QED BY <1>11, <1>13, <1>14, <1>15, <1>16, <1>17 DEF Inv

(* A block that comes back always finds its span.                          *)
LEMMA ReturnBlockInv ==
  ASSUME Inv, NEW t \in Threads, ReturnBlock(t)
  PROVE  Inv'
<1> DEFINE c0 == call[t].class
<1>1. PICK b \in call[t].chain :
        /\ call[t].op = "return"
        /\ call' = [call EXCEPT ![t].chain = @ \ {b}]
        /\ IF Owners(b, c0) = {}
           THEN UNCHANGED <<live, spans, partial>>
           ELSE \E s \in Owners(b, c0) : PutBack(b, c0, s) \/ ReleaseSpan(c0, s)
        /\ UNCHANGED <<lock, out, lost>>
  BY DEF ReturnBlock
<1>2. b \in Away
  BY DEF InTransit, Away
<1>3. PICK s \in SmallSpans : b \in Blocks(s) /\ findSpan(b) = {s} /\ b \notin spans[s].freeList
  BY <1>2, BlockOut
<1>4. spans[s].sizeClass = c0
  BY <1>3 DEF Inv, LockExact
<1>5. Owners(b, c0) = {s}
  BY <1>3, <1>4 DEF Owners
<1>6. PutBack(b, c0, s) \/ ReleaseSpan(c0, s)
  BY <1>1, <1>5
<1>7. Returns(t, b, s)
  BY <1>1, <1>3, <1>4 DEF Returns
<1> QED BY <1>6, <1>7, PutBackInv, ReleaseSpanInv

-----------------------------------------------------------------------------
(* Inv holds in every reachable state.                                     *)

(* The empty cache satisfies Inv.                                          *)
LEMMA InitInv == Init => Inv
<1> SUFFICES ASSUME Init PROVE Inv
  OBVIOUS
<1>1. /\ live = [s \in {} |-> 0] /\ spans = [s \in {} |-> 0]
      /\ partial = [c \in Classes |-> {}]
      /\ lock = [c \in Classes |-> NoThread]
      /\ call = [t \in Threads |-> Idle] /\ out = {} /\ lost = {}
  BY DEF Init
<1>2. DOMAIN live = {} /\ DOMAIN spans = {} /\ SmallSpans = {}
  BY <1>1 DEF SmallSpans
<1>3. \A t \in Threads : call[t].op = "none" /\ call[t].chain = {}
  BY <1>1 DEF Idle
<1>4. InTransit = {} /\ Away = {}
  BY <1>1, <1>3 DEF InTransit, Away
<1>5. TypeOK
  <2>1. call \in [Threads -> [op : Ops, class : Classes, chain : SUBSET Bytes]]
    BY <1>1, CentralCacheAssumption DEF Idle, Ops, Classes
  <2> QED BY <1>1, <1>2, <2>1 DEF TypeOK
<1>6. SpansDisjoint /\ InsideSpace /\ CutWhole /\ CountsExact /\ BlocksConserved
  BY <1>1, <1>2, <1>3, <1>4 DEF SpansDisjoint, InsideSpace, CutWhole, CountsExact, BlocksConserved
<1>7. PartialExact /\ FreshSpan
  BY <1>1, <1>2 DEF PartialExact, FreshSpan
<1>8. LockExact
  BY <1>1, <1>3, CentralCacheAssumption DEF LockExact
<1> QED BY <1>5, <1>6, <1>7, <1>8 DEF Inv

(* Every step of the model preserves Inv, one case for each action.        *)
LEMMA NextInv == Inv /\ [Next]_centralVars => Inv'
<1> SUFFICES ASSUME Inv, [Next]_centralVars PROVE Inv'
  OBVIOUS
<1>1. CASE UNCHANGED centralVars
  <2>1. UNCHANGED <<live, spans, partial, lock, call, out, lost>>
    BY <1>1 DEF centralVars
  <2>2. TypeOK'
    BY <2>1 DEF Inv, TypeOK
  <2>3. BlocksConserved'
    <3>1. InTransit' = InTransit
      BY <2>1 DEF InTransit
    <3> QED BY <2>1, <3>1, SpansKept DEF Inv, BlocksConserved, Away
  <2>4. PartialExact'
    BY <2>1, SpansKept DEF Inv, PartialExact
  <2>5. LockExact'
    BY <2>1, SpansKept DEF Inv, LockExact
  <2>6. FreshSpan'
    BY <2>1 DEF Inv, FreshSpan, Fetching
  <2> QED BY <2>1, <2>2, <2>3, <2>4, <2>5, <2>6, SpansKept DEF Inv
<1>2. ASSUME NEW t \in Threads, Step(t) PROVE Inv'
  <2>1. CASE FetchAcquire(t)
    BY <2>1, AcquireInv DEF FetchAcquire
  <2>2. CASE CreateSpan(t)
    BY <2>2, CreateSpanInv
  <2>3. CASE TakeBlock(t)
    BY <2>3, TakeBlockInv
  <2>4. CASE FetchEnd(t)
    BY <2>4, FetchEndInv
  <2>5. CASE FetchThrows(t)
    BY <2>5, FetchThrowsInv
  <2>6. CASE ReturnAcquire(t)
    BY <2>6, AcquireInv DEF ReturnAcquire
  <2>7. CASE ReturnBlock(t)
    BY <2>7, ReturnBlockInv
  <2>8. CASE ReturnThrows(t)
    BY <2>8, ReturnThrowsInv
  <2>9. CASE ReturnEnd(t)
    BY <2>9, ReturnEndInv
  <2> QED BY <1>2, <2>1, <2>2, <2>3, <2>4, <2>5, <2>6, <2>7, <2>8, <2>9 DEF Step, Proceed
<1>3. ASSUME NEW t \in Threads, NEW c \in Classes, FetchCall(t, c) PROVE Inv'
  BY <1>3, FetchCallInv
<1>4. ASSUME NEW t \in Threads, NEW c \in Classes, NEW chain \in SUBSET Lent(c),
             ReturnCall(t, c, chain)
      PROVE  Inv'
  BY <1>4, ReturnCallInv
<1>5. ASSUME NEW n \in LargePages, NEW s \in Pages, AllocLargeSpan(n, s) PROVE Inv'
  BY <1>5, AllocLargeSpanInv
<1>6. ASSUME NEW s \in DOMAIN spans, FreeLargeSpan(s) PROVE Inv'
  BY <1>6, FreeLargeSpanInv
<1> QED BY <1>1, <1>2, <1>3, <1>4, <1>5, <1>6 DEF Next

(* Every reachable state satisfies Inv, whatever the constants.            *)
THEOREM InvHolds == Spec => []Inv
BY InitInv, NextInv, PTL DEF Spec

(* Every block of a span is in exactly one place: nothing fetchRange hands *)
(* out is handed out twice, and a block that is missing was dropped by a   *)
(* call that std::bad_alloc ended, for any number of threads, classes and  *)
(* pages (v3/src/CentralCache.cpp).                                        *)
THEOREM BlocksCorrect == Spec => []BlocksConserved
BY InvHolds, PTL DEF Inv

(* freeCount is the length of the free list.                               *)
THEOREM CountsCorrect == Spec => []CountsExact
BY InvHolds, PTL DEF Inv

(* A shard lists exactly its spans with a free block, and keeps no wholly  *)
(* free span when nobody holds its lock.                                   *)
THEOREM PartialCorrect == Spec => []PartialExact
BY InvHolds, PTL DEF Inv

(* The spin lock admits one thread to a shard, and a thread carries blocks *)
(* of the shard's class only.                                              *)
THEOREM LockCorrect == Spec => []LockExact
BY InvHolds, PTL DEF Inv

-----------------------------------------------------------------------------
(* What a caller of the central cache may rely on, beyond the invariants:  *)
(* which spans a step keeps, and where in memory blocks and spans lie.     *)

LargeSpans == {s \in DOMAIN spans : spans[s].sizeClass = Large}

(* A step adds spans or removes spans, and alters neither the place nor    *)
(* the class of one.                                                       *)
SpansPersist ==
  /\ DOMAIN spans \subseteq DOMAIN spans' \/ DOMAIN spans' \subseteq DOMAIN spans
  /\ \A r \in DOMAIN spans \cap DOMAIN spans' :
       live'[r] = live[r] /\ spans'[r].sizeClass = spans[r].sizeClass

-----------------------------------------------------------------------------
(* Which spans a step keeps.                                               *)

(* A span more is one that was not there.                                  *)
LEMMA AddingPersists ==
  ASSUME Inv, NEW n \in Nat \ {0}, NEW s \in Pages, PageLevel!Alloc(n, s), NEW new,
         spans' = [x \in DOMAIN spans \cup {s} |-> IF x = s THEN new ELSE spans[x]]
  PROVE  /\ SpansPersist /\ s \notin DOMAIN spans
         /\ LargeSpans' = LargeSpans \cup (IF new.sizeClass = Large THEN {s} ELSE {})
<1>1. DOMAIN spans = DOMAIN live
  BY DEF Inv, TypeOK
<1>2. s \notin DOMAIN live /\ \A r \in DOMAIN live : live'[r] = live[r]
  BY AllocFacts
<1>3. /\ DOMAIN spans' = DOMAIN spans \cup {s} /\ spans'[s] = new
      /\ \A r \in DOMAIN spans : spans'[r] = spans[r]
  BY <1>1, <1>2
<1> QED BY <1>1, <1>2, <1>3 DEF SpansPersist, LargeSpans

(* A span less leaves the others as they were.                             *)
LEMMA RemovingPersists ==
  ASSUME Inv, NEW s \in DOMAIN spans, deallocateSpan(s)
  PROVE  SpansPersist /\ LargeSpans' = LargeSpans \ {s}
<1>1. /\ live' = [r \in DOMAIN live \ {s} |-> live[r]]
      /\ spans' = [r \in DOMAIN spans \ {s} |-> spans[r]]
  BY DEF deallocateSpan, PageLevel!Free
<1>2. DOMAIN spans = DOMAIN live
  BY DEF Inv, TypeOK
<1> QED BY <1>1, <1>2 DEF SpansPersist, LargeSpans

(* Nothing inside the central cache touches the spans of large objects.    *)
LEMMA StepPersists ==
  ASSUME Inv, NEW t \in Threads, Step(t)
  PROVE  SpansPersist /\ LargeSpans' = LargeSpans
<1> DEFINE c == call[t].class
<1>1. CASE UNCHANGED <<live, spans>>
  BY <1>1 DEF SpansPersist, LargeSpans
<1>2. CASE CreateSpan(t)
  <2>1. c \in Classes
    BY DEF Inv, TypeOK
  <2>2. PICK s \in Pages, n \in Nat :
          /\ PageLevel!Alloc(SpanPages[c], s)
          /\ spans' = [x \in DOMAIN spans \cup {s} |->
                         IF x = s THEN [sizeClass |-> c, blockCount |-> n, freeCount |-> n,
                                        freeList |-> BlockAddrs(s, c, n)]
                         ELSE spans[x]]
    <3>1. PICK s \in Pages :
            /\ PageLevel!Alloc(SpanPages[c], s)
            /\ LET n == (live'[s] * PageBytes) \div BlockSize[c]
               IN  spans' = [x \in DOMAIN spans \cup {s} |->
                               IF x = s THEN [sizeClass |-> c, blockCount |-> n, freeCount |-> n,
                                              freeList |-> BlockAddrs(s, c, n)]
                               ELSE spans[x]]
      BY <1>2 DEF CreateSpan
    <3>2. SpanPages[c] \in Nat \ {0} /\ BlockSize[c] \in Nat \ {0} /\ PageBytes \in Nat
      BY <2>1, CentralCacheAssumption
    <3>3. live'[s] \in Nat
      BY <3>1, <3>2, AllocFacts
    <3>4. (live'[s] * PageBytes) \div BlockSize[c] \in Nat
      BY <3>2, <3>3, QuotientBounds
    <3> QED BY <3>1, <3>4
  <2>3. SpanPages[c] \in Nat \ {0}
    BY <2>1, CentralCacheAssumption
  <2> DEFINE new == [sizeClass |-> c, blockCount |-> n, freeCount |-> n,
                     freeList |-> BlockAddrs(s, c, n)]
  <2>4. new.sizeClass # Large
    BY <2>1, LargeIsNoClass
  <2>5. spans' = [x \in DOMAIN spans \cup {s} |-> IF x = s THEN new ELSE spans[x]]
    BY <2>2
  <2> HIDE DEF new, c
  <2> QED BY <2>2, <2>3, <2>4, <2>5, AddingPersists
<1>3. CASE TakeBlock(t)
  <2>1. PICK s \in partial[c] : \E b \in spans[s].freeList :
          /\ spans' = [spans EXCEPT ![s].freeList = @ \ {b}, ![s].freeCount = @ - 1]
          /\ UNCHANGED live
    BY <1>3 DEF TakeBlock
  <2>2. PICK b \in spans[s].freeList :
          /\ spans' = [spans EXCEPT ![s].freeList = @ \ {b}, ![s].freeCount = @ - 1]
          /\ UNCHANGED live
    BY <2>1
  <2>3. s \in SmallSpans
    BY DEF Inv, TypeOK, PartialExact
  <2>4. spans[s] \in SpanFields
    BY <2>3, SmallSpanFacts
  <2>5. /\ DOMAIN spans' = DOMAIN spans
        /\ \A r \in DOMAIN spans : spans'[r].sizeClass = spans[r].sizeClass
    BY <2>2, <2>4 DEF SpanFields
  <2> QED BY <2>2, <2>5 DEF SpansPersist, LargeSpans
<1>4. CASE ReturnBlock(t)
  <2>1. PICK b \in call[t].chain :
          IF Owners(b, c) = {}
          THEN UNCHANGED <<live, spans, partial>>
          ELSE \E s \in Owners(b, c) : PutBack(b, c, s) \/ ReleaseSpan(c, s)
    BY <1>4 DEF ReturnBlock
  <2>2. CASE UNCHANGED <<live, spans>>
    BY <2>2, <1>1
  <2>3. ASSUME NEW s \in Owners(b, c), PutBack(b, c, s)
        PROVE  SpansPersist /\ LargeSpans' = LargeSpans
    <3>1. s \in DOMAIN spans /\ spans[s] \in SpanFields
      BY <2>3 DEF Owners, findSpan, Inv, TypeOK
    <3>2. /\ spans' = [spans EXCEPT ![s].freeList = @ \cup {b}, ![s].freeCount = @ + 1]
          /\ UNCHANGED live
      BY <2>3 DEF PutBack
    <3>3. /\ DOMAIN spans' = DOMAIN spans
          /\ \A r \in DOMAIN spans : spans'[r].sizeClass = spans[r].sizeClass
      BY <3>1, <3>2 DEF SpanFields
    <3> QED BY <3>2, <3>3 DEF SpansPersist, LargeSpans
  <2>4. ASSUME NEW s \in Owners(b, c), ReleaseSpan(c, s)
        PROVE  SpansPersist /\ LargeSpans' = LargeSpans
    <3>1. s \in DOMAIN spans /\ spans[s].sizeClass = c /\ c \in Classes
      BY <2>4 DEF Owners, findSpan, Inv, TypeOK
    <3>2. s \notin LargeSpans
      BY <3>1, LargeIsNoClass DEF LargeSpans
    <3>3. deallocateSpan(s)
      BY <2>4 DEF ReleaseSpan
    <3> QED BY <3>1, <3>2, <3>3, RemovingPersists
  <2> QED BY <2>1, <2>2, <2>3, <2>4
<1>5. CASE ReturnThrows(t)
  <2>1. PICK b \in call[t].chain : \E s \in Owners(b, c) : ReleaseSpan(c, s)
    BY <1>5 DEF ReturnThrows
  <2>2. PICK s \in Owners(b, c) : ReleaseSpan(c, s)
    BY <2>1
  <2>3. s \in DOMAIN spans /\ spans[s].sizeClass = c /\ c \in Classes
    BY <2>2 DEF Owners, findSpan, Inv, TypeOK
  <2>4. s \notin LargeSpans
    BY <2>3, LargeIsNoClass DEF LargeSpans
  <2>5. deallocateSpan(s)
    BY <2>2 DEF ReleaseSpan
  <2> QED BY <2>3, <2>4, <2>5, RemovingPersists
<1> QED
  BY <1>1, <1>2, <1>3, <1>4, <1>5
  DEF Step, Proceed, FetchAcquire, ReturnAcquire, Acquire, FetchEnd, FetchThrows, ReturnEnd

(* A large object's span is new.                                           *)
LEMMA AllocLargePersists ==
  ASSUME Inv, NEW n \in LargePages, NEW s \in Pages, AllocLargeSpan(n, s)
  PROVE  /\ SpansPersist /\ s \notin DOMAIN spans
         /\ LargeSpans' = LargeSpans \cup {s}
<1>1. n \in Nat \ {0}
  BY CentralCacheAssumption
<1> DEFINE new == [sizeClass |-> Large, blockCount |-> 1, freeCount |-> 0, freeList |-> {}]
<1>2. /\ PageLevel!Alloc(n, s)
      /\ spans' = [x \in DOMAIN spans \cup {s} |-> IF x = s THEN new ELSE spans[x]]
      /\ new.sizeClass = Large
  BY DEF AllocLargeSpan
<1> HIDE DEF new
<1> QED BY <1>1, <1>2, AddingPersists

(* It is the only span that goes when the object is freed.                 *)
LEMMA FreeLargePersists ==
  ASSUME Inv, NEW s \in DOMAIN spans, FreeLargeSpan(s)
  PROVE  SpansPersist /\ LargeSpans' = LargeSpans \ {s}
BY RemovingPersists DEF FreeLargeSpan

(* A block out of its span has one home.                                   *)
OneHome == \A b \in Away : \E s \in SmallSpans : findSpan(b) = {s}

LEMMA InvOneHome == Inv => OneHome
BY BlockOut DEF OneHome

(* It still has after a step.                                              *)
LEMMA NextOneHome == Inv' => OneHome'
BY InvOneHome, PTL

(* A block out of its span before and after a step stays in its span.      *)
LEMMA HomeKept ==
  ASSUME Inv, Inv', SpansPersist,
         NEW b, b \in Away, b \in Away',
         NEW s \in findSpan(b)
  PROVE  s \in findSpan(b)' /\ spans'[s].sizeClass = spans[s].sizeClass
<1>1. findSpan(b) = {s} /\ s \in DOMAIN spans
  BY BlockOut DEF findSpan
<1>2. PICK r : r \in DOMAIN spans' /\ findSpan(b)' = {r}
  <2>1. \E r \in SmallSpans' : findSpan(b)' = {r}
    BY NextOneHome DEF OneHome
  <2>2. SmallSpans' \subseteq DOMAIN spans'
    BY DEF SmallSpans
  <2> QED BY <2>1, <2>2
<1>3. CASE DOMAIN spans \subseteq DOMAIN spans'
  <2>1. live'[s] = live[s] /\ s \in DOMAIN spans'
    BY <1>1, <1>3 DEF SpansPersist
  <2>2. s \in findSpan(b)'
    BY <1>1, <2>1 DEF findSpan
  <2> QED BY <1>1, <2>1, <2>2 DEF SpansPersist
<1>4. CASE DOMAIN spans' \subseteq DOMAIN spans
  <2>1. r \in DOMAIN spans /\ live'[r] = live[r] /\ spans'[r].sizeClass = spans[r].sizeClass
    BY <1>2, <1>4 DEF SpansPersist
  <2>2. r \in findSpan(b)
    BY <1>2, <2>1 DEF findSpan
  <2> QED BY <1>1, <1>2, <2>1, <2>2
<1> QED BY <1>3, <1>4 DEF SpansPersist
-----------------------------------------------------------------------------
(* Where spans and blocks lie.                                             *)

FirstByte(s) == s * PageBytes
EndByte(s)   == (s + live[s]) * PageBytes
ByteSize(s)  == BlockSize[spans[s].sizeClass]

(* The bytes of a span are bytes of the memory, and its first leads to it. *)
LEMMA SpanBytes ==
  ASSUME Inv, NEW s \in DOMAIN spans
  PROVE  /\ s \in DOMAIN live /\ s \in Nat /\ s \in Pages /\ live[s] \in Nat \ {0}
         /\ PageBytes \in Nat \ {0}
         /\ FirstByte(s) \in Nat /\ EndByte(s) \in Nat
         /\ EndByte(s) = FirstByte(s) + PageBytes * live[s]
         /\ PageBytes * live[s] \in Nat \ {0}
         /\ EndByte(s) <= NumPages * PageBytes /\ NumPages * PageBytes \in Nat
         /\ FirstByte(s) \div PageBytes = s
         /\ findSpan(FirstByte(s)) = {s}
<1>1. /\ s \in DOMAIN live /\ s \in Nat /\ s \in Pages /\ live[s] \in Nat \ {0}
  BY CentralCacheAssumption DEF Inv, TypeOK, Pages
<1>2. PageBytes \in Nat \ {0} /\ NumPages \in Nat
  BY CentralCacheAssumption
<1>3. s + live[s] \in Nat /\ s + live[s] <= NumPages
  <2>1. s + live[s] - 1 \in s .. (s + live[s] - 1)
    BY <1>1
  <2>2. s + live[s] - 1 \in Pages
    BY <1>1, <2>1 DEF Inv, InsideSpace
  <2> QED BY <1>1, <1>2, <2>2 DEF Pages
<1> DEFINE d == PageBytes
           m == live[s]
<1>4. m * d \in Nat /\ m * d # 0 /\ s * d \in Nat /\ d * m = m * d
  <2>1. m \in Nat \ {0} /\ d \in Nat \ {0}
    BY <1>1, <1>2
  <2> HIDE DEF m, d
  <2>2. 1 * d <= m * d
    BY <2>1, ProductMonotone
  <2> QED BY <1>1, <2>1, <2>2
<1>5. (s + m) * d = s * d + m * d
  <2>1. m \in Nat /\ d \in Nat
    BY <1>1, <1>2
  <2> HIDE DEF m, d
  <2> QED BY <1>1, <2>1
<1>6. (s + m) * d <= NumPages * d /\ NumPages * d \in Nat /\ (s + m) * d \in Nat
  BY <1>2, <1>3, ProductMonotone
<1>7. (s * d) \div d = s
  <2>1. d \in Nat \ {0}
    BY <1>2
  <2> HIDE DEF d
  <2>2. s * d < (s + 1) * d
    BY <1>1, <2>1
  <2>3. (s * d) \div d \in s .. (s + 1 - 1)
    BY <1>1, <2>1, <2>2, QuotientWithin
  <2> QED BY <1>1, <2>3
<1>8. findSpan(s * d) = {s}
  <2>1. s \in s .. (s + live[s] - 1)
    BY <1>1
  <2>2. \A r \in DOMAIN spans : s \in r .. (r + live[r] - 1) => r = s
    BY <1>1, <2>1 DEF Inv, TypeOK, SpansDisjoint
  <2> HIDE DEF d
  <2>3. findSpan(s * d) = {r \in DOMAIN spans : s \in r .. (r + live[r] - 1)}
    BY <1>7 DEF findSpan, d
  <2> QED BY <2>1, <2>2, <2>3
<1> QED BY <1>1, <1>2, <1>4, <1>5, <1>6, <1>7, <1>8 DEF FirstByte, EndByte

(* Where the page cache puts a new span there was none.                    *)
LEMMA NewSpanByte ==
  ASSUME Inv, NEW n \in Nat \ {0}, NEW s \in Pages, PageLevel!Alloc(n, s)
  PROVE  findSpan(FirstByte(s)) = {}
<1>1. s \in Nat /\ PageBytes \in Nat \ {0}
  BY CentralCacheAssumption DEF Pages
<1>2. (s * PageBytes) \div PageBytes = s
  <2> DEFINE d == PageBytes
  <2> HIDE DEF d
  <2>1. d \in Nat \ {0}
    BY <1>1 DEF d
  <2>2. s * d < (s + 1) * d /\ s * d \in Nat
    BY <1>1, <2>1
  <2>3. (s * d) \div d \in s .. (s + 1 - 1)
    BY <1>1, <2>1, <2>2, QuotientWithin
  <2> QED BY <1>1, <2>3 DEF d
<1>3. /\ live'[s] \in Nat \ {0}
      /\ \A r \in DOMAIN live : (s .. (s + live'[s] - 1)) \cap (r .. (r + live[r] - 1)) = {}
  BY AllocFacts
<1>4. \A r \in DOMAIN live : s \notin r .. (r + live[r] - 1)
  <2>1. s \in s .. (s + live'[s] - 1)
    BY <1>1, <1>3
  <2> QED BY <1>3, <2>1
<1>5. DOMAIN spans = DOMAIN live
  BY DEF Inv, TypeOK
<1> QED BY <1>2, <1>4, <1>5 DEF findSpan, FirstByte

(* One of two spans ends before the other begins.                          *)
LEMMA SpansApart ==
  ASSUME Inv, NEW s \in DOMAIN spans, NEW r \in DOMAIN spans, s # r
  PROVE  EndByte(s) <= FirstByte(r) \/ EndByte(r) <= FirstByte(s)
<1>1. /\ s \in Nat /\ live[s] \in Nat \ {0} /\ s \in DOMAIN live
      /\ r \in Nat /\ live[r] \in Nat \ {0} /\ r \in DOMAIN live
      /\ PageBytes \in Nat
  BY SpanBytes
<1>2. s + live[s] <= r \/ r + live[r] <= s
  <2>1. (s .. (s + live[s] - 1)) \cap (r .. (r + live[r] - 1)) = {}
    BY <1>1 DEF Inv, SpansDisjoint
  <2>2. ~ (r \in s .. (s + live[s] - 1)) /\ ~ (s \in r .. (r + live[r] - 1))
    <3>1. r \in r .. (r + live[r] - 1) /\ s \in s .. (s + live[s] - 1)
      BY <1>1
    <3> QED BY <2>1, <3>1
  <2> QED BY <1>1, <2>2
<1>3. s + live[s] \in Nat /\ r + live[r] \in Nat
  BY <1>1
<1> QED BY <1>1, <1>2, <1>3, ProductMonotone DEF EndByte, FirstByte

(* A block lies within its span.                                           *)
LEMMA BlockBytes ==
  ASSUME Inv, NEW s \in SmallSpans, NEW b \in Blocks(s)
  PROVE  /\ b \in Nat /\ ByteSize(s) \in Nat \ {0}
         /\ FirstByte(s) <= b /\ b + ByteSize(s) <= EndByte(s)
<1> DEFINE c == spans[s].sizeClass
           n == spans[s].blockCount
           d == PageBytes
           z == BlockSize[c]
           m == live[s]
<1>1. /\ s \in Nat /\ c \in Classes /\ n \in Nat /\ m \in Nat \ {0}
      /\ n = (m * d) \div z
  BY SmallSpanFacts DEF Inv, CutWhole
<1>2. z \in Nat \ {0} /\ d \in Nat
  BY <1>1, CentralCacheAssumption
<1>3. PICK i \in 0 .. n - 1 : b = s * d + i * z
  BY DEF Blocks, BlockAddrs
<1> HIDE DEF c, n, d, z, m
<1>4. i \in Nat /\ i + 1 <= n
  BY <1>1, <1>3
<1>5. m * d \in Nat /\ s * d \in Nat /\ i * z \in Nat
  BY <1>1, <1>2, <1>4
<1>6. n * z <= m * d
  BY <1>1, <1>2, <1>5, QuotientBounds
<1>7. (i + 1) * z <= n * z /\ (i + 1) * z \in Nat /\ n * z \in Nat
  BY <1>1, <1>2, <1>4, ProductMonotone
<1>8. (i + 1) * z = i * z + z /\ (s + m) * d = s * d + m * d
  BY <1>1, <1>2, <1>4
<1>9. b \in Nat /\ s * d <= b /\ b + z <= (s + m) * d
  BY <1>2, <1>3, <1>5, <1>6, <1>7, <1>8
<1> QED BY <1>2, <1>9 DEF c, d, z, m, FirstByte, EndByte, ByteSize

(* Blocks of a span do not overlap.                                        *)
LEMMA BlocksApart ==
  ASSUME Inv, NEW s \in SmallSpans, NEW a \in Blocks(s), NEW b \in Blocks(s), a # b
  PROVE  a + ByteSize(s) <= b \/ b + ByteSize(s) <= a
<1> DEFINE n == spans[s].blockCount
           z == ByteSize(s)
           f == FirstByte(s)
<1>1. PICK i \in 0 .. n - 1, j \in 0 .. n - 1 : a = f + i * z /\ b = f + j * z
  BY DEF Blocks, BlockAddrs, FirstByte, ByteSize
<1>2. z \in Nat \ {0} /\ n \in Nat
  BY BlockBytes, SmallSpanFacts
<1>3. f \in Nat
  BY SpanBytes DEF SmallSpans
<1> HIDE DEF n, z, f
<1>4. i \in Nat /\ j \in Nat /\ i * z \in Nat /\ j * z \in Nat
  BY <1>1, <1>2
<1>5. CASE i < j
  <2>1. (i + 1) * z <= j * z
    BY <1>2, <1>4, <1>5, ProductMonotone
  <2>2. (i + 1) * z = i * z + z
    BY <1>2, <1>4
  <2> QED BY <1>1, <1>2, <1>3, <1>4, <2>1, <2>2 DEF z
<1>6. CASE j < i
  <2>1. (j + 1) * z <= i * z
    BY <1>2, <1>4, <1>6, ProductMonotone
  <2>2. (j + 1) * z = j * z + z
    BY <1>2, <1>4
  <2> QED BY <1>1, <1>2, <1>3, <1>4, <2>1, <2>2 DEF z
<1>7. i # j
  BY <1>1
<1> QED BY <1>4, <1>5, <1>6, <1>7
=============================================================================
