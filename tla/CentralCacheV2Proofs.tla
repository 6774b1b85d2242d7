------------------------ MODULE CentralCacheV2Proofs ------------------------
(***************************************************************************)
(* Proofs about CentralCacheV2 for any threads, classes, block sizes and   *)
(* address space, up to the first time a span is given back.               *)
(***************************************************************************)
EXTENDS CentralCacheV2, FiniteSetTheorems, SequenceTheorems, TLAPS

(* The blocks a span makes, and as many.                                   *)
BlockNum(c)   == (SpanPages[c] * PageBytes) \div BlockSize[c]
CutFrom(s, c) == {Block(s, c, i) : i \in 0 .. BlockNum(c) - 1}

Tracker    == [span : Nat, numPages : Nat, blockCount : Nat, freeCount : Int]
Counts     == UNION {[S -> Nat] : S \in SUBSET Nat}
Ops        == {"none", "fetchLock", "fetch", "returnLock", "return", "delayed"}
CallRecord == [op : Ops, class : Nat, chain : Seq(Nat), counts : Counts]

TypeOK ==
  /\ DOMAIN live \subseteq Nat /\ live \in [DOMAIN live -> Nat \ {0}]
  /\ centralFreeList \in [Classes -> Seq(Nat)]
  /\ spanTrackers \in Seq(Tracker)
  /\ call \in [Threads -> CallRecord]
  /\ \A t \in Threads : call[t].op # "none" => call[t].class \in Classes
  /\ \A t \in Threads : call[t].chain # <<>> => call[t].op \in {"returnLock", "return"}
  /\ out \in [Classes -> SUBSET Nat]

(* Where the blocks are: on lists, lent, on their way back.                *)
Lists == [c \in Classes |-> ToSet(centralFreeList[c])]
Hands == [t \in Threads |-> Returning(t)]

OnePlace(L, O, R) ==
  /\ \A c, d \in Classes : \A b \in L[c] : b \notin O[d]
  /\ \A c, d \in Classes : c # d => \A b \in L[c] : b \notin L[d]
  /\ \A c, d \in Classes : c # d => \A b \in O[c] : b \notin O[d]
  /\ \A t \in Threads, c \in Classes : \A b \in R[t] : b \notin L[c] /\ b \notin O[c]
  /\ \A t, u \in Threads : t # u => \A b \in R[t] : b \notin R[u]

Places(L, O, R, b) == (\E c \in Classes : b \in L[c] \/ b \in O[c]) \/ (\E t \in Threads : b \in R[t])

(* A block is in one place at a time, and there once.                      *)
Apart ==
  /\ \A c \in Classes : IsInjective(centralFreeList[c])
  /\ \A t \in Threads : IsInjective(call[t].chain)
  /\ OnePlace(Lists, out, Hands)

SpansApart ==
  \A s, x \in DOMAIN live :
    s # x => (s .. (s + live[s] - 1)) \cap (x .. (x + live[x] - 1)) = {}

Backed == \A b \in AllBlocks : InLiveSpan(b)

(* Of the blocks somewhere those of a tracked span are all it was cut into. *)
TrackerExact(k) ==
  LET tracker == spanTrackers[k]
  IN  /\ tracker.span \in DOMAIN live
      /\ tracker.numPages = live[tracker.span]
      /\ \E c \in Classes :
           /\ tracker.blockCount = BlockNum(c)
           /\ {b \in AllBlocks : Covers(tracker, b)} = CutFrom(tracker.span, c)

TrackersExact == \A k \in DOMAIN spanTrackers : TrackerExact(k)

(* The inductive invariant.                                                *)
Sound == TypeOK /\ Apart /\ SpansApart /\ Backed /\ TrackersExact
Inv   == givenBack \in BOOLEAN /\ (~ givenBack => Sound)

-----------------------------------------------------------------------------
(* Blocks and pages.                                                       *)

(* A number lies between two multiples.                                    *)
LEMMA DivBounds ==
  ASSUME NEW x \in Nat, NEW d \in Nat \ {0}
  PROVE  x \div d \in Nat /\ (x \div d) * d <= x /\ x < (x \div d) * d + d
OBVIOUS

(* Multiples keep the order of their factors.                              *)
LEMMA ProductOrder ==
  ASSUME NEW i \in Nat, NEW j \in Nat, NEW d \in Nat, i < j
  PROVE  i * d + d <= j * d /\ i * d \in Nat /\ j * d \in Nat
<1>1. j * d = i * d + d + (j - i - 1) * d /\ (j - i - 1) * d \in Nat
  OBVIOUS
<1> QED BY <1>1

(* What is assumed of a class.                                             *)
LEMMA ClassFacts ==
  ASSUME NEW c \in Classes
  PROVE  /\ PageBytes \in Nat \ {0} /\ BlockSize[c] \in Nat \ {0} /\ SpanPages[c] \in Nat \ {0}
         /\ SpanPages[c] * PageBytes \in Nat /\ BlockSize[c] <= SpanPages[c] * PageBytes
BY CentralCacheV2Assumption

(* A span makes at least one block, and its blocks fit in it.              *)
LEMMA BlockNumFacts ==
  ASSUME NEW c \in Classes
  PROVE  BlockNum(c) \in Nat \ {0} /\ BlockNum(c) * BlockSize[c] <= SpanPages[c] * PageBytes
<1>1. PICK x \in Nat, d \in Nat \ {0} : x = SpanPages[c] * PageBytes /\ d = BlockSize[c] /\ d <= x
  BY ClassFacts
<1>2. PICK q \in Nat : q = x \div d /\ q * d <= x /\ x < q * d + d
  BY DivBounds
<1>3. q = 0 => q * d = 0
  OBVIOUS
<1> QED BY <1>1, <1>2, <1>3 DEF BlockNum

(* A block lies in the pages of its span.                                  *)
LEMMA BlockInside ==
  ASSUME NEW s \in Nat, NEW c \in Classes, NEW b \in CutFrom(s, c)
  PROVE  b \in Nat /\ (b \div PageBytes) \in s .. (s + SpanPages[c] - 1)
<1>1. PICK i \in 0 .. BlockNum(c) - 1 : b = Block(s, c, i)
  BY DEF CutFrom
<1>2. PICK p \in Nat \ {0}, z \in Nat \ {0}, n \in Nat, m \in Nat :
        /\ p = PageBytes /\ z = BlockSize[c] /\ n = BlockNum(c) /\ m = SpanPages[c] /\ n * z <= m * p
  BY ClassFacts, BlockNumFacts
<1>3. b = s * p + i * z /\ i \in Nat /\ i < n
  BY <1>1, <1>2 DEF Block
<1>4. i * z + z <= n * z /\ i * z \in Nat /\ n * z \in Nat
  BY <1>2, <1>3, ProductOrder
<1>5. s * p \in Nat /\ m * p \in Nat /\ (s + m) * p = s * p + m * p
  BY <1>2
<1>6. b \in Nat /\ s * p <= b /\ b < (s + m) * p
  BY <1>2, <1>3, <1>4, <1>5
<1>7. PICK q \in Nat : q = b \div p /\ q * p <= b /\ b < q * p + p
  BY <1>2, <1>6, DivBounds
<1>8. s <= q
  <2>1. q < s => q * p + p <= s * p
    BY <1>2, ProductOrder
  <2>2. q * p \in Nat
    BY <1>2
  <2> QED BY <1>2, <1>5, <1>6, <1>7, <2>1, <2>2
<1>9. q < s + m
  <2>1. s + m < q => (s + m) * p + p <= q * p
    BY <1>2, ProductOrder
  <2>2. q * p \in Nat /\ (s + m) * p \in Nat
    BY <1>2
  <2> QED BY <1>2, <1>6, <1>7, <2>1, <2>2
<1> QED BY <1>2, <1>6, <1>7, <1>8, <1>9

(* Two blocks of a span differ.                                            *)
LEMMA BlocksDiffer ==
  ASSUME NEW s \in Nat, NEW c \in Classes, NEW i \in Nat, NEW j \in Nat, Block(s, c, i) = Block(s, c, j)
  PROVE  i = j
<1>1. PICK z \in Nat \ {0}, a \in Nat : z = BlockSize[c] /\ a = s * PageBytes
  BY ClassFacts
<1>2. i * z \in Nat /\ j * z \in Nat /\ i * z = j * z
  BY <1>1 DEF Block
<1>3. ~ (i < j) /\ ~ (j < i)
  <2>1. (i < j => i * z + z <= j * z) /\ (j < i => j * z + z <= i * z)
    BY <1>1, ProductOrder
  <2> QED BY <1>1, <1>2, <2>1
<1> QED BY <1>3

(* A span is cut into as many blocks as are counted.                       *)
LEMMA CutCounted ==
  ASSUME NEW s \in Nat, NEW c \in Classes
  PROVE  IsFiniteSet(CutFrom(s, c)) /\ Cardinality(CutFrom(s, c)) = BlockNum(c)
<1>1. PICK n \in Nat : n = BlockNum(c)
  BY BlockNumFacts
<1> DEFINE f == [i \in 1 .. n |-> Block(s, c, i - 1)]
<1>2. f \in Bijection(1 .. n, CutFrom(s, c))
  <2>1. \A i, j \in 1 .. n : f[i] = f[j] => i = j
    <3> SUFFICES ASSUME NEW i \in 1 .. n, NEW j \in 1 .. n, f[i] = f[j] PROVE i = j
      OBVIOUS
    <3>1. i - 1 \in Nat /\ j - 1 \in Nat /\ Block(s, c, i - 1) = Block(s, c, j - 1)
      OBVIOUS
    <3>2. i - 1 = j - 1
      BY <3>1, BlocksDiffer
    <3> QED BY <3>2
  <2>2. \A i \in 1 .. n : f[i] \in CutFrom(s, c)
    <3> SUFFICES ASSUME NEW i \in 1 .. n PROVE f[i] \in CutFrom(s, c)
      OBVIOUS
    <3>1. i - 1 \in 0 .. BlockNum(c) - 1
      BY <1>1
    <3> QED BY <3>1 DEF CutFrom
  <2>3. \A b \in CutFrom(s, c) : \E i \in 1 .. n : f[i] = b
    <3> SUFFICES ASSUME NEW b \in CutFrom(s, c) PROVE \E i \in 1 .. n : f[i] = b
      OBVIOUS
    <3>1. PICK j \in 0 .. BlockNum(c) - 1 : b = Block(s, c, j)
      BY DEF CutFrom
    <3>2. j + 1 \in 1 .. n /\ (j + 1) - 1 = j
      BY <1>1
    <3> QED BY <3>1, <3>2
  <2> HIDE DEF f
  <2>4. f \in [1 .. n -> CutFrom(s, c)]
    BY <2>2 DEF f
  <2>5. f \in Injection(1 .. n, CutFrom(s, c)) /\ f \in Surjection(1 .. n, CutFrom(s, c))
    BY <2>1, <2>3, <2>4 DEF Injection, Surjection, IsInjective
  <2> QED BY <2>5, Zenon DEF Bijection
<1> HIDE DEF f
<1>3. ExistsBijection(1 .. n, CutFrom(s, c))
  BY <1>2 DEF ExistsBijection
<1> QED BY <1>1, <1>3, FS_NatBijection, FS_CountingElements

-----------------------------------------------------------------------------
(* Lists.                                                                  *)

(* The members of a list.                                                  *)
LEMMA ToSetFacts ==
  ASSUME NEW q \in Seq(Nat)
  PROVE  ToSet(q) \subseteq Nat /\ \A x : x \in ToSet(q) <=> \E i \in 1 .. Len(q) : q[i] = x
BY DEF ToSet

(* The empty list has none.                                                *)
LEMMA EmptyFacts == ToSet(<<>>) = {} /\ IsInjective(<<>>) /\ <<>> \in Seq(Nat)
BY DEF ToSet, IsInjective

(* Its first block leaves a list.                                          *)
LEMMA TailFacts ==
  ASSUME NEW q \in Seq(Nat), q # <<>>, IsInjective(q)
  PROVE  /\ Tail(q) \in Seq(Nat) /\ IsInjective(Tail(q)) /\ Head(q) \in Nat
         /\ ToSet(q) = ToSet(Tail(q)) \cup {Head(q)} /\ Head(q) \notin ToSet(Tail(q))
<1>1. /\ Tail(q) \in Seq(Nat) /\ Head(q) \in Nat /\ Head(q) = q[1] /\ Len(q) \in Nat \ {0}
      /\ Len(Tail(q)) = Len(q) - 1 /\ \A i \in 1 .. Len(q) - 1 : Tail(q)[i] = q[i + 1]
  OBVIOUS
<1>2. \A i, j \in 1 .. Len(q) : q[i] = q[j] => i = j
  BY DEF IsInjective
<1>3. IsInjective(Tail(q))
  <2> SUFFICES ASSUME NEW i \in 1 .. Len(q) - 1, NEW j \in 1 .. Len(q) - 1, Tail(q)[i] = Tail(q)[j]
               PROVE  i = j
    BY <1>1 DEF IsInjective
  <2>1. i + 1 \in 1 .. Len(q) /\ j + 1 \in 1 .. Len(q) /\ q[i + 1] = q[j + 1]
    BY <1>1
  <2> QED BY <1>2, <2>1
<1>4. \A x : x \in ToSet(Tail(q)) <=> \E i \in 1 .. Len(q) - 1 : q[i + 1] = x
  <2>1. PICK r \in Seq(Nat) : r = Tail(q) /\ Len(r) = Len(q) - 1 /\ \A i \in 1 .. Len(q) - 1 : r[i] = q[i + 1]
    BY <1>1
  <2>2. \A x : x \in ToSet(r) <=> \E i \in 1 .. Len(r) : r[i] = x
    BY ToSetFacts
  <2>3. \A x : x \in ToSet(r) <=> \E i \in 1 .. Len(q) - 1 : q[i + 1] = x
    BY <2>1, <2>2
  <2> QED BY <2>1, <2>3
<1>5. Head(q) \notin ToSet(Tail(q))
  <2> SUFFICES ASSUME NEW i \in 1 .. Len(q) - 1, q[i + 1] = q[1] PROVE FALSE
    BY <1>1, <1>4
  <2>1. i + 1 \in 1 .. Len(q) /\ 1 \in 1 .. Len(q) /\ i + 1 # 1
    BY <1>1
  <2> QED BY <1>2, <2>1
<1>6. ASSUME NEW x PROVE x \in ToSet(q) <=> x \in ToSet(Tail(q)) \/ x = Head(q)
  <2>1. ASSUME NEW i \in 1 .. Len(q), q[i] = x PROVE x \in ToSet(Tail(q)) \/ x = Head(q)
    <3>1. i = 1 \/ (i - 1 \in 1 .. Len(q) - 1 /\ q[(i - 1) + 1] = x)
      BY <2>1
    <3> QED BY <1>1, <1>4, <2>1, <3>1
  <2>2. ASSUME NEW i \in 1 .. Len(q) - 1, q[i + 1] = x PROVE \E j \in 1 .. Len(q) : q[j] = x
    <3>1. i + 1 \in 1 .. Len(q)
      BY <1>1
    <3> QED BY <2>2, <3>1
  <2>3. 1 \in 1 .. Len(q)
    BY <1>1
  <2> QED BY <1>1, <1>4, <2>1, <2>2, <2>3, ToSetFacts
<1> QED BY <1>1, <1>3, <1>5, <1>6

(* One list is put in front of another.                                    *)
LEMMA ConcatFacts ==
  ASSUME NEW p \in Seq(Nat), NEW q \in Seq(Nat), IsInjective(p), IsInjective(q), ToSet(p) \cap ToSet(q) = {}
  PROVE  p \o q \in Seq(Nat) /\ IsInjective(p \o q) /\ ToSet(p \o q) = ToSet(p) \cup ToSet(q)
<1>1. PICK r \in Seq(Nat) :
        /\ r = p \o q /\ Len(r) = Len(p) + Len(q) /\ Len(p) \in Nat /\ Len(q) \in Nat
        /\ \A i \in 1 .. Len(r) : r[i] = IF i <= Len(p) THEN p[i] ELSE q[i - Len(p)]
  <2>1. /\ p \o q \in Seq(Nat) /\ Len(p \o q) = Len(p) + Len(q)
        /\ \A i \in 1 .. Len(p) + Len(q) : (p \o q)[i] = IF i <= Len(p) THEN p[i] ELSE q[i - Len(p)]
    BY ConcatProperties, Zenon
  <2>2. Len(p) \in Nat /\ Len(q) \in Nat
    OBVIOUS
  <2> QED BY <2>1, <2>2, Zenon
<1>2. /\ \A i, j \in 1 .. Len(p) : p[i] = p[j] => i = j
      /\ \A i, j \in 1 .. Len(q) : q[i] = q[j] => i = j
  BY DEF IsInjective
<1>3. \A i \in 1 .. Len(p), j \in 1 .. Len(q) : p[i] # q[j]
  BY ToSetFacts
<1>4. ASSUME NEW i \in 1 .. Len(r), NEW j \in 1 .. Len(r), r[i] = r[j] PROVE i = j
  <2>1. /\ IF i <= Len(p) THEN i \in 1 .. Len(p) /\ r[i] = p[i] ELSE i - Len(p) \in 1 .. Len(q) /\ r[i] = q[i - Len(p)]
        /\ IF j <= Len(p) THEN j \in 1 .. Len(p) /\ r[j] = p[j] ELSE j - Len(p) \in 1 .. Len(q) /\ r[j] = q[j - Len(p)]
    BY <1>1
  <2>2. i <= Len(p) <=> j <= Len(p)
    BY <1>3, <1>4, <2>1
  <2>3. i <= Len(p) => i = j
    BY <1>2, <1>4, <2>1, <2>2
  <2>4. ~ (i <= Len(p)) => i - Len(p) = j - Len(p)
    BY <1>2, <1>4, <2>1, <2>2
  <2> QED BY <1>1, <2>3, <2>4
<1>5. ASSUME NEW x PROVE x \in ToSet(r) <=> x \in ToSet(p) \/ x \in ToSet(q)
  <2>1. ASSUME NEW i \in 1 .. Len(r), r[i] = x PROVE x \in ToSet(p) \/ x \in ToSet(q)
    <3>1. IF i <= Len(p) THEN i \in 1 .. Len(p) /\ x = p[i] ELSE i - Len(p) \in 1 .. Len(q) /\ x = q[i - Len(p)]
      BY <1>1, <2>1
    <3> QED BY <3>1, ToSetFacts
  <2>2. ASSUME NEW i \in 1 .. Len(p), p[i] = x PROVE i \in 1 .. Len(r) /\ r[i] = x
    BY <1>1, <2>2
  <2>3. ASSUME NEW i \in 1 .. Len(q), q[i] = x PROVE i + Len(p) \in 1 .. Len(r) /\ r[i + Len(p)] = x
    BY <1>1, <2>3
  <2> QED BY <2>1, <2>2, <2>3, ToSetFacts
<1>6. IsInjective(r)
  <2>1. DOMAIN r = 1 .. Len(r)
    BY <1>1
  <2> QED BY <1>4, <2>1 DEF IsInjective
<1>7. ToSet(r) = ToSet(p) \cup ToSet(q)
  BY <1>5
<1> QED BY <1>1, <1>6, <1>7

-----------------------------------------------------------------------------
(* What the blocks somewhere are.                                          *)
LEMMA Somewhere ==
  /\ \A b : b \in AllBlocks <=> Places(Lists, out, Hands, b)
  /\ \A b : b \in AllBlocks' <=> Places(Lists', out', Hands', b)
  /\ \A c \in Classes : Lists[c] = ToSet(centralFreeList[c]) /\ Lists'[c] = ToSet(centralFreeList'[c])
  /\ \A t \in Threads : Hands[t] = ToSet(call[t].chain) /\ Hands'[t] = ToSet(call'[t].chain)
<1>1. /\ \A c \in Classes : Lists[c] = ToSet(centralFreeList[c]) /\ Lists'[c] = ToSet(centralFreeList'[c])
      /\ \A t \in Threads : Hands[t] = ToSet(call[t].chain) /\ Hands'[t] = ToSet(call'[t].chain)
  BY DEF Lists, Hands, Returning
<1>2. ASSUME NEW b PROVE b \in AllBlocks <=> Places(Lists, out, Hands, b)
  <2>1. b \in AllBlocks <=> \/ \E c \in Classes : b \in ToSet(centralFreeList[c]) \/ b \in out[c]
                           \/ \E t \in Threads : b \in ToSet(call[t].chain)
    BY DEF AllBlocks, Returning
  <2> QED BY <1>1, <2>1 DEF Places
<1>3. ASSUME NEW b PROVE b \in AllBlocks' <=> Places(Lists', out', Hands', b)
  <2>1. b \in AllBlocks' <=> \/ \E c \in Classes : b \in ToSet(centralFreeList'[c]) \/ b \in out'[c]
                           \/ \E t \in Threads : b \in ToSet(call'[t].chain)
    BY DEF AllBlocks, Returning
  <2> QED BY <1>1, <2>1 DEF Places
<1> QED BY <1>1, <1>2, <1>3

(* Where the blocks are decides what the invariant says of them.           *)
LEMMA SamePlaces ==
  ASSUME NEW L, NEW O, NEW R, NEW L2, NEW O2, NEW R2, OnePlace(L, O, R),
         \A c \in Classes : L2[c] = L[c] /\ O2[c] = O[c], \A t \in Threads : R2[t] = R[t]
  PROVE  OnePlace(L2, O2, R2) /\ \A b : Places(L2, O2, R2, b) <=> Places(L, O, R, b)
BY DEF OnePlace, Places

(* A block of a list is lent.                                              *)
LEMMA LendOne ==
  ASSUME NEW L, NEW O, NEW R, NEW L2, NEW O2, NEW R2, OnePlace(L, O, R),
         NEW c \in Classes, NEW b, b \in L[c],
         \A d \in Classes : \A x : x \in L2[d] <=> x \in L[d] /\ (d = c => x # b),
         \A d \in Classes : \A x : x \in O2[d] <=> x \in O[d] \/ (d = c /\ x = b),
         \A t \in Threads : R2[t] = R[t]
  PROVE  OnePlace(L2, O2, R2) /\ \A x : Places(L2, O2, R2, x) <=> Places(L, O, R, x)
BY DEF OnePlace, Places

(* What a tracker keeps but for its count.                                 *)
SameSpans ==
  /\ DOMAIN spanTrackers' = DOMAIN spanTrackers
  /\ \A k \in DOMAIN spanTrackers :
       /\ spanTrackers'[k].span = spanTrackers[k].span
       /\ spanTrackers'[k].numPages = spanTrackers[k].numPages
       /\ spanTrackers'[k].blockCount = spanTrackers[k].blockCount

(* Blocks only change places.                                              *)
LEMMA MoveStep ==
  ASSUME Sound, UNCHANGED live, AllBlocks' = AllBlocks, SameSpans
  PROVE  SpansApart' /\ Backed' /\ TrackersExact'
<1>1. SpansApart' /\ Backed'
  BY DEF Sound, SpansApart, Backed, InLiveSpan
<1>2. ASSUME NEW k \in DOMAIN spanTrackers PROVE TrackerExact(k)'
  <2>1. TrackerExact(k)
    BY DEF Sound, TrackersExact
  <2>2. \A b : Covers(spanTrackers'[k], b) <=> Covers(spanTrackers[k], b)
    BY DEF SameSpans, Covers
  <2>3. {b \in AllBlocks' : Covers(spanTrackers'[k], b)} = {b \in AllBlocks : Covers(spanTrackers[k], b)}
    BY <2>2
  <2> QED BY <2>1, <2>3 DEF SameSpans, TrackerExact, BlockNum, CutFrom, Block
<1> QED BY <1>1, <1>2 DEF TrackersExact, SameSpans

(* Nothing moves.                                                          *)
LEMMA QuietStep ==
  ASSUME Sound, UNCHANGED <<live, centralFreeList, out>>, SameSpans, TypeOK',
         \A t \in Threads : call'[t].chain = call[t].chain
  PROVE  Sound'
<1>1. /\ \A c \in Classes : Lists'[c] = Lists[c] /\ out'[c] = out[c]
      /\ \A t \in Threads : Hands'[t] = Hands[t]
  BY Somewhere
<1>2. OnePlace(Lists', out', Hands') /\ \A b : Places(Lists', out', Hands', b) <=> Places(Lists, out, Hands, b)
  <2>1. OnePlace(Lists, out, Hands)
    BY DEF Sound, Apart
  <2> QED BY <1>1, <2>1, SamePlaces
<1>3. Apart' /\ AllBlocks' = AllBlocks
  BY <1>2, Somewhere DEF Sound, Apart
<1> QED BY <1>3, MoveStep DEF Sound

(* What the type invariant says of one call.                               *)
LEMMA CallFacts ==
  ASSUME TypeOK, NEW t \in Threads
  PROVE  /\ call[t] \in CallRecord /\ call[t].chain \in Seq(Nat) /\ call[t].counts \in Counts
         /\ call[t].class \in Nat
         /\ call[t].op # "none" => call[t].class \in Classes
         /\ call[t].op \notin {"returnLock", "return"} => call[t].chain = <<>>
BY DEF TypeOK, CallRecord

(* A call of a chain of blocks whose spans are not counted yet.            *)
LEMMA IdleFacts ==
  ASSUME NEW o \in Ops, NEW c \in Nat, NEW q \in Seq(Nat), NEW n \in Counts
  PROVE  [op |-> o, class |-> c, chain |-> q, counts |-> n] \in CallRecord
BY DEF CallRecord

(* What the assignments of a call make of its record.                      *)
LEMMA OpSet ==
  ASSUME NEW x \in CallRecord, NEW o \in Ops, NEW y, y = [x EXCEPT !.op = o]
  PROVE  y \in CallRecord /\ y.op = o /\ y.class = x.class /\ y.chain = x.chain /\ y.counts = x.counts
BY DEF CallRecord

(* One assignment to the counts of a call.                                 *)
LEMMA CountsLeft ==
  ASSUME NEW x \in CallRecord, NEW n \in Counts, NEW y, y = [x EXCEPT !.counts = n]
  PROVE  y \in CallRecord /\ y.op = x.op /\ y.class = x.class /\ y.chain = x.chain /\ y.counts = n
BY DEF CallRecord

(* One assignment to the count of a tracker.                               *)
LEMMA FreeCountSet ==
  ASSUME NEW x \in Tracker, NEW i \in Int, NEW y, y = [x EXCEPT !.freeCount = i]
  PROVE  /\ y \in Tracker /\ y.span = x.span /\ y.numPages = x.numPages /\ y.blockCount = x.blockCount
BY DEF Tracker

(* A call not under way.                                                   *)
LEMMA IdleType ==
  /\ NoSpans \in Counts
  /\ Idle \in CallRecord /\ Idle.chain = <<>> /\ Idle.op = "none" /\ Idle.class = 0 /\ Idle.counts = NoSpans
<1>1. NoSpans \in [{} -> Nat]
  BY DEF NoSpans
<1>2. NoSpans \in Counts
  BY <1>1 DEF Counts
<1>3. "none" \in Ops /\ 0 \in Nat /\ <<>> \in Seq(Nat)
  BY EmptyFacts DEF Ops
<1>4. Idle \in CallRecord
  BY <1>2, <1>3, IdleFacts, Zenon DEF Idle
<1> QED BY <1>2, <1>4 DEF Idle

(* A call changes; the rest of the types is kept.                          *)
LEMMA CallType ==
  ASSUME TypeOK, NEW t \in Threads, NEW r \in CallRecord, call' = [call EXCEPT ![t] = r],
         r.op # "none" => r.class \in Classes,
         r.chain # <<>> => r.op \in {"returnLock", "return"}
  PROVE  /\ call' \in [Threads -> CallRecord]
         /\ \A u \in Threads : call'[u].op # "none" => call'[u].class \in Classes
         /\ \A u \in Threads : call'[u].chain # <<>> => call'[u].op \in {"returnLock", "return"}
         /\ \A u \in Threads : call'[u] = IF u = t THEN r ELSE call[u]
<1>1. call \in [Threads -> CallRecord]
  BY DEF TypeOK
<1>2. \A u \in Threads : call'[u] = IF u = t THEN r ELSE call[u]
  BY <1>1
<1>3. call' \in [Threads -> CallRecord]
  BY <1>1
<1> QED BY <1>2, <1>3 DEF TypeOK

(* Counts of trackers change.                                              *)
LEMMA CountedSpans ==
  ASSUME spanTrackers \in Seq(Tracker), NEW S,
         spanTrackers' = [k \in DOMAIN spanTrackers |->
                            IF k \in S THEN [spanTrackers[k] EXCEPT !.freeCount = @ - 1] ELSE spanTrackers[k]]
  PROVE  spanTrackers' \in Seq(Tracker) /\ SameSpans
<1>1. PICK n \in Nat : spanTrackers \in [1 .. n -> Tracker] /\ DOMAIN spanTrackers = 1 .. n
  OBVIOUS
<1>2. \A k \in 1 .. n :
        /\ spanTrackers'[k] \in Tracker /\ spanTrackers'[k].span = spanTrackers[k].span
        /\ spanTrackers'[k].numPages = spanTrackers[k].numPages
        /\ spanTrackers'[k].blockCount = spanTrackers[k].blockCount
  <2> SUFFICES ASSUME NEW k \in 1 .. n
               PROVE  /\ spanTrackers'[k] \in Tracker /\ spanTrackers'[k].span = spanTrackers[k].span
                      /\ spanTrackers'[k].numPages = spanTrackers[k].numPages
                      /\ spanTrackers'[k].blockCount = spanTrackers[k].blockCount
    OBVIOUS
  <2>1. PICK x \in Tracker : x = spanTrackers[k]
    BY <1>1
  <2>2. spanTrackers'[k] = IF k \in S THEN [x EXCEPT !.freeCount = @ - 1] ELSE x
    BY <1>1, <2>1
  <2>3. CASE k \in S
    <3> DEFINE i == x.freeCount - 1
    <3>0. i \in Int
      BY <2>1 DEF Tracker
    <3> HIDE DEF i
    <3>1. PICK y : y = [x EXCEPT !.freeCount = i]
      OBVIOUS
    <3>2. y \in Tracker /\ y.span = x.span /\ y.numPages = x.numPages /\ y.blockCount = x.blockCount
      BY <3>0, <3>1, FreeCountSet
    <3>3. spanTrackers'[k] = y
      BY <2>2, <2>3, <3>1 DEF i
    <3> QED BY <2>1, <3>2, <3>3
  <2>4. CASE k \notin S
    BY <2>1, <2>2, <2>4
  <2> QED BY <2>3, <2>4
<1>3. spanTrackers' \in [1 .. n -> Tracker] /\ DOMAIN spanTrackers' = 1 .. n
  BY <1>1, <1>2
<1> QED BY <1>1, <1>2, <1>3 DEF SameSpans

(* A thread takes the lock of a class.                                     *)
LEMMA AcquireSound ==
  ASSUME Sound, NEW t \in Threads,
         Acquire(t, "fetchLock", "fetch") \/ Acquire(t, "returnLock", "return")
  PROVE  Sound'
<1>1. PICK to \in {"fetch", "return"} :
        /\ call' = [call EXCEPT ![t].op = to] /\ call[t].op = IF to = "fetch" THEN "fetchLock" ELSE "returnLock"
        /\ UNCHANGED <<live, centralFreeList, spanTrackers, out>>
  BY DEF Acquire
<1>2. PICK r : r = [call[t] EXCEPT !.op = to]
  OBVIOUS
<1>3. r \in CallRecord /\ r.op = to /\ r.class = call[t].class /\ r.chain = call[t].chain
  <2>1. PICK x \in CallRecord : x = call[t]
    BY CallFacts DEF Sound
  <2>2. to \in Ops
    BY DEF Ops
  <2> QED BY <1>2, <2>1, <2>2, OpSet
<1>4. call' = [call EXCEPT ![t] = r]
  BY <1>1, <1>2
<1>5. /\ r.op # "none" => r.class \in Classes
      /\ r.chain # <<>> => r.op \in {"returnLock", "return"}
  BY <1>1, <1>3, CallFacts DEF Sound
<1>6. /\ call' \in [Threads -> CallRecord]
      /\ \A u \in Threads : call'[u].op # "none" => call'[u].class \in Classes
      /\ \A u \in Threads : call'[u].chain # <<>> => call'[u].op \in {"returnLock", "return"}
      /\ \A u \in Threads : call'[u] = IF u = t THEN r ELSE call[u]
  BY <1>3, <1>4, <1>5, CallType DEF Sound
<1>7. TypeOK'
  BY <1>1, <1>6 DEF Sound, TypeOK
<1>8. SameSpans
  BY <1>1 DEF SameSpans
<1> QED BY <1>1, <1>3, <1>6, <1>7, <1>8, QuietStep

(* A thread asks for a block.                                              *)
LEMMA FetchCallSound ==
  ASSUME Sound, NEW t \in Threads, NEW c \in Classes, FetchCall(t, c)
  PROVE  Sound'
<1>1. /\ call[t] = Idle /\ call' = [call EXCEPT ![t] = [Idle EXCEPT !.op = "fetchLock", !.class = c]]
      /\ UNCHANGED <<live, centralFreeList, spanTrackers, out>>
  BY DEF FetchCall
<1>2. PICK r : r = [Idle EXCEPT !.op = "fetchLock", !.class = c]
  OBVIOUS
<1>3. r \in CallRecord /\ r.op = "fetchLock" /\ r.class = c /\ r.chain = <<>>
  <2>1. PICK x \in CallRecord, o \in Ops : x = Idle /\ x.chain = <<>> /\ o = "fetchLock"
    BY IdleType DEF Ops
  <2>2. c \in Nat /\ r = [x EXCEPT !.op = o, !.class = c]
    BY <1>2, <2>1 DEF Classes
  <2> QED BY <2>1, <2>2 DEF CallRecord
<1>4. call' = [call EXCEPT ![t] = r]
  BY <1>1, <1>2
<1>5. /\ call' \in [Threads -> CallRecord]
      /\ \A u \in Threads : call'[u].op # "none" => call'[u].class \in Classes
      /\ \A u \in Threads : call'[u].chain # <<>> => call'[u].op \in {"returnLock", "return"}
      /\ \A u \in Threads : call'[u] = IF u = t THEN r ELSE call[u]
  BY <1>3, <1>4, CallType DEF Sound
<1>6. TypeOK'
  BY <1>1, <1>5 DEF Sound, TypeOK
<1>7. SameSpans
  BY <1>1 DEF SameSpans
<1>8. \A u \in Threads : call'[u].chain = call[u].chain
  BY <1>1, <1>3, <1>5, IdleType
<1> QED BY <1>1, <1>6, <1>7, <1>8, QuietStep

(* A call ends.                                                            *)
LEMMA ReleaseFacts ==
  ASSUME TypeOK, NEW t \in Threads, call' = [call EXCEPT ![t] = Idle]
  PROVE  /\ call' \in [Threads -> CallRecord]
         /\ \A u \in Threads : call'[u].op # "none" => call'[u].class \in Classes
         /\ \A u \in Threads : call'[u].chain # <<>> => call'[u].op \in {"returnLock", "return"}
         /\ \A u \in Threads : call'[u].chain = IF u = t THEN <<>> ELSE call[u].chain
<1>1. PICK r \in CallRecord : r = Idle /\ r.op = "none" /\ r.chain = <<>>
  BY IdleType
<1>2. call' = [call EXCEPT ![t] = r]
  BY <1>1
<1> QED BY <1>1, <1>2, CallType

(* A fetch fails; a return that counted its spans ends.                    *)
LEMMA EndSound ==
  ASSUME Sound, NEW t \in Threads, FetchFails(t) \/ ReturnEnd(t)
  PROVE  Sound'
<1>1. /\ call[t].op \in {"fetch", "delayed"} /\ call' = [call EXCEPT ![t] = Idle]
      /\ UNCHANGED <<live, centralFreeList, spanTrackers, out>>
  BY DEF FetchFails, ReturnEnd, Release
<1>2. call[t].chain = <<>>
  BY <1>1, CallFacts DEF Sound
<1>3. TypeOK'
  BY <1>1, ReleaseFacts DEF Sound, TypeOK
<1>4. SameSpans
  BY <1>1 DEF SameSpans
<1>5. \A u \in Threads : call'[u].chain = call[u].chain
  BY <1>1, <1>2, ReleaseFacts DEF Sound
<1> QED BY <1>1, <1>3, <1>4, <1>5, QuietStep

(* A block of the list is lent.                                            *)
LEMMA FetchFromListSound ==
  ASSUME Sound, NEW t \in Threads, FetchFromList(t)
  PROVE  Sound'
<1>1. call[t].op = "fetch" /\ call[t].class \in Classes /\ call[t].chain = <<>>
  BY CallFacts DEF FetchFromList, Sound
<1>2. PICK c \in Classes : c = call[t].class
  BY <1>1
<1>3. PICK q \in Seq(Nat) : q = centralFreeList[c] /\ q # <<>> /\ IsInjective(q)
  BY <1>2 DEF FetchFromList, Sound, TypeOK, Apart
<1>4. PICK r \in Seq(Nat), b \in Nat :
        /\ r = Tail(q) /\ b = Head(q) /\ IsInjective(r) /\ ToSet(q) = ToSet(r) \cup {b} /\ b \notin ToSet(r)
  BY <1>3, TailFacts
<1>5. /\ centralFreeList' = [centralFreeList EXCEPT ![c] = r] /\ out' = [out EXCEPT ![c] = @ \cup {b}]
      /\ spanTrackers' = [k \in DOMAIN spanTrackers |->
                            IF k \in getSpanTracker(b)
                            THEN [spanTrackers[k] EXCEPT !.freeCount = @ - 1]
                            ELSE spanTrackers[k]]
      /\ call' = [call EXCEPT ![t] = Idle] /\ UNCHANGED live
  BY <1>2, <1>3, <1>4, Zenon DEF FetchFromList, Release, Rest
<1>6. /\ \A d \in Classes : centralFreeList'[d] = IF d = c THEN r ELSE centralFreeList[d]
      /\ \A d \in Classes : out'[d] = IF d = c THEN out[d] \cup {b} ELSE out[d]
  BY <1>5 DEF Sound, TypeOK
<1>7. \A u \in Threads : call'[u].chain = call[u].chain
  BY <1>1, <1>5, ReleaseFacts DEF Sound
<1>8. OnePlace(Lists', out', Hands') /\ \A x : Places(Lists', out', Hands', x) <=> Places(Lists, out, Hands, x)
  <2>1. OnePlace(Lists, out, Hands)
    BY DEF Sound, Apart
  <2>2. b \in Lists[c]
    BY <1>3, <1>4, Somewhere
  <2>3. \A d \in Classes : \A x : x \in Lists'[d] <=> x \in Lists[d] /\ (d = c => x # b)
    BY <1>3, <1>4, <1>6, Somewhere
  <2>4. \A d \in Classes : \A x : x \in out'[d] <=> x \in out[d] \/ (d = c /\ x = b)
    BY <1>6
  <2>5. \A u \in Threads : Hands'[u] = Hands[u]
    BY <1>7, Somewhere
  <2> QED BY <2>1, <2>2, <2>3, <2>4, <2>5, LendOne
<1>9. Apart' /\ AllBlocks' = AllBlocks
  BY <1>4, <1>6, <1>7, <1>8, Somewhere DEF Sound, Apart
<1>10. spanTrackers' \in Seq(Tracker) /\ SameSpans
  BY <1>5, CountedSpans DEF Sound, TypeOK
<1>11. TypeOK'
  <2>1. centralFreeList' \in [Classes -> Seq(Nat)] /\ out' \in [Classes -> SUBSET Nat]
    BY <1>4, <1>5 DEF Sound, TypeOK
  <2> QED BY <1>5, <1>10, <2>1, ReleaseFacts DEF Sound, TypeOK
<1> QED BY <1>5, <1>9, <1>10, <1>11, MoveStep DEF Sound

(* Blocks on their way back leave those lent.                              *)
LEMMA ReturnCallSound ==
  ASSUME Sound, NEW t \in Threads, NEW c \in Classes, NEW chain \in Chains(c), ReturnCall(t, c, chain)
  PROVE  Sound'
<1>1. PICK n \in Nat : chain \in [1 .. n -> out[c]] /\ IsInjective(chain)
  <2>1. PICK n \in 1 .. Cardinality(out[c]) : chain \in [1 .. n -> out[c]] /\ IsInjective(chain)
    BY DEF Chains
  <2> QED BY <2>1
<1>2. chain \in Seq(Nat) /\ ToSet(chain) \subseteq out[c]
  <2>1. PICK O \in SUBSET Nat : O = out[c]
    BY DEF Sound, TypeOK
  <2>2. chain \in Seq(O)
    BY <1>1, <2>1
  <2>3. chain \in Seq(Nat)
    BY <2>1, <2>2
  <2>4. \A i \in 1 .. Len(chain) : chain[i] \in O
    BY <2>2
  <2> QED BY <2>1, <2>3, <2>4, ToSetFacts
<1>3. /\ call[t] = Idle
      /\ call' = [call EXCEPT ![t] = [Idle EXCEPT !.op = "returnLock", !.class = c, !.chain = chain]]
      /\ out' = [out EXCEPT ![c] = @ \ ToSet(chain)]
      /\ UNCHANGED <<live, centralFreeList, spanTrackers>>
  BY DEF ReturnCall
<1>4. PICK r : r = [Idle EXCEPT !.op = "returnLock", !.class = c, !.chain = chain]
  OBVIOUS
<1>5. r \in CallRecord /\ r.op = "returnLock" /\ r.class = c /\ r.chain = chain
  <2>1. PICK x \in CallRecord, o \in Ops : x = Idle /\ o = "returnLock"
    BY IdleType DEF Ops
  <2>2. c \in Nat /\ r = [x EXCEPT !.op = o, !.class = c, !.chain = chain]
    BY <1>4, <2>1 DEF Classes
  <2> QED BY <1>2, <2>1, <2>2 DEF CallRecord
<1>6. call' = [call EXCEPT ![t] = r]
  BY <1>3, <1>4
<1>7. /\ call' \in [Threads -> CallRecord]
      /\ \A u \in Threads : call'[u].op # "none" => call'[u].class \in Classes
      /\ \A u \in Threads : call'[u].chain # <<>> => call'[u].op \in {"returnLock", "return"}
      /\ \A u \in Threads : call'[u] = IF u = t THEN r ELSE call[u]
  BY <1>5, <1>6, CallType DEF Sound
<1>8. \A d \in Classes : out'[d] = IF d = c THEN out[d] \ ToSet(chain) ELSE out[d]
  BY <1>3 DEF Sound, TypeOK
<1>9. \A u \in Threads : call'[u].chain = IF u = t THEN chain ELSE call[u].chain
  BY <1>5, <1>7
<1>10. OnePlace(Lists', out', Hands') /\ \A x : Places(Lists', out', Hands', x) <=> Places(Lists, out, Hands, x)
  <2>1. OnePlace(Lists, out, Hands)
    BY DEF Sound, Apart
  <2>2. \A d \in Classes : Lists'[d] = Lists[d]
    BY <1>3, Somewhere
  <2>3. Hands'[t] = ToSet(chain) /\ \A u \in Threads : u # t => Hands'[u] = Hands[u]
    BY <1>9, Somewhere
  <2>4. \A x \in Hands'[t] : x \in out[c]
    BY <1>2, <2>3
  <2>5. \A d \in Classes : \A x : x \in out'[d] <=> x \in out[d] /\ (d = c => x \notin Hands'[t])
    BY <1>8, <2>3
  <2>6. \A x : x \notin Hands[t]
    BY <1>3, IdleType, EmptyFacts, Somewhere
  <2>7. \A u \in Threads : u # t => Hands'[u] = Hands[u]
    BY <2>3
  <2>8. OnePlace(Lists', out', Hands')
    BY <2>1, <2>2, <2>4, <2>5, <2>6, <2>7 DEF OnePlace
  <2>9. \A x : Places(Lists', out', Hands', x) <=> Places(Lists, out, Hands, x)
    BY <2>2, <2>4, <2>5, <2>6, <2>7 DEF Places
  <2> QED BY <2>8, <2>9
<1>11. Apart' /\ AllBlocks' = AllBlocks
  BY <1>1, <1>3, <1>9, <1>10, Somewhere DEF Sound, Apart
<1>12. SameSpans
  BY <1>3 DEF SameSpans
<1>13. TypeOK'
  <2>1. out' \in [Classes -> SUBSET Nat]
    BY <1>3 DEF Sound, TypeOK
  <2> QED BY <1>3, <1>7, <2>1 DEF Sound, TypeOK
<1> QED BY <1>3, <1>11, <1>12, <1>13, MoveStep DEF Sound

(* The counts of a list.                                                   *)
LEMMA CountsFacts ==
  ASSUME spanTrackers \in Seq(Tracker), NEW list \in Seq(Nat)
  PROVE  spanFreeCounts(list) \in Counts
<1> DEFINE found(k) == {i \in DOMAIN list : k \in getSpanTracker(list[i])}
           D        == {j \in DOMAIN spanTrackers : found(j) # {}}
<1>1. \A k : Cardinality(found(k)) \in Nat
  <2> SUFFICES ASSUME NEW k PROVE Cardinality(found(k)) \in Nat
    OBVIOUS
  <2>1. DOMAIN list = 1 .. Len(list) /\ Len(list) \in Nat
    OBVIOUS
  <2>2. IsFiniteSet(1 .. Len(list)) /\ found(k) \subseteq 1 .. Len(list)
    BY <2>1, FS_Interval
  <2> QED BY <2>2, FS_Subset, FS_CardinalityType
<1>2. D \subseteq Nat
  OBVIOUS
<1>3. spanFreeCounts(list) = [k \in D |-> Cardinality(found(k))]
  BY DEF spanFreeCounts
<1> HIDE DEF D, found
<1>4. spanFreeCounts(list) \in [D -> Nat]
  BY <1>1, <1>3
<1> QED BY <1>2, <1>4 DEF Counts

(* A chain comes onto the list of its class.                               *)
LEMMA ReturnLinkSound ==
  ASSUME Sound, NEW t \in Threads, ReturnLink(t)
  PROVE  Sound'
<1>1. PICK c \in Classes : c = call[t].class /\ call[t].op = "return"
  BY CallFacts DEF ReturnLink, Sound
<1>2. PICK p \in Seq(Nat), q \in Seq(Nat) :
        /\ p = call[t].chain /\ q = centralFreeList[c] /\ IsInjective(p) /\ IsInjective(q)
        /\ ToSet(p) \cap ToSet(q) = {}
  <2>1. call[t].chain \in Seq(Nat) /\ centralFreeList[c] \in Seq(Nat)
    BY CallFacts DEF Sound, TypeOK
  <2>2. IsInjective(call[t].chain) /\ IsInjective(centralFreeList[c])
    BY DEF Sound, Apart
  <2>3. \A b \in Hands[t] : b \notin Lists[c]
    BY DEF Sound, Apart, OnePlace
  <2>4. ToSet(call[t].chain) \cap ToSet(centralFreeList[c]) = {}
    BY <2>3, Somewhere
  <2> QED BY <2>1, <2>2, <2>4
<1>3. PICK list \in Seq(Nat) : list = p \o q /\ IsInjective(list) /\ ToSet(list) = ToSet(p) \cup ToSet(q)
  BY <1>2, ConcatFacts
<1>4. /\ centralFreeList' = [centralFreeList EXCEPT ![c] = list]
      /\ UNCHANGED <<live, spanTrackers, out>>
      /\ \/ call' = [call EXCEPT ![t] = [@ EXCEPT !.op = "delayed", !.chain = <<>>,
                                                 !.counts = spanFreeCounts(list)]]
         \/ call' = [call EXCEPT ![t] = Idle]
  BY <1>1, <1>2, <1>3, Zenon DEF ReturnLink, Release
<1>5. /\ call' \in [Threads -> CallRecord]
      /\ \A u \in Threads : call'[u].op # "none" => call'[u].class \in Classes
      /\ \A u \in Threads : call'[u].chain # <<>> => call'[u].op \in {"returnLock", "return"}
      /\ \A u \in Threads : call'[u].chain = IF u = t THEN <<>> ELSE call[u].chain
  <2>1. CASE call' = [call EXCEPT ![t] = Idle]
    BY <2>1, ReleaseFacts DEF Sound
  <2>2. CASE call' = [call EXCEPT ![t] = [@ EXCEPT !.op = "delayed", !.chain = <<>>,
                                                    !.counts = spanFreeCounts(list)]]
    <3>1. PICK x \in CallRecord, o \in Ops, e \in Seq(Nat), n \in Counts :
            /\ x = call[t] /\ o = "delayed" /\ e = <<>> /\ n = spanFreeCounts(list)
            /\ x.class \in Classes
      BY <1>1, CallFacts, CountsFacts, EmptyFacts DEF Sound, TypeOK, Ops
    <3>2. PICK r : r = [x EXCEPT !.op = o, !.chain = e, !.counts = n]
      OBVIOUS
    <3>3. r \in CallRecord /\ r.op = o /\ r.class = x.class /\ r.chain = e
      BY <3>1, <3>2 DEF CallRecord
    <3>4. call' = [call EXCEPT ![t] = r]
      BY <2>2, <3>1, <3>2
    <3> QED BY <3>1, <3>3, <3>4, CallType DEF Sound
  <2> QED BY <1>4, <2>1, <2>2
<1>6. \A d \in Classes : centralFreeList'[d] = IF d = c THEN list ELSE centralFreeList[d]
  BY <1>4 DEF Sound, TypeOK
<1>7. OnePlace(Lists', out', Hands') /\ \A x : Places(Lists', out', Hands', x) <=> Places(Lists, out, Hands, x)
  <2>1. OnePlace(Lists, out, Hands)
    BY DEF Sound, Apart
  <2>2. \A d \in Classes : \A x : x \in Lists'[d] <=> x \in Lists[d] \/ (d = c /\ x \in Hands[t])
    BY <1>2, <1>3, <1>6, Somewhere
  <2>3. \A d \in Classes : out'[d] = out[d]
    BY <1>4
  <2>4. \A u \in Threads : \A x : x \in Hands'[u] <=> u # t /\ x \in Hands[u]
    BY <1>5, EmptyFacts, Somewhere
  <2>5. OnePlace(Lists', out', Hands')
    <3>1. \A d, e \in Classes : \A b \in Lists'[d] : b \notin out'[e]
      BY <2>1, <2>2, <2>3 DEF OnePlace
    <3>2. \A d, e \in Classes : d # e => \A b \in Lists'[d] : b \notin Lists'[e]
      BY <2>1, <2>2 DEF OnePlace
    <3>3. \A d, e \in Classes : d # e => \A b \in out'[d] : b \notin out'[e]
      BY <2>1, <2>3 DEF OnePlace
    <3>4. \A u \in Threads, d \in Classes : \A b \in Hands'[u] : b \notin Lists'[d] /\ b \notin out'[d]
      BY <2>1, <2>2, <2>3, <2>4 DEF OnePlace
    <3>5. \A u, w \in Threads : u # w => \A b \in Hands'[u] : b \notin Hands'[w]
      BY <2>1, <2>4 DEF OnePlace
    <3> QED BY <3>1, <3>2, <3>3, <3>4, <3>5 DEF OnePlace
  <2>6. \A x : Places(Lists', out', Hands', x) <=> Places(Lists, out, Hands, x)
    BY <2>2, <2>3, <2>4 DEF Places
  <2> QED BY <2>5, <2>6
<1>8. Apart' /\ AllBlocks' = AllBlocks
  BY <1>3, <1>5, <1>6, <1>7, EmptyFacts, Somewhere DEF Sound, Apart
<1>9. SameSpans
  BY <1>4 DEF SameSpans
<1>10. TypeOK'
  <2>1. centralFreeList' \in [Classes -> Seq(Nat)]
    BY <1>4 DEF Sound, TypeOK
  <2> QED BY <1>4, <1>5, <2>1 DEF Sound, TypeOK
<1> QED BY <1>4, <1>8, <1>9, <1>10, MoveStep DEF Sound

(* A tracker is updated and its span stays.                                *)
LEMMA UpdateSound ==
  ASSUME Sound, NEW t \in Threads, NEW k \in DOMAIN call[t].counts, updateSpanFreeCount(t, k), ~ givenBack'
  PROVE  Sound'
<1>1. /\ UNCHANGED <<live, centralFreeList, out>>
      /\ spanTrackers' = [spanTrackers EXCEPT ![k].freeCount = spanTrackers[k].freeCount + call[t].counts[k]]
      /\ call' = [call EXCEPT ![t].counts = [j \in DOMAIN @ \ {k} |-> @[j]]]
      /\ call[t].op = "delayed"
  BY DEF updateSpanFreeCount
<1>2. PICK x \in CallRecord, S \in SUBSET Nat :
        /\ x = call[t] /\ x.counts \in [S -> Nat] /\ x.class \in Classes /\ x.chain = <<>>
  <2>1. PICK S \in SUBSET Nat : call[t].counts \in [S -> Nat]
    BY CallFacts DEF Sound, Counts
  <2> QED BY <1>1, <2>1, CallFacts DEF Sound
<1>3. PICK n \in Counts : n = [j \in DOMAIN call[t].counts \ {k} |-> call[t].counts[j]]
  <2>1. [j \in DOMAIN call[t].counts \ {k} |-> call[t].counts[j]] \in [S \ {k} -> Nat] /\ S \ {k} \in SUBSET Nat
    BY <1>2
  <2> QED BY <2>1 DEF Counts
<1>4. PICK r : r = [x EXCEPT !.counts = n]
  OBVIOUS
<1>5. r \in CallRecord /\ r.op = x.op /\ r.class = x.class /\ r.chain = x.chain
  BY <1>2, <1>3, <1>4, CountsLeft
<1>6. call' = [call EXCEPT ![t] = r]
  BY <1>1, <1>2, <1>3, <1>4
<1>7. /\ call' \in [Threads -> CallRecord]
      /\ \A u \in Threads : call'[u].op # "none" => call'[u].class \in Classes
      /\ \A u \in Threads : call'[u].chain # <<>> => call'[u].op \in {"returnLock", "return"}
      /\ \A u \in Threads : call'[u] = IF u = t THEN r ELSE call[u]
  BY <1>2, <1>5, <1>6, CallType DEF Sound
<1>8. spanTrackers' \in Seq(Tracker) /\ SameSpans
  <2>0. spanTrackers \in Seq(Tracker)
    BY DEF Sound, TypeOK
  <2>1. PICK m \in Nat : spanTrackers \in [1 .. m -> Tracker] /\ DOMAIN spanTrackers = 1 .. m
    BY <2>0
  <2>2. CASE k \notin 1 .. m
    <3>1. spanTrackers' = spanTrackers
      BY <1>1, <2>1, <2>2
    <3> QED BY <3>1 DEF SameSpans, Sound, TypeOK
  <2>3. CASE k \in 1 .. m
    <3>1. PICK y \in Tracker : y = spanTrackers[k]
      BY <2>1, <2>3
    <3>2. PICK i \in Int : i = spanTrackers[k].freeCount + call[t].counts[k]
      <4>1. call[t].counts[k] \in Nat
        BY <1>2
      <4>2. spanTrackers[k].freeCount \in Int
        BY <3>1 DEF Tracker
      <4> QED BY <4>1, <4>2
    <3>3. PICK z : z = [y EXCEPT !.freeCount = i]
      OBVIOUS
    <3>4. z \in Tracker /\ z.span = y.span /\ z.numPages = y.numPages /\ z.blockCount = y.blockCount
      BY <3>3, FreeCountSet
    <3>5. spanTrackers' = [spanTrackers EXCEPT ![k] = z]
      BY <1>1, <3>1, <3>2, <3>3
    <3>6. spanTrackers' \in [1 .. m -> Tracker] /\ DOMAIN spanTrackers' = 1 .. m
      BY <2>1, <3>4, <3>5
    <3>7. \A j \in 1 .. m : spanTrackers'[j] = IF j = k THEN z ELSE spanTrackers[j]
      BY <2>1, <3>5
    <3> QED BY <2>1, <3>1, <3>4, <3>6, <3>7 DEF SameSpans
  <2> QED BY <2>2, <2>3
<1>9. TypeOK'
  BY <1>1, <1>7, <1>8 DEF Sound, TypeOK
<1>10. \A u \in Threads : call'[u].chain = call[u].chain
  BY <1>2, <1>5, <1>7
<1> QED BY <1>1, <1>8, <1>9, <1>10, QuietStep

(* What the page cache promises of a span it hands out.                    *)
LEMMA AllocFacts ==
  ASSUME Sound, NEW s \in Pages, NEW n \in Nat \ {0}, PageLevel!Alloc(n, s)
  PROVE  /\ s \in Nat /\ s \notin DOMAIN live /\ DOMAIN live' = DOMAIN live \cup {s} /\ live'[s] = n
         /\ \A x \in DOMAIN live : live'[x] = live[x]
         /\ \A x \in DOMAIN live : \A i \in x .. (x + live[x] - 1) : i \notin s .. (s + n - 1)
         /\ DOMAIN live' \subseteq Nat /\ live' \in [DOMAIN live' -> Nat \ {0}]
<1>1. PICK m \in n .. (n + 0) :
        /\ PageLevel!Overlapping(s, m) = {}
        /\ live' = [x \in DOMAIN live \cup {s} |-> IF x = s THEN m ELSE live[x]]
  BY DEF PageLevel!Alloc
<1>2. m = n /\ s \in Nat
  BY <1>1 DEF Pages
<1>3. \A x \in DOMAIN live : (x .. (x + live[x] - 1)) \cap (s .. (s + n - 1)) = {}
  BY <1>1, <1>2 DEF PageLevel!Overlapping, PageLevel!Run
<1>4. DOMAIN live \subseteq Nat /\ \A x \in DOMAIN live : live[x] \in Nat \ {0}
  BY DEF Sound, TypeOK
<1>5. s \notin DOMAIN live
  <2> SUFFICES ASSUME s \in DOMAIN live PROVE FALSE
    OBVIOUS
  <2>1. s \in s .. (s + live[s] - 1) /\ s \in s .. (s + n - 1)
    BY <1>2, <1>4
  <2> QED BY <1>3, <2>1
<1>6. /\ DOMAIN live' = DOMAIN live \cup {s} /\ live'[s] = n
      /\ \A x \in DOMAIN live : live'[x] = live[x]
  BY <1>1, <1>2, <1>5
<1>7. DOMAIN live' \subseteq Nat /\ live' \in [DOMAIN live' -> Nat \ {0}]
  BY <1>1, <1>2, <1>4
<1> QED BY <1>2, <1>3, <1>5, <1>6, <1>7

(* The blocks of a span as the first, that is lent, and a list of others.  *)
LEMMA CutFacts ==
  ASSUME NEW s \in Nat, NEW c \in Classes, NEW q, q = [i \in 1 .. (BlockNum(c) - 1) |-> Block(s, c, i)]
  PROVE  /\ q \in Seq(Nat) /\ IsInjective(q) /\ Block(s, c, 0) \in Nat /\ Block(s, c, 0) \notin ToSet(q)
         /\ CutFrom(s, c) = ToSet(q) \cup {Block(s, c, 0)}
<1>1. PICK n \in Nat \ {0} : n = BlockNum(c)
  BY BlockNumFacts
<1>2. \A i \in 0 .. n - 1 : Block(s, c, i) \in Nat /\ Block(s, c, i) \in CutFrom(s, c)
  BY <1>1, BlockInside DEF CutFrom
<1>3. q \in [1 .. n - 1 -> Nat] /\ q \in Seq(Nat) /\ Len(q) = n - 1 /\ \A i \in 1 .. n - 1 : q[i] = Block(s, c, i)
  BY <1>1, <1>2
<1>4. \A i, j \in Nat : Block(s, c, i) = Block(s, c, j) => i = j
  BY BlocksDiffer
<1>5. \A x : x \in ToSet(q) <=> \E i \in 1 .. n - 1 : Block(s, c, i) = x
  BY <1>3, ToSetFacts
<1>6. IsInjective(q)
  BY <1>3, <1>4 DEF IsInjective
<1>7. Block(s, c, 0) \notin ToSet(q)
  BY <1>4, <1>5
<1>8. ASSUME NEW x PROVE x \in CutFrom(s, c) <=> x \in ToSet(q) \/ x = Block(s, c, 0)
  <2>1. x \in CutFrom(s, c) <=> \E i \in 0 .. n - 1 : x = Block(s, c, i)
    BY <1>1 DEF CutFrom
  <2>2. \A i : i \in 0 .. n - 1 <=> i = 0 \/ i \in 1 .. n - 1
    OBVIOUS
  <2> QED BY <1>5, <2>1, <2>2
<1>9. 0 \in 0 .. n - 1
  OBVIOUS
<1> QED BY <1>2, <1>3, <1>6, <1>7, <1>8, <1>9

(* A span is cut.                                                          *)
LEMMA FetchFromPageCacheSound ==
  ASSUME Sound, NEW t \in Threads, FetchFromPageCache(t)
  PROVE  Sound'
<1>1. PICK c \in Classes : c = call[t].class /\ call[t].op = "fetch" /\ call[t].chain = <<>>
  BY CallFacts DEF FetchFromPageCache, Sound
<1>2. PICK s \in Pages :
        /\ PageLevel!Alloc(SpanPages[c], s)
        /\ out' = [out EXCEPT ![c] = @ \cup {Block(s, c, 0)}]
        /\ IF BlockNum(c) > 1
           THEN /\ centralFreeList' =
                     [centralFreeList EXCEPT ![c] = [i \in 1 .. (BlockNum(c) - 1) |-> Block(s, c, i)]]
                /\ spanTrackers' =
                     Append(spanTrackers, [span |-> s, numPages |-> SpanPages[c],
                                           blockCount |-> BlockNum(c), freeCount |-> BlockNum(c) - 1])
           ELSE UNCHANGED <<centralFreeList, spanTrackers>>
  BY <1>1, Zenon DEF FetchFromPageCache, BlockNum
<1>3. centralFreeList[c] = <<>> /\ call' = [call EXCEPT ![t] = Idle]
  BY <1>1 DEF FetchFromPageCache, Release
<1>4. PICK m \in Nat \ {0}, n \in Nat \ {0} : m = SpanPages[c] /\ n = BlockNum(c)
  BY ClassFacts, BlockNumFacts
<1>5. /\ s \in Nat /\ s \notin DOMAIN live /\ DOMAIN live' = DOMAIN live \cup {s} /\ live'[s] = m
      /\ \A x \in DOMAIN live : live'[x] = live[x]
      /\ \A x \in DOMAIN live : \A i \in x .. (x + live[x] - 1) : i \notin s .. (s + m - 1)
      /\ DOMAIN live' \subseteq Nat /\ live' \in [DOMAIN live' -> Nat \ {0}]
  BY <1>2, <1>4, AllocFacts
<1>6. PICK q, b : q = [i \in 1 .. (BlockNum(c) - 1) |-> Block(s, c, i)] /\ b = Block(s, c, 0)
  OBVIOUS
<1>7. /\ q \in Seq(Nat) /\ IsInjective(q) /\ b \in Nat /\ b \notin ToSet(q)
      /\ CutFrom(s, c) = ToSet(q) \cup {b}
  BY <1>5, <1>6, CutFacts
<1>8. \A x \in CutFrom(s, c) : (x \div PageBytes) \in s .. (s + m - 1)
  BY <1>4, <1>5, BlockInside
<1>9. \A x \in AllBlocks : (x \div PageBytes) \notin s .. (s + m - 1)
  BY <1>5 DEF Sound, Backed, InLiveSpan
<1>10. centralFreeList' = [centralFreeList EXCEPT ![c] = q]
  <2>1. CASE n > 1
    BY <1>2, <1>4, <1>6, <2>1
  <2>2. CASE ~ (n > 1)
    <3>1. q = <<>>
      <4>1. n = 1 /\ Len(q) = 0
        BY <1>4, <1>6, <1>7, <2>2
      <4> QED BY <1>7, <4>1
    <3>2. centralFreeList' = centralFreeList
      BY <1>2, <1>4, <2>2
    <3> QED BY <1>3, <3>1, <3>2 DEF Sound, TypeOK
  <2> QED BY <2>1, <2>2
<1>11. /\ \A d \in Classes : centralFreeList'[d] = IF d = c THEN q ELSE centralFreeList[d]
       /\ \A d \in Classes : out'[d] = IF d = c THEN out[d] \cup {b} ELSE out[d]
       /\ centralFreeList' \in [Classes -> Seq(Nat)] /\ out' \in [Classes -> SUBSET Nat]
  BY <1>2, <1>6, <1>7, <1>10 DEF Sound, TypeOK
<1>12. \A u \in Threads : call'[u].chain = call[u].chain
  BY <1>1, <1>3, ReleaseFacts DEF Sound
<1>13. /\ \A d \in Classes : \A x : x \in Lists'[d] <=> x \in Lists[d] \/ (d = c /\ x \in ToSet(q))
       /\ \A d \in Classes : \A x : x \in out'[d] <=> x \in out[d] \/ (d = c /\ x = b)
       /\ \A u \in Threads : Hands'[u] = Hands[u]
       /\ \A x : Places(Lists, out, Hands, x) => x # b /\ x \notin ToSet(q)
  <2>1. \A d \in Classes : \A x : x \in Lists'[d] <=> x \in Lists[d] \/ (d = c /\ x \in ToSet(q))
    <3>1. \A x : x \notin Lists[c]
      BY <1>3, EmptyFacts, Somewhere
    <3>2. \A d \in Classes : Lists'[d] = IF d = c THEN ToSet(q) ELSE Lists[d]
      BY <1>11, Somewhere
    <3> QED BY <3>1, <3>2
  <2>2. \A d \in Classes : \A x : x \in out'[d] <=> x \in out[d] \/ (d = c /\ x = b)
    BY <1>11
  <2>3. \A u \in Threads : Hands'[u] = Hands[u]
    BY <1>12, Somewhere
  <2>4. \A x : Places(Lists, out, Hands, x) => x # b /\ x \notin ToSet(q)
    BY <1>7, <1>8, <1>9, Somewhere
  <2> QED BY <2>1, <2>2, <2>3, <2>4
<1>14. \A x : x \in AllBlocks' <=> x \in AllBlocks \/ x \in CutFrom(s, c)
  <2>1. \A x : Places(Lists', out', Hands', x) <=> Places(Lists, out, Hands, x) \/ x = b \/ x \in ToSet(q)
    BY <1>13 DEF Places
  <2> QED BY <1>7, <2>1, Somewhere
<1>15. Apart'
  <2>1. OnePlace(Lists, out, Hands)
    BY DEF Sound, Apart
  <2>2. /\ \A d \in Classes : \A x : x \in Lists[d] \/ x \in out[d] => x # b /\ x \notin ToSet(q)
        /\ \A u \in Threads : \A x : x \in Hands[u] => x # b /\ x \notin ToSet(q)
    BY <1>13 DEF Places
  <2>3. \A d, e \in Classes : \A x \in Lists'[d] : x \notin out'[e]
    BY <1>7, <1>13, <2>1, <2>2 DEF OnePlace
  <2>4. \A d, e \in Classes : d # e => \A x \in Lists'[d] : x \notin Lists'[e]
    BY <1>13, <2>1, <2>2 DEF OnePlace
  <2>5. \A d, e \in Classes : d # e => \A x \in out'[d] : x \notin out'[e]
    BY <1>13, <2>1, <2>2 DEF OnePlace
  <2>6. \A u \in Threads, d \in Classes : \A x \in Hands'[u] : x \notin Lists'[d] /\ x \notin out'[d]
    BY <1>13, <2>1, <2>2 DEF OnePlace
  <2>7. \A u, w \in Threads : u # w => \A x \in Hands'[u] : x \notin Hands'[w]
    BY <1>13, <2>1 DEF OnePlace
  <2>8. OnePlace(Lists', out', Hands')
    BY <2>3, <2>4, <2>5, <2>6, <2>7 DEF OnePlace
  <2> QED BY <1>7, <1>11, <1>12, <2>8 DEF Sound, Apart
<1>16. SpansApart'
  BY <1>5 DEF Sound, SpansApart
<1>17. Backed'
  <2> SUFFICES ASSUME NEW x, x \in AllBlocks'
               PROVE  \E y \in DOMAIN live' : (x \div PageBytes) \in y .. (y + live'[y] - 1)
    BY DEF Backed, InLiveSpan
  <2>1. CASE x \in AllBlocks
    BY <1>5, <2>1 DEF Sound, Backed, InLiveSpan
  <2>2. CASE x \in CutFrom(s, c)
    BY <1>5, <1>8, <2>2
  <2> QED BY <1>14, <2>1, <2>2
<1>18. PICK z \in Tracker :
         /\ z = [span |-> s, numPages |-> m, blockCount |-> n, freeCount |-> n - 1]
         /\ z.span = s /\ z.numPages = m /\ z.blockCount = n
  <2>1. s \in Nat /\ m \in Nat /\ n \in Nat /\ n - 1 \in Int
    BY <1>5
  <2>2. [span |-> s, numPages |-> m, blockCount |-> n, freeCount |-> n - 1] \in Tracker
    BY <2>1 DEF Tracker
  <2> QED BY <2>2
<1>19. PICK h \in Nat : spanTrackers \in [1 .. h -> Tracker] /\ DOMAIN spanTrackers = 1 .. h
  <2>1. spanTrackers \in Seq(Tracker)
    BY DEF Sound, TypeOK
  <2> QED BY <2>1
<1>20. /\ spanTrackers' \in Seq(Tracker)
       /\ \A k \in 1 .. h : spanTrackers'[k] = spanTrackers[k]
       /\ \A k \in DOMAIN spanTrackers' : k \in 1 .. h \/ spanTrackers'[k] = z
  <2>1. spanTrackers \in Seq(Tracker) /\ Len(spanTrackers) = h
    BY <1>19 DEF Sound, TypeOK
  <2>2. CASE n > 1
    <3>1. spanTrackers' = Append(spanTrackers, z)
      BY <1>2, <1>4, <1>18, <2>2
    <3> QED BY <2>1, <3>1
  <2>3. CASE ~ (n > 1)
    BY <1>2, <1>4, <1>19, <2>1, <2>3
  <2> QED BY <2>2, <2>3
<1>21. TypeOK'
  BY <1>3, <1>5, <1>11, <1>20, ReleaseFacts DEF Sound, TypeOK
<1>22. TrackersExact'
  <2> SUFFICES ASSUME NEW k \in DOMAIN spanTrackers' PROVE TrackerExact(k)'
    BY DEF TrackersExact
  <2>1. CASE k \in 1 .. h
    <3>1. PICK y \in Tracker : y = spanTrackers[k] /\ y = spanTrackers'[k]
      BY <1>19, <1>20, <2>1
    <3>0. TrackerExact(k)
      BY <1>19, <2>1 DEF Sound, TrackersExact
    <3>2. PICK d \in Classes :
            /\ y.span \in DOMAIN live /\ y.numPages = live[y.span] /\ y.blockCount = BlockNum(d)
            /\ {x \in AllBlocks : Covers(y, x)} = CutFrom(y.span, d)
      BY <3>0, <3>1 DEF TrackerExact
    <3>3. \A x \in CutFrom(s, c) : ~ Covers(y, x)
      BY <1>5, <1>8, <3>2 DEF Covers
    <3>4. {x \in AllBlocks' : Covers(y, x)} = {x \in AllBlocks : Covers(y, x)}
      BY <1>14, <3>3
    <3>5. y.span \in DOMAIN live' /\ y.numPages = live'[y.span]
      BY <1>5, <3>2
    <3> QED BY <3>1, <3>2, <3>4, <3>5 DEF TrackerExact, BlockNum, CutFrom, Block, Covers
  <2>2. CASE spanTrackers'[k] = z
    <3>1. z.span = s /\ z.numPages = m /\ z.blockCount = n
      BY <1>18
    <3>2. \A x : Covers(z, x) <=> (x \div PageBytes) \in s .. (s + m - 1)
      BY <3>1 DEF Covers
    <3>3. {x \in AllBlocks' : Covers(z, x)} = CutFrom(s, c)
      BY <1>8, <1>9, <1>14, <3>2
    <3> QED BY <1>4, <1>5, <2>2, <3>1, <3>3 DEF TrackerExact, BlockNum, CutFrom, Block, Covers
  <2> QED BY <1>20, <2>1, <2>2
<1> QED BY <1>15, <1>16, <1>17, <1>21, <1>22 DEF Sound

-----------------------------------------------------------------------------
(* At first there are no spans and no blocks.                              *)
LEMMA InitInv == Init => Inv
<1> SUFFICES ASSUME Init PROVE Inv
  OBVIOUS
<1>1. /\ live = [s \in {} |-> 0] /\ centralFreeList = [c \in Classes |-> <<>>] /\ spanTrackers = <<>>
      /\ call = [t \in Threads |-> Idle] /\ out = [c \in Classes |-> {}] /\ givenBack = FALSE
  BY DEF Init
<1>2. TypeOK
  <2>1. DOMAIN live \subseteq Nat /\ live \in [DOMAIN live -> Nat \ {0}]
    BY <1>1
  <2>2. centralFreeList \in [Classes -> Seq(Nat)] /\ spanTrackers \in Seq(Tracker) /\ out \in [Classes -> SUBSET Nat]
    BY <1>1, EmptyFacts
  <2> QED BY <1>1, <2>1, <2>2, IdleType DEF TypeOK
<1>3. /\ \A c \in Classes : centralFreeList[c] = <<>> /\ out[c] = {}
      /\ \A t \in Threads : call[t].chain = <<>>
  BY <1>1, IdleType
<1>4. Apart
  BY <1>3, EmptyFacts, Somewhere DEF Apart, OnePlace
<1>5. \A x : x \notin AllBlocks
  BY <1>3, EmptyFacts, Somewhere DEF Places
<1>6. SpansApart /\ Backed /\ TrackersExact
  BY <1>1, <1>5 DEF SpansApart, Backed, TrackersExact
<1> QED BY <1>1, <1>2, <1>4, <1>6 DEF Inv, Sound

(* Every step keeps the invariant.                                         *)
LEMMA NextInv == Inv /\ [Next]_vars => Inv'
<1> SUFFICES ASSUME Inv, [Next]_vars PROVE Inv'
  OBVIOUS
<1>1. givenBack' \in BOOLEAN /\ (givenBack => givenBack')
  BY DEF Inv, Next, Step, vars, Acquire, FetchFromList, FetchFromPageCache, FetchFails, ReturnLink,
         updateSpanFreeCount, ReturnEnd, FetchCall, ReturnCall
<1>2. ASSUME ~ givenBack' PROVE Sound'
  <2>1. Sound
    BY <1>1, <1>2 DEF Inv
  <2>2. ASSUME NEW t \in Threads, Step(t) PROVE Sound'
    <3>1. CASE Acquire(t, "fetchLock", "fetch") \/ Acquire(t, "returnLock", "return")
      BY <2>1, <3>1, AcquireSound
    <3>2. CASE FetchFromList(t)
      BY <2>1, <3>2, FetchFromListSound
    <3>3. CASE FetchFromPageCache(t)
      BY <2>1, <3>3, FetchFromPageCacheSound
    <3>4. CASE FetchFails(t) \/ ReturnEnd(t)
      BY <2>1, <3>4, EndSound
    <3>5. CASE ReturnLink(t)
      BY <2>1, <3>5, ReturnLinkSound
    <3>6. CASE \E k \in DOMAIN call[t].counts : updateSpanFreeCount(t, k)
      BY <1>2, <2>1, <3>6, UpdateSound
    <3> QED BY <2>2, <3>1, <3>2, <3>3, <3>4, <3>5, <3>6 DEF Step
  <2>3. ASSUME NEW t \in Threads, NEW c \in Classes, FetchCall(t, c) PROVE Sound'
    BY <2>1, <2>3, FetchCallSound
  <2>4. ASSUME NEW t \in Threads, NEW c \in Classes, NEW chain \in Chains(c), ReturnCall(t, c, chain) PROVE Sound'
    BY <2>1, <2>4, ReturnCallSound
  <2>5. CASE UNCHANGED vars
    <3>1. TypeOK' /\ SameSpans /\ UNCHANGED <<live, centralFreeList, out>>
      BY <2>1, <2>5 DEF vars, Sound, TypeOK, SameSpans
    <3>2. \A t \in Threads : call'[t].chain = call[t].chain
      BY <2>5 DEF vars
    <3> QED BY <2>1, <3>1, <3>2, QuietStep
  <2> QED BY <2>2, <2>3, <2>4, <2>5 DEF Next
<1> QED BY <1>1, <1>2 DEF Inv

(* The invariant holds in every state.                                     *)
THEOREM InvHolds == Spec => []Inv
BY InitInv, NextInv, PTL DEF Spec

(* Until a span is given back no block cut from a span is lost, is in two  *)
(* places or twice on a list, whatever the threads fetch and return.       *)
THEOREM BlocksStay == Spec => []BlocksConserved
<1>1. ASSUME Inv PROVE BlocksConserved
  <2> SUFFICES ASSUME Sound PROVE BlocksConserved
    BY <1>1 DEF Inv, BlocksConserved
  <2>1. ASSUME NEW c \in Classes
        PROVE  /\ IsInjective(centralFreeList[c]) /\ ToSet(centralFreeList[c]) \cap out[c] = {}
               /\ \A t \in Threads : Returning(t) \cap (ToSet(centralFreeList[c]) \cup out[c]) = {}
    BY Somewhere DEF Sound, Apart, OnePlace, Returning
  <2>2. \A t, u \in Threads : t # u => Returning(t) \cap Returning(u) = {}
    BY Somewhere DEF Sound, Apart, OnePlace, Returning
  <2>3. ASSUME NEW k \in DOMAIN spanTrackers
        PROVE  Cardinality({b \in AllBlocks : Covers(spanTrackers[k], b)}) = spanTrackers[k].blockCount
    <3>1. PICK c \in Classes :
            /\ spanTrackers[k].span \in DOMAIN live /\ spanTrackers[k].blockCount = BlockNum(c)
            /\ {b \in AllBlocks : Covers(spanTrackers[k], b)} = CutFrom(spanTrackers[k].span, c)
      BY DEF Sound, TrackersExact, TrackerExact
    <3>2. spanTrackers[k].span \in Nat
      BY <3>1 DEF Sound, TypeOK
    <3> QED BY <3>1, <3>2, CutCounted
  <2> QED BY <2>1, <2>2, <2>3 DEF BlocksConserved
<1> QED BY <1>1, InvHolds, PTL
=============================================================================
