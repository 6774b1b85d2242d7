-------------------------- MODULE PageCacheProofs --------------------------
(***************************************************************************)
(* Proofs about PageCache, and about PageCacheSteps, for every address     *)
(* space, budget and granularity.                                          *)
(*                                                                         *)
(* The first part takes an operation as one action.  Inv, the conjunction  *)
(* of the structural invariants and the exactness of the counter, is       *)
(* inductive; the other invariants and the refinement of RangeAllocator    *)
(* follow from it.                                                         *)
(*                                                                         *)
(* The second part takes the operations apart.  StepInv is inductive also  *)
(* after an operation has thrown.  It speaks of the spans somebody can     *)
(* still reach: those the callers hold, those in a bin, those the page map *)
(* leads to and those of the operation under way.  What an exception       *)
(* leaves behind (a span in no bin that nobody holds, a mapping without a  *)
(* span) is never touched again.                                           *)
(***************************************************************************)
EXTENDS PageCacheSteps, FiniteSetTheorems, TLAPS

(* The inductive invariant.  The page map and the free lists determine     *)
(* which neighbours deallocateSpan finds; the tiling of the mappings keeps *)
(* a merge inside its mapping; the counter needs the free pages to be      *)
(* exactly those of the listed spans.                                      *)
Inv == TypeOK /\ PageMapExact /\ FreeListsExact /\ OriginsExact /\ CachedExact

-----------------------------------------------------------------------------
(* Lemmas about runs, spans and the free pages.                            *)

LEMMA RunSize ==
  ASSUME NEW s \in Nat, NEW n \in Nat
  PROVE  IsFiniteSet(Run(s, n)) /\ Cardinality(Run(s, n)) = n
BY FS_Interval DEF Run

(* What Inv says of one live span.                                         *)
LEMMA SpanFacts ==
  ASSUME Inv, NEW s \in DOMAIN spans
  PROVE  /\ s \in Pages /\ s \in Nat
         /\ spans[s] \in SpanRecord
         /\ spans[s].numPages \in Sizes /\ spans[s].numPages \in Nat \ {0}
         /\ spans[s].originAddr \in Pages /\ spans[s].originPages \in Sizes
         /\ s \in PagesOf(s) /\ pageMap[s] = s
         /\ End(s) - 1 \in PagesOf(s)
         /\ PagesOf(s) \subseteq Pages
         /\ \A p \in PagesOf(s) : p \in DOMAIN pageMap /\ pageMap[p] = s
BY PageCacheAssumption, SMTT(30)
DEF Inv, TypeOK, PageMapExact, SpanRecord, Pages, Sizes, PagesOf, Run, End

LEMMA FreePagesFinite ==
  ASSUME Inv
  PROVE  IsFiniteSet(FreePages) /\ Cardinality(FreePages) \in Nat
<1>1. IsFiniteSet(Pages)
  BY FS_Interval, PageCacheAssumption DEF Pages
<1>2. FreePages \subseteq Pages
  BY DEF FreePages, Inv, TypeOK
<1> QED BY <1>1, <1>2, FS_Subset, FS_CardinalityType

(* A span handed out from a free list leaves the free pages without the n  *)
(* pages at its front, and the counter follows.                            *)
LEMMA FreePagesTake ==
  ASSUME Inv, running, NEW s \in Pages, NEW n \in Sizes,
         Run(s, n) \subseteq FreePages,
         FreePages' = FreePages \ Run(s, n),
         cachedFreePages' = cachedFreePages - n
  PROVE  CachedExact' /\ cachedFreePages' \in Nat
<1>1. IsFiniteSet(FreePages) /\ cachedFreePages = Cardinality(FreePages)
  BY FreePagesFinite DEF Inv, CachedExact
<1>2. IsFiniteSet(Run(s, n)) /\ Cardinality(Run(s, n)) = n
  BY RunSize, PageCacheAssumption DEF Pages, Sizes
<1>3. FreePages \cap Run(s, n) = Run(s, n)
  OBVIOUS
<1>4. /\ IsFiniteSet(FreePages \ Run(s, n))
      /\ Cardinality(FreePages \ Run(s, n)) = cachedFreePages - n
  <2>1. /\ IsFiniteSet(FreePages \ Run(s, n))
        /\ Cardinality(FreePages \ Run(s, n))
             = Cardinality(FreePages) - Cardinality(FreePages \cap Run(s, n))
    BY <1>1, FS_Difference, Zenon
  <2> QED BY <1>1, <1>2, <1>3, <2>1
<1>5. cachedFreePages - n \in Nat
  BY <1>4, FS_CardinalityType
<1> QED BY <1>4, <1>5 DEF CachedExact

-----------------------------------------------------------------------------
(* allocateSpan preserves Inv.                                             *)

LEMMA TakeExactInv ==
  ASSUME Inv, running, UNCHANGED running,
         NEW n \in Sizes, NEW s \in Pages, NEW large \in BOOLEAN,
         TakeExact(n, s, large)
  PROVE  Inv'
<1>1. /\ s \in DOMAIN spans
      /\ spans[s].inFreeList
      /\ spans[s].numPages = n
      /\ s \in freeSpans[n]
  BY DEF TakeExact, Inv, FreeListsExact
<1>2. /\ DOMAIN spans' = DOMAIN spans
      /\ \A t \in DOMAIN spans :
           /\ spans'[t].numPages = spans[t].numPages
           /\ spans'[t].originAddr = spans[t].originAddr
           /\ spans'[t].originPages = spans[t].originPages
           /\ spans'[t].inFreeList = (t # s /\ spans[t].inFreeList)
           /\ spans'[t] \in SpanRecord
  <2>1. \A t \in DOMAIN spans : spans[t] \in SpanRecord
    BY DEF Inv, TypeOK
  <2>2. spans' = [spans EXCEPT ![s] = [@ EXCEPT !.inFreeList = FALSE, !.isLarge = large]]
    BY DEF TakeExact
  <2> QED BY <1>1, <2>1, <2>2 DEF SpanRecord
<1>3. PageMapExact'
  BY <1>2 DEF Inv, PageMapExact, PagesOf, Run, TakeExact
<1>4. FreeListsExact'
  BY <1>1, <1>2 DEF Inv, TypeOK, FreeListsExact, TakeExact
<1>5. OriginsExact'
  <2>1. \A p \in DOMAIN pageMap : pageMap[p] \in DOMAIN spans
    BY DEF Inv, PageMapExact
  <2> QED BY <1>2, <2>1 DEF Inv, OriginsExact, Run, End, TakeExact
<1>6. CachedExact' /\ cachedFreePages' \in Nat
  <2>1. Run(s, n) \subseteq FreePages
    BY <1>1, SpanFacts DEF FreePages, PagesOf
  <2>2. FreePages' = FreePages \ Run(s, n)
    BY <1>1, <1>2, SpanFacts DEF FreePages, Inv, PageMapExact, PagesOf, TakeExact
  <2>3. cachedFreePages' = cachedFreePages - n
    BY PageCacheAssumption DEF TakeExact, CountAfterTake, Inv, TypeOK, Sizes
  <2> QED BY <2>1, <2>2, <2>3, FreePagesTake
<1>7. TypeOK'
  BY <1>1, <1>2, <1>6 DEF Inv, TypeOK, TakeExact
<1> QED BY <1>3, <1>4, <1>5, <1>6, <1>7 DEF Inv

LEMMA TakeAndSplitInv ==
  ASSUME Inv, running, UNCHANGED running,
         NEW n \in Sizes, NEW k \in Sizes, NEW s \in Pages, NEW large \in BOOLEAN,
         TakeAndSplit(n, k, s, large)
  PROVE  Inv'
<1> DEFINE rest == s + n
<1>1. /\ s \in DOMAIN spans
      /\ spans[s].inFreeList
      /\ spans[s].numPages = k
      /\ s \in freeSpans[k]
      /\ n \in Nat \ {0} /\ k \in Nat /\ n < k /\ s \in Nat
      /\ spans[s] \in SpanRecord
  BY SpanFacts, PageCacheAssumption DEF TakeAndSplit, Inv, FreeListsExact, Sizes
<1>2. /\ \A p \in Run(s, k) : p \in Pages /\ p \in DOMAIN pageMap /\ pageMap[p] = s
      /\ Run(s, k) = Run(s, n) \cup Run(rest, k - n)
      /\ Run(s, n) \cap Run(rest, k - n) = {}
      /\ rest \in Run(s, k) /\ rest # s
  BY <1>1, SpanFacts DEF PagesOf, Run
<1>3. rest \notin DOMAIN spans
  BY <1>2, SpanFacts
<1>4. k - n \in Sizes
  BY <1>1, PageCacheAssumption DEF Sizes
<1>5. /\ DOMAIN spans' = DOMAIN spans \cup {rest}
      /\ spans'[s] = [spans[s] EXCEPT !.numPages = n, !.inFreeList = FALSE, !.isLarge = large]
      /\ spans'[rest] = [spans[s] EXCEPT !.numPages = k - n, !.inFreeList = TRUE,
                                         !.isLarge = FALSE]
      /\ \A t \in DOMAIN spans \ {s} : spans'[t] = spans[t]
  BY <1>1, <1>2, <1>3 DEF TakeAndSplit
<1>6. /\ spans'[s].numPages = n /\ ~ spans'[s].inFreeList
      /\ spans'[s].originAddr = spans[s].originAddr
      /\ spans'[s].originPages = spans[s].originPages
      /\ spans'[rest].numPages = k - n /\ spans'[rest].inFreeList
      /\ spans'[rest].originAddr = spans[s].originAddr
      /\ spans'[rest].originPages = spans[s].originPages
      /\ spans'[s] \in SpanRecord /\ spans'[rest] \in SpanRecord
  <2>1. spans[s] \in SpanRecord /\ n \in Sizes /\ k - n \in Sizes
    BY <1>1, <1>4
  <2>2. FALSE \in BOOLEAN /\ TRUE \in BOOLEAN
    OBVIOUS
  <2>3. /\ spans'[s] \in SpanRecord
        /\ spans'[s].numPages = n /\ spans'[s].inFreeList = FALSE
        /\ spans'[s].originAddr = spans[s].originAddr
        /\ spans'[s].originPages = spans[s].originPages
    BY <1>5, <2>1 DEF SpanRecord
  <2>4. /\ spans'[rest] \in SpanRecord
        /\ spans'[rest].numPages = k - n /\ spans'[rest].inFreeList = TRUE
        /\ spans'[rest].originAddr = spans[s].originAddr
        /\ spans'[rest].originPages = spans[s].originPages
    BY <1>5, <2>1 DEF SpanRecord
  <2> QED BY <2>3, <2>4
<1>7. pageMap' = registerPages(registerPages(pageMap, rest, k - n), s, n)
  BY DEF TakeAndSplit
<1>8. /\ DOMAIN pageMap' = DOMAIN pageMap
      /\ \A p \in DOMAIN pageMap :
           pageMap'[p] = IF p \in Run(rest, k - n) THEN rest ELSE pageMap[p]
  BY <1>2, <1>7 DEF registerPages
<1>9. PageMapExact'
  <2>1. ASSUME NEW t \in DOMAIN spans', NEW p \in PagesOf(t)'
        PROVE  p \in DOMAIN pageMap' /\ pageMap'[p] = t
    <3>1. CASE t = s
      BY <3>1, <2>1, <1>2, <1>6, <1>8 DEF PagesOf
    <3>2. CASE t = rest
      BY <3>2, <2>1, <1>2, <1>6, <1>8 DEF PagesOf
    <3>3. CASE t \in DOMAIN spans \ {s}
      <4>1. p \in PagesOf(t)
        BY <3>3, <2>1, <1>5 DEF PagesOf
      <4>2. p \in DOMAIN pageMap /\ pageMap[p] = t
        BY <3>3, <4>1, SpanFacts
      <4>3. p \notin Run(rest, k - n)
        BY <4>2, <3>3, <1>2
      <4> QED BY <4>2, <4>3, <1>8
    <3> QED BY <2>1, <3>1, <3>2, <3>3, <1>5
  <2>2. ASSUME NEW p \in DOMAIN pageMap'
        PROVE  pageMap'[p] \in DOMAIN spans' /\ p \in PagesOf(pageMap[p])'
    <3>1. p \in DOMAIN pageMap /\ pageMap[p] \in DOMAIN spans /\ p \in PagesOf(pageMap[p])
      BY <1>8, <2>2 DEF Inv, PageMapExact
    <3>2. CASE p \in Run(rest, k - n)
      BY <3>1, <3>2, <1>5, <1>6, <1>8 DEF PagesOf
    <3>3. CASE p \notin Run(rest, k - n) /\ pageMap[p] = s
      BY <3>1, <3>3, <1>1, <1>2, <1>5, <1>6, <1>8 DEF PagesOf
    <3>4. CASE p \notin Run(rest, k - n) /\ pageMap[p] # s
      BY <3>1, <3>4, <1>5, <1>8 DEF PagesOf
    <3> QED BY <3>2, <3>3, <3>4
  <2> QED BY <2>1, <2>2 DEF PageMapExact
<1>10. FreeListsExact'
  <2>1. RemainderBin(k, n) = k - n
    BY DEF RemainderBin
  <2>2. \A j \in Sizes : freeSpans'[j] = (freeSpans[j] \ (IF j = k THEN {s} ELSE {}))
                                            \cup (IF j = k - n THEN {rest} ELSE {})
    BY <2>1 DEF TakeAndSplit
  <2>3. ASSUME NEW j \in Sizes, NEW t
        PROVE  t \in freeSpans'[j] <=>
                 t \in DOMAIN spans' /\ spans'[t].inFreeList /\ spans'[t].numPages = j
    <3>1. t \in freeSpans[j] <=>
            t \in DOMAIN spans /\ spans[t].inFreeList /\ spans[t].numPages = j
      BY DEF Inv, FreeListsExact
    <3>2. CASE t = s
      BY <3>2, <2>2, <1>1, <1>2, <1>6, <3>1
    <3>3. CASE t = rest
      BY <3>3, <2>2, <1>3, <1>5, <1>6, <3>1
    <3>4. CASE t # s /\ t # rest
      BY <3>4, <2>2, <1>5, <3>1
    <3> QED BY <3>2, <3>3, <3>4
  <2>4. ASSUME NEW j \in Sizes
        PROVE  freeSpans'[j] = {t \in DOMAIN spans' :
                                  spans'[t].inFreeList /\ spans'[t].numPages = j}
    BY <2>3
  <2> QED BY <2>4 DEF FreeListsExact
<1>11. OriginsExact'
  <2>1. osPages' = DOMAIN pageMap'
    BY <1>8 DEF Inv, OriginsExact, TakeAndSplit
  <2>2. systemAllocs' = {<<spans'[t].originAddr, spans'[t].originPages>> : t \in DOMAIN spans'}
    <3>1. systemAllocs' = {<<spans[t].originAddr, spans[t].originPages>> : t \in DOMAIN spans}
      BY DEF Inv, OriginsExact, TakeAndSplit
    <3>2. \A t \in DOMAIN spans : /\ spans'[t].originAddr = spans[t].originAddr
                                  /\ spans'[t].originPages = spans[t].originPages
      BY <1>5, <1>6
    <3>3. ASSUME NEW a
          PROVE  a \in {<<spans[t].originAddr, spans[t].originPages>> : t \in DOMAIN spans} <=>
                 a \in {<<spans'[t].originAddr, spans'[t].originPages>> : t \in DOMAIN spans'}
      <4>1. ASSUME NEW t \in DOMAIN spans, a = <<spans[t].originAddr, spans[t].originPages>>
            PROVE  \E u \in DOMAIN spans' : a = <<spans'[u].originAddr, spans'[u].originPages>>
        BY <4>1, <1>5, <3>2
      <4>2. ASSUME NEW t \in DOMAIN spans', a = <<spans'[t].originAddr, spans'[t].originPages>>
            PROVE  \E u \in DOMAIN spans : a = <<spans[u].originAddr, spans[u].originPages>>
        <5>1. CASE t = rest
          BY <5>1, <4>2, <1>1, <1>6
        <5>2. CASE t \in DOMAIN spans
          BY <5>2, <4>2, <3>2
        <5> QED BY <5>1, <5>2, <1>5
      <4> QED BY <4>1, <4>2
    <3> QED BY <3>1, <3>3
  <2>3. \A p \in DOMAIN pageMap :
          /\ pageMap[p] \in DOMAIN spans
          /\ spans'[pageMap'[p]].originAddr = spans[pageMap[p]].originAddr
          /\ spans'[pageMap'[p]].originPages = spans[pageMap[p]].originPages
    <3> SUFFICES ASSUME NEW p \in DOMAIN pageMap
                 PROVE  /\ pageMap[p] \in DOMAIN spans
                        /\ spans'[pageMap'[p]].originAddr = spans[pageMap[p]].originAddr
                        /\ spans'[pageMap'[p]].originPages = spans[pageMap[p]].originPages
      OBVIOUS
    <3>1. pageMap[p] \in DOMAIN spans
      BY DEF Inv, PageMapExact
    <3>2. CASE p \in Run(rest, k - n)
      BY <3>1, <3>2, <1>2, <1>6, <1>8
    <3>3. CASE p \notin Run(rest, k - n)
      <4>1. pageMap'[p] = pageMap[p]
        BY <3>3, <1>8
      <4>2. CASE pageMap[p] = s
        BY <4>1, <4>2, <1>1, <1>6
      <4>3. CASE pageMap[p] # s
        BY <4>1, <4>3, <3>1, <1>5
      <4> QED BY <3>1, <4>2, <4>3
    <3> QED BY <3>1, <3>2, <3>3
  <2>4. ASSUME NEW t \in DOMAIN spans'
        PROVE  \E u \in DOMAIN spans :
                 /\ spans'[t].originAddr = spans[u].originAddr
                 /\ spans'[t].originPages = spans[u].originPages
                 /\ spans[u].originAddr <= t
                 /\ End(t)' <= spans[u].originAddr + spans[u].originPages
    <3>1. spans[s].originAddr <= s /\ s + k <= spans[s].originAddr + spans[s].originPages
      BY <1>1 DEF Inv, OriginsExact, End
    <3>2. spans[s].originAddr \in Nat /\ spans[s].originPages \in Nat
      BY <1>1, PageCacheAssumption DEF SpanRecord, Pages, Sizes
    <3>3. CASE t = s
      <4>1. End(t)' = s + n
        BY <3>3, <1>6 DEF End
      <4> QED BY <3>3, <4>1, <3>1, <3>2, <1>1, <1>6
    <3>4. CASE t = rest
      <4>1. End(t)' = s + k
        BY <3>4, <1>1, <1>6 DEF End
      <4> QED BY <3>4, <4>1, <3>1, <3>2, <1>1, <1>6
    <3>5. CASE t \in DOMAIN spans \ {s}
      BY <3>5, <1>5 DEF Inv, OriginsExact, End
    <3> QED BY <1>5, <3>3, <3>4, <3>5
  <2>5. ASSUME NEW u \in DOMAIN spans,
               NEW p \in Run(spans[u].originAddr, spans[u].originPages)
        PROVE  /\ p \in DOMAIN pageMap
               /\ spans'[pageMap'[p]].originAddr = spans[u].originAddr
               /\ spans'[pageMap'[p]].originPages = spans[u].originPages
    BY <2>3 DEF Inv, OriginsExact
  <2>6. ASSUME NEW t \in DOMAIN spans'
        PROVE  /\ spans'[t].originAddr <= t
               /\ End(t)' <= spans'[t].originAddr + spans'[t].originPages
               /\ \A p \in Run(spans'[t].originAddr, spans'[t].originPages) :
                    /\ p \in DOMAIN pageMap'
                    /\ spans'[pageMap'[p]].originAddr = spans'[t].originAddr
                    /\ spans'[pageMap'[p]].originPages = spans'[t].originPages
    BY <2>4, <2>5, <1>8
  <2> QED BY <2>1, <2>2, <2>6 DEF OriginsExact, Run
<1>12. CachedExact' /\ cachedFreePages' \in Nat
  <2>1. Run(s, n) \subseteq FreePages
    BY <1>1, <1>2 DEF FreePages
  <2>2. FreePages' = FreePages \ Run(s, n)
    <3>1. ASSUME NEW p \in DOMAIN pageMap
          PROVE  spans'[pageMap'[p]].inFreeList <=>
                   (spans[pageMap[p]].inFreeList /\ p \notin Run(s, n))
      <4>1. pageMap[p] \in DOMAIN spans /\ p \in PagesOf(pageMap[p])
        BY DEF Inv, PageMapExact
      <4>2. CASE pageMap[p] = s /\ p \in Run(s, n)
        BY <4>2, <1>2, <1>6, <1>8
      <4>3. CASE pageMap[p] = s /\ p \notin Run(s, n)
        BY <4>1, <4>3, <1>1, <1>2, <1>6, <1>8 DEF PagesOf
      <4>4. CASE pageMap[p] # s
        BY <4>1, <4>4, <1>2, <1>5, <1>8
      <4> QED BY <4>2, <4>3, <4>4
    <3> QED BY <3>1, <1>8 DEF FreePages
  <2>3. cachedFreePages' = cachedFreePages - n
    BY <1>1 DEF TakeAndSplit, CountAfterTake, Inv, TypeOK
  <2> QED BY <2>1, <2>2, <2>3, FreePagesTake
<1>13. TypeOK'
  <2>1. DOMAIN spans' \subseteq Pages
    BY <1>2, <1>5 DEF Inv, TypeOK
  <2>2. spans' \in [DOMAIN spans' -> SpanRecord]
    <3>1. \A t \in DOMAIN spans' : spans'[t] \in SpanRecord
      BY <1>5, <1>6 DEF Inv, TypeOK
    <3> QED BY <3>1 DEF TakeAndSplit
  <2>3. freeSpans' \in [Sizes -> SUBSET Pages]
    BY <1>2 DEF Inv, TypeOK, TakeAndSplit
  <2>4. DOMAIN pageMap' \subseteq Pages /\ pageMap' \in [DOMAIN pageMap' -> Pages]
    <3>1. \A p \in DOMAIN pageMap' : pageMap'[p] \in Pages
      BY <1>2, <1>8 DEF Inv, TypeOK
    <3> QED BY <3>1, <1>7, <1>8 DEF registerPages, Inv, TypeOK
  <2> QED BY <2>1, <2>2, <2>3, <2>4, <1>12 DEF Inv, TypeOK, TakeAndSplit
<1> QED BY <1>9, <1>10, <1>11, <1>12, <1>13 DEF Inv

LEMMA MapNewOriginInv ==
  ASSUME Inv, running, UNCHANGED running,
         NEW n \in Sizes, NEW s \in Pages, NEW large \in BOOLEAN,
         MapNewOrigin(n, s, large)
  PROVE  Inv'
<1>1. PICK m \in n .. (n + Granularity - 1) :
        /\ Run(s, m) \subseteq Pages \ osPages
        /\ osPages' = osPages \cup Run(s, m)
        /\ systemAllocs' = systemAllocs \cup {<<s, m>>}
        /\ spans' = [x \in DOMAIN spans \cup {s} |->
                       IF x = s THEN [numPages |-> m, originAddr |-> s, originPages |-> m,
                                      inFreeList |-> FALSE, isLarge |-> large]
                       ELSE spans[x]]
        /\ pageMap' = registerPages(pageMap, s, m)
        /\ UNCHANGED <<freeSpans, cachedFreePages>>
  BY DEF MapNewOrigin
<1>2. n \in Nat \ {0} /\ m \in Nat \ {0} /\ s \in Nat
  BY PageCacheAssumption DEF Sizes, Pages
<1>3. s \in Run(s, m) /\ (s + m - 1) \in Run(s, m)
  BY <1>2 DEF Run
<1>4. m \in Sizes
  BY <1>1, <1>2, <1>3, PageCacheAssumption DEF Sizes, Pages
<1>5. \A p \in Run(s, m) : p \in Pages /\ p \notin DOMAIN pageMap
  BY <1>1 DEF Inv, OriginsExact
<1>6. s \notin DOMAIN spans
  BY <1>3, <1>5, SpanFacts
<1>7. /\ DOMAIN spans' = DOMAIN spans \cup {s}
      /\ \A t \in DOMAIN spans : spans'[t] = spans[t]
      /\ spans'[s] = [numPages |-> m, originAddr |-> s, originPages |-> m,
                      inFreeList |-> FALSE, isLarge |-> large]
      /\ spans'[s] \in SpanRecord
  <2>1. spans'[s] = [numPages |-> m, originAddr |-> s, originPages |-> m,
                     inFreeList |-> FALSE, isLarge |-> large]
    BY <1>1
  <2>2. spans'[s] \in SpanRecord
    BY <2>1, <1>4 DEF SpanRecord
  <2> QED BY <1>1, <1>6, <2>1, <2>2
<1>8. /\ DOMAIN pageMap' = DOMAIN pageMap \cup Run(s, m)
      /\ \A p \in DOMAIN pageMap : pageMap'[p] = pageMap[p]
      /\ \A p \in Run(s, m) : pageMap'[p] = s
  BY <1>1, <1>5 DEF registerPages
<1>9. PageMapExact'
  <2>1. ASSUME NEW t \in DOMAIN spans', NEW p \in PagesOf(t)'
        PROVE  p \in DOMAIN pageMap' /\ pageMap'[p] = t
    <3>1. CASE t = s
      BY <3>1, <2>1, <1>7, <1>8 DEF PagesOf
    <3>2. CASE t \in DOMAIN spans
      <4>1. p \in PagesOf(t)
        BY <3>2, <2>1, <1>7 DEF PagesOf
      <4> QED BY <3>2, <4>1, <1>8, SpanFacts
    <3> QED BY <3>1, <3>2, <1>7
  <2>2. ASSUME NEW p \in DOMAIN pageMap'
        PROVE  pageMap'[p] \in DOMAIN spans' /\ p \in PagesOf(pageMap[p])'
    <3>1. CASE p \in Run(s, m)
      BY <3>1, <1>7, <1>8 DEF PagesOf
    <3>2. CASE p \in DOMAIN pageMap
      <4>1. pageMap[p] \in DOMAIN spans /\ p \in PagesOf(pageMap[p])
        BY <3>2 DEF Inv, PageMapExact
      <4> QED BY <3>2, <4>1, <1>7, <1>8 DEF PagesOf
    <3> QED BY <3>1, <3>2, <1>8
  <2> QED BY <2>1, <2>2 DEF PageMapExact
<1>10. FreeListsExact'
  <2>1. ASSUME NEW j \in Sizes
        PROVE  freeSpans'[j] = {t \in DOMAIN spans' :
                                  spans'[t].inFreeList /\ spans'[t].numPages = j}
    <3>1. freeSpans'[j] = {t \in DOMAIN spans : spans[t].inFreeList /\ spans[t].numPages = j}
      BY <1>1 DEF Inv, FreeListsExact
    <3>2. ~ spans'[s].inFreeList
      BY <1>7
    <3> QED BY <1>6, <1>7, <3>1, <3>2
  <2> QED BY <2>1 DEF FreeListsExact
<1>11. OriginsExact'
  <2>1. osPages' = DOMAIN pageMap'
    BY <1>1, <1>8 DEF Inv, OriginsExact
  <2>2. spans'[s].originAddr = s /\ spans'[s].originPages = m /\ End(s)' = s + m
    BY <1>7 DEF End
  <2>3. systemAllocs' = {<<spans'[t].originAddr, spans'[t].originPages>> : t \in DOMAIN spans'}
    <3>1. systemAllocs' = {<<spans[t].originAddr, spans[t].originPages>> : t \in DOMAIN spans}
                            \cup {<<s, m>>}
      BY <1>1 DEF Inv, OriginsExact
    <3> QED BY <1>6, <1>7, <2>2, <3>1
  <2>4. ASSUME NEW t \in DOMAIN spans'
        PROVE  /\ spans'[t].originAddr <= t
               /\ End(t)' <= spans'[t].originAddr + spans'[t].originPages
               /\ \A p \in Run(spans'[t].originAddr, spans'[t].originPages) :
                    /\ p \in DOMAIN pageMap'
                    /\ spans'[pageMap'[p]].originAddr = spans'[t].originAddr
                    /\ spans'[pageMap'[p]].originPages = spans'[t].originPages
    <3>1. CASE t = s
      BY <3>1, <1>2, <1>8, <2>2
    <3>2. CASE t \in DOMAIN spans
      <4>1. spans'[t] = spans[t] /\ End(t)' = End(t)
        BY <3>2, <1>7 DEF End
      <4>2. \A p \in DOMAIN pageMap : spans'[pageMap'[p]] = spans[pageMap[p]]
        BY <1>7, <1>8 DEF Inv, PageMapExact
      <4> QED BY <3>2, <4>1, <4>2, <1>8 DEF Inv, OriginsExact
    <3> QED BY <3>1, <3>2, <1>7
  <2> QED BY <2>1, <2>3, <2>4 DEF OriginsExact, Run
<1>12. CachedExact'
  <2>1. \A p \in DOMAIN pageMap : spans'[pageMap'[p]] = spans[pageMap[p]]
    BY <1>7, <1>8 DEF Inv, PageMapExact
  <2>2. \A p \in Run(s, m) : ~ spans'[pageMap'[p]].inFreeList
    BY <1>7, <1>8
  <2>3. FreePages' = FreePages
    BY <1>5, <1>8, <2>1, <2>2 DEF FreePages
  <2> QED BY <1>1, <2>3 DEF Inv, CachedExact
<1>13. TypeOK'
  <2>1. /\ DOMAIN spans' \subseteq Pages
        /\ \A t \in DOMAIN spans' : spans'[t] \in SpanRecord
    BY <1>7 DEF Inv, TypeOK
  <2>2. spans' \in [DOMAIN spans' -> SpanRecord]
    BY <1>1, <2>1
  <2>3. DOMAIN pageMap' \subseteq Pages /\ \A p \in DOMAIN pageMap' : pageMap'[p] \in Pages
    BY <1>5, <1>8 DEF Inv, TypeOK
  <2>4. pageMap' \in [DOMAIN pageMap' -> Pages]
    BY <1>1, <2>3 DEF registerPages
  <2>5. systemAllocs' \subseteq Pages \X Sizes
    BY <1>1, <1>4 DEF Inv, TypeOK
  <2>6. osPages' \subseteq Pages
    BY <1>1 DEF Inv, TypeOK
  <2> QED BY <2>1, <2>2, <2>3, <2>4, <2>5, <2>6, <1>1 DEF Inv, TypeOK
<1> QED BY <1>9, <1>10, <1>11, <1>12, <1>13 DEF Inv

-----------------------------------------------------------------------------
(* Coalescing.                                                             *)

(* The two fields that identify the mapping of a span agree or differ      *)
(* together.                                                               *)
LEMMA SameOrigin ==
  ASSUME Inv, NEW s \in DOMAIN spans, NEW t \in DOMAIN spans,
         spans[s].originAddr = spans[t].originAddr
  PROVE  spans[s].originPages = spans[t].originPages
<1>1. spans[s].originAddr \in Run(spans[s].originAddr, spans[s].originPages)
  BY SpanFacts, PageCacheAssumption DEF Run, Pages, Sizes
<1>2. spans[t].originAddr \in Run(spans[t].originAddr, spans[t].originPages)
  BY SpanFacts, PageCacheAssumption DEF Run, Pages, Sizes
<1> QED BY <1>1, <1>2 DEF Inv, OriginsExact

(* A span taken off a list by a merge is free, of the same mapping, and    *)
(* adjoins the span being freed.                                           *)
LEMMA NextFacts ==
  ASSUME Inv, NEW s \in InUse, NextMergeable(s)
  PROVE  LET x == End(s)
         IN  /\ x \in DOMAIN spans /\ x # s /\ pageMap[x] = x
             /\ spans[x].inFreeList
             /\ spans[x].originAddr = spans[s].originAddr
             /\ spans[x].originPages = spans[s].originPages
<1>1. /\ End(s) \in DOMAIN pageMap /\ pageMap[End(s)] = End(s)
      /\ End(s) # s /\ spans[End(s)].inFreeList
      /\ spans[End(s)].originAddr = spans[s].originAddr
  BY DEF NextMergeable
<1>2. End(s) \in DOMAIN spans /\ s \in DOMAIN spans
  BY <1>1 DEF Inv, PageMapExact, InUse
<1> QED BY <1>1, <1>2, SameOrigin

LEMMA PrevFacts ==
  ASSUME Inv, NEW s \in InUse, PrevMergeable(s)
  PROVE  LET x == pageMap[s - 1]
         IN  /\ x \in DOMAIN spans /\ x # s /\ End(x) = s
             /\ spans[x].inFreeList
             /\ spans[x].originAddr = spans[s].originAddr
             /\ spans[x].originPages = spans[s].originPages
<1>1. /\ (s - 1) \in DOMAIN pageMap
      /\ pageMap[s - 1] # s /\ spans[pageMap[s - 1]].inFreeList
      /\ End(pageMap[s - 1]) = s
      /\ spans[pageMap[s - 1]].originAddr = spans[s].originAddr
  BY DEF PrevMergeable
<1>2. pageMap[s - 1] \in DOMAIN spans /\ s \in DOMAIN spans
  BY <1>1 DEF Inv, PageMapExact, InUse
<1> QED BY <1>1, <1>2, SameOrigin

(* The merged run is exactly the pages of the span being freed and of the  *)
(* neighbours it absorbs, and stays inside their mapping.                  *)
LEMMA MergeFacts ==
  ASSUME Inv, NEW s \in InUse
  PROVE  LET group == {s} \cup Absorbed(s)
             L     == MergedStart(s)
             M     == MergedSize(s)
         IN  /\ L \in group /\ group \subseteq DOMAIN spans
             /\ M \in Sizes /\ M >= spans[s].numPages
             /\ s \notin Absorbed(s)
             /\ \A x \in Absorbed(s) : spans[x].inFreeList
             /\ \A x \in group : /\ spans[x].originAddr = spans[s].originAddr
                                 /\ spans[x].originPages = spans[s].originPages
             /\ \A p \in Run(L, M) : p \in DOMAIN pageMap /\ pageMap[p] \in group
             /\ \A x \in group : PagesOf(x) \subseteq Run(L, M)
             /\ spans[s].originAddr <= L
             /\ L + M <= spans[s].originAddr + spans[s].originPages
<1> DEFINE group == {s} \cup Absorbed(s)
           L == MergedStart(s)
           E == MergedEnd(s)
<1>1. s \in DOMAIN spans /\ ~ spans[s].inFreeList
  BY DEF InUse
<1>2. /\ s \in Nat /\ spans[s].numPages \in Nat \ {0} /\ End(s) = s + spans[s].numPages
      /\ spans[s].originAddr \in Nat /\ spans[s].originPages \in Nat
      /\ spans[s].originAddr <= s
      /\ End(s) <= spans[s].originAddr + spans[s].originPages
  BY <1>1, SpanFacts, PageCacheAssumption DEF Inv, OriginsExact, End, Pages, Sizes
<1>3. /\ L \in group /\ L \in DOMAIN spans /\ L \in Nat /\ L <= s
      /\ spans[s].originAddr <= L
      /\ \A p \in L .. (s - 1) : p \in DOMAIN pageMap /\ pageMap[p] \in group
      /\ PrevMergeable(s) => PagesOf(pageMap[s - 1]) = L .. (s - 1)
  <2>1. CASE PrevMergeable(s)
    <3>1. L = pageMap[s - 1] /\ L \in group
      BY <2>1 DEF MergedStart, Absorbed
    <3>2. /\ L \in DOMAIN spans /\ End(L) = s
          /\ spans[L].originAddr = spans[s].originAddr
      BY <2>1, <3>1, PrevFacts
    <3>3. /\ L \in Nat /\ spans[L].numPages \in Nat \ {0}
          /\ \A p \in PagesOf(L) : p \in DOMAIN pageMap /\ pageMap[p] = L
      BY <3>2, SpanFacts
    <3>4. PagesOf(L) = L .. (s - 1) /\ L <= s
      BY <3>2, <3>3, <1>2 DEF PagesOf, Run, End
    <3>5. spans[L].originAddr <= L
      BY <3>2 DEF Inv, OriginsExact
    <3> HIDE DEF L, group
    <3> QED BY <3>1, <3>2, <3>3, <3>4, <3>5
  <2>2. CASE ~ PrevMergeable(s)
    <3>1. L = s
      BY <2>2 DEF MergedStart
    <3> QED BY <2>2, <3>1, <1>1, <1>2
  <2> QED BY <2>1, <2>2
<1>4. /\ E \in Nat /\ End(s) <= E
      /\ E <= spans[s].originAddr + spans[s].originPages
      /\ \A p \in End(s) .. (E - 1) : p \in DOMAIN pageMap /\ pageMap[p] \in group
      /\ NextMergeable(s) => PagesOf(End(s)) = End(s) .. (E - 1)
  <2>1. CASE NextMergeable(s)
    <3> DEFINE x == End(s)
    <3>1. E = End(x) /\ x \in group
      BY <2>1 DEF MergedEnd, Absorbed
    <3>2. /\ x \in DOMAIN spans
          /\ spans[x].originAddr = spans[s].originAddr
          /\ spans[x].originPages = spans[s].originPages
      BY <2>1, NextFacts
    <3>3. /\ x \in Nat /\ spans[x].numPages \in Nat \ {0}
          /\ \A p \in PagesOf(x) : p \in DOMAIN pageMap /\ pageMap[p] = x
      BY <3>2, SpanFacts
    <3>4. End(x) = x + spans[x].numPages
      BY DEF End
    <3>5. PagesOf(x) = x .. (End(x) - 1)
      BY <3>3, <3>4 DEF PagesOf, Run
    <3>6. End(x) <= spans[x].originAddr + spans[x].originPages
      BY <3>2 DEF Inv, OriginsExact
    <3> HIDE DEF x, E, group
    <3>7. E \in Nat /\ x <= E /\ PagesOf(x) = x .. (E - 1)
      BY <3>1, <3>3, <3>4, <3>5
    <3>8. \A p \in x .. (E - 1) : p \in DOMAIN pageMap /\ pageMap[p] \in group
      BY <3>1, <3>3, <3>7
    <3>9. E <= spans[s].originAddr + spans[s].originPages
      BY <3>1, <3>2, <3>6
    <3> QED BY <3>7, <3>8, <3>9 DEF x
  <2>2. CASE ~ NextMergeable(s)
    <3>1. E = End(s)
      BY <2>2 DEF MergedEnd
    <3> QED BY <2>2, <3>1, <1>2
  <2> QED BY <2>1, <2>2
<1>5. /\ group \subseteq DOMAIN spans
      /\ s \notin Absorbed(s)
      /\ \A x \in Absorbed(s) : spans[x].inFreeList
      /\ \A x \in group : /\ spans[x].originAddr = spans[s].originAddr
                          /\ spans[x].originPages = spans[s].originPages
  BY <1>1, NextFacts, PrevFacts DEF Absorbed
<1>6. PagesOf(s) = s .. (End(s) - 1)
  BY <1>2 DEF PagesOf, Run
<1>7. \A p \in PagesOf(s) : p \in DOMAIN pageMap /\ pageMap[p] = s
  BY <1>1, SpanFacts
<1>8. MergedSize(s) = E - L
  BY DEF MergedSize
<1>9. \A x \in Absorbed(s) : \/ x = End(s) /\ NextMergeable(s)
                             \/ x = pageMap[s - 1] /\ PrevMergeable(s)
  BY DEF Absorbed
<1>10. s \in group /\ \A x \in group : x = s \/ x \in Absorbed(s)
  OBVIOUS
<1> HIDE DEF L, E, group
<1>11. Run(L, E - L) = L .. (E - 1)
  BY <1>3, <1>4 DEF Run
<1>12. \A p \in L .. (E - 1) : p \in DOMAIN pageMap /\ pageMap[p] \in group
  BY <1>2, <1>3, <1>4, <1>6, <1>7, <1>10, SMTT(30)
<1>13. \A x \in group : PagesOf(x) \subseteq L .. (E - 1)
  <2>1. ASSUME NEW x \in group PROVE PagesOf(x) \subseteq L .. (E - 1)
    <3>1. CASE x = s
      BY <3>1, <1>2, <1>3, <1>4, <1>6
    <3>2. CASE x = End(s) /\ NextMergeable(s)
      BY <3>2, <1>2, <1>3, <1>4
    <3>3. CASE x = pageMap[s - 1] /\ PrevMergeable(s)
      BY <3>3, <1>2, <1>3, <1>4
    <3> QED BY <3>1, <3>2, <3>3, <1>9, <1>10
  <2> QED BY <2>1
<1>14. E - L >= spans[s].numPages
  BY <1>2, <1>3, <1>4
<1>15. E - L \in Sizes
  <2>1. L \in L .. (E - 1) /\ E - 1 \in L .. (E - 1)
    BY <1>2, <1>3, <1>4, <1>14
  <2>2. E - 1 \in Pages
    BY <1>12, <2>1 DEF Inv, TypeOK
  <2> QED BY <1>2, <1>3, <1>4, <1>14, <2>2, PageCacheAssumption DEF Pages, Sizes
<1>16. L + (E - L) = E
  BY <1>3, <1>4
<1>17. MergedSize(s) \in Sizes /\ MergedSize(s) >= spans[s].numPages
  BY <1>8, <1>14, <1>15
<1>18. Run(L, MergedSize(s)) = L .. (E - 1) /\ L + MergedSize(s) = E
  BY <1>8, <1>11, <1>16
<1> QED BY <1>3, <1>4, <1>5, <1>12, <1>13, <1>17, <1>18 DEF L, E, group

(* What is left of the free pages, and of the counter, once the neighbours *)
(* are off their lists.                                                    *)
LEMMA MergeCount ==
  ASSUME Inv, running, NEW s \in InUse
  PROVE  LET merged == Run(MergedStart(s), MergedSize(s))
         IN  /\ CountAfterMerge(s) \in Nat
             /\ Cardinality(FreePages \ merged) = CountAfterMerge(s)
             /\ Cardinality((FreePages \ merged) \cup merged)
                  = CountAfterMerge(s) + MergedSize(s)
<1> DEFINE L == MergedStart(s)
           M == MergedSize(s)
           n == spans[s].numPages
           merged == Run(L, M)
           rest == FreePages \ merged
<1>1. s \in DOMAIN spans /\ ~ spans[s].inFreeList
  BY DEF InUse
<1>2. L \in Nat /\ M \in Nat /\ n \in Nat /\ M >= n
  BY <1>1, MergeFacts, SpanFacts, PageCacheAssumption DEF Sizes
<1>3. PagesOf(s) = Run(s, n) /\ s \in Nat
  BY <1>1, SpanFacts DEF PagesOf
<1>4. IsFiniteSet(merged) /\ Cardinality(merged) = M /\ Cardinality(PagesOf(s)) = n
  BY <1>2, <1>3, RunSize
<1>5. FreePages \cap merged = merged \ PagesOf(s)
  <2>1. \A p \in merged : p \in DOMAIN pageMap /\ pageMap[p] \in {s} \cup Absorbed(s)
    BY MergeFacts
  <2>2. \A x \in Absorbed(s) : spans[x].inFreeList
    BY MergeFacts
  <2>3. \A p \in PagesOf(s) : pageMap[p] = s
    BY <1>1, SpanFacts
  <2>4. \A p \in DOMAIN pageMap : p \in PagesOf(pageMap[p])
    BY DEF Inv, PageMapExact
  <2> QED BY <1>1, <2>1, <2>2, <2>3, <2>4 DEF FreePages
<1>6. merged \cap PagesOf(s) = PagesOf(s)
  BY MergeFacts
<1>7. Cardinality(FreePages \cap merged) = M - n
  <2>1. Cardinality(merged \ PagesOf(s)) = Cardinality(merged) - Cardinality(merged \cap PagesOf(s))
    BY <1>4, FS_Difference, Zenon
  <2> QED BY <2>1, <1>4, <1>5, <1>6
<1>8. IsFiniteSet(FreePages) /\ cachedFreePages = Cardinality(FreePages)
  BY FreePagesFinite DEF Inv, CachedExact
<1>9. /\ IsFiniteSet(rest)
      /\ Cardinality(rest) = Cardinality(FreePages) - Cardinality(FreePages \cap merged)
  BY <1>8, FS_Difference, Zenon
<1>10. CountAfterMerge(s) = cachedFreePages - (M - n)
  BY DEF CountAfterMerge
<1>11. Cardinality(rest) = CountAfterMerge(s) /\ CountAfterMerge(s) \in Nat
  BY <1>7, <1>8, <1>9, <1>10, FS_CardinalityType
<1>12. Cardinality(rest \cup merged)
         = Cardinality(rest) + Cardinality(merged) - Cardinality(rest \cap merged)
  BY <1>4, <1>9, FS_Union, Zenon
<1>13. rest \cap merged = {}
  OBVIOUS
<1>14. Cardinality(rest \cup merged) = CountAfterMerge(s) + M
  <2>1. Cardinality(rest \cap merged) = 0
    BY <1>13, FS_EmptySet
  <2>2. CountAfterMerge(s) + M - 0 = CountAfterMerge(s) + M
    BY <1>2, <1>11
  <2> QED BY <1>4, <1>11, <1>12, <2>1, <2>2
<1> QED BY <1>11, <1>14

-----------------------------------------------------------------------------
(* deallocateSpan preserves Inv.                                           *)

(* Removing a group of spans that makes up a whole mapping, together with  *)
(* the mapping, leaves every other mapping as it was.                      *)
LEMMA ReleaseWhole ==
  ASSUME Inv, NEW s \in DOMAIN spans, NEW group \in SUBSET DOMAIN spans, s \in group,
         NEW whole, whole = Run(spans[s].originAddr, spans[s].originPages),
         \A p \in whole : pageMap[p] \in group,
         \A x \in group : PagesOf(x) \subseteq whole,
         \A x \in group : spans[x].originAddr = spans[s].originAddr,
         spans' = Without(group),
         pageMap' = [p \in DOMAIN pageMap \ whole |-> pageMap[p]],
         systemAllocs' = {a \in systemAllocs : a[1] # spans[s].originAddr},
         osPages' = osPages \ whole,
         freeSpans' = [k \in Sizes |-> freeSpans[k] \ group]
  PROVE  /\ PageMapExact' /\ FreeListsExact' /\ OriginsExact'
         /\ FreePages' = FreePages \ whole
<1>1. /\ DOMAIN spans' = DOMAIN spans \ group
      /\ \A t \in DOMAIN spans' : spans'[t] = spans[t]
  BY DEF Without
<1>2. /\ DOMAIN pageMap' = DOMAIN pageMap \ whole
      /\ \A p \in DOMAIN pageMap' : pageMap'[p] = pageMap[p]
  OBVIOUS
<1>3. \A p \in DOMAIN pageMap : /\ pageMap[p] \in DOMAIN spans
                                /\ p \in PagesOf(pageMap[p])
                                /\ pageMap[p] \in group <=> p \in whole
  BY DEF Inv, PageMapExact
<1>4. \A t \in DOMAIN spans : \A p \in PagesOf(t) : p \in DOMAIN pageMap /\ pageMap[p] = t
  BY DEF Inv, PageMapExact
<1>5. PageMapExact'
  <2>1. ASSUME NEW t \in DOMAIN spans', NEW p \in PagesOf(t)'
        PROVE  p \in DOMAIN pageMap' /\ pageMap'[p] = t
    <3>1. p \in PagesOf(t)
      BY <1>1, <2>1 DEF PagesOf
    <3> QED BY <3>1, <1>1, <1>2, <1>3, <1>4
  <2>2. ASSUME NEW p \in DOMAIN pageMap'
        PROVE  pageMap'[p] \in DOMAIN spans' /\ p \in PagesOf(pageMap[p])'
    BY <1>1, <1>2, <1>3 DEF PagesOf
  <2> QED BY <2>1, <2>2 DEF PageMapExact
<1>6. FreeListsExact'
  <2>1. ASSUME NEW k \in Sizes
        PROVE  freeSpans'[k] = {t \in DOMAIN spans' :
                                  spans'[t].inFreeList /\ spans'[t].numPages = k}
    <3>1. freeSpans[k] = {t \in DOMAIN spans : spans[t].inFreeList /\ spans[t].numPages = k}
      BY DEF Inv, FreeListsExact
    <3> QED BY <1>1, <3>1
  <2> QED BY <2>1 DEF FreeListsExact
<1>7. OriginsExact'
  <2>1. osPages' = DOMAIN pageMap'
    BY <1>2 DEF Inv, OriginsExact
  <2>2. ASSUME NEW t \in DOMAIN spans'
        PROVE  spans[t].originAddr # spans[s].originAddr
    <3>1. t \in DOMAIN spans /\ t \notin group
      BY <1>1
    <3>2. SUFFICES ASSUME spans[t].originAddr = spans[s].originAddr PROVE FALSE
      OBVIOUS
    <3>3. spans[t].originPages = spans[s].originPages
      BY <3>1, <3>2, SameOrigin
    <3>4. t \in whole
      <4>1. /\ spans[t].originAddr <= t
            /\ t + spans[t].numPages <= spans[t].originAddr + spans[t].originPages
        BY <3>1 DEF Inv, OriginsExact, End
      <4>2. /\ t \in Nat /\ spans[t].numPages \in Nat \ {0}
            /\ spans[t].originAddr \in Nat /\ spans[t].originPages \in Nat
        BY <3>1, SpanFacts, PageCacheAssumption DEF Pages, Sizes
      <4> QED BY <3>2, <3>3, <4>1, <4>2 DEF Run
    <3>5. t \in PagesOf(t)
      BY <3>1, SpanFacts
    <3> QED BY <1>3, <1>4, <3>1, <3>4, <3>5
  <2>3. systemAllocs' = {<<spans'[t].originAddr, spans'[t].originPages>> : t \in DOMAIN spans'}
    <3>1. systemAllocs = {<<spans[t].originAddr, spans[t].originPages>> : t \in DOMAIN spans}
      BY DEF Inv, OriginsExact
    <3>2. \A t \in DOMAIN spans \ group : spans[t].originAddr # spans[s].originAddr
      BY <1>1, <2>2
    <3>3. ASSUME NEW a
          PROVE  a \in systemAllocs' <=>
                   \E t \in DOMAIN spans \ group :
                     a = <<spans[t].originAddr, spans[t].originPages>>
      BY <3>1, <3>2
    <3> QED BY <1>1, <3>3
  <2>4. ASSUME NEW t \in DOMAIN spans'
        PROVE  /\ spans'[t].originAddr <= t
               /\ End(t)' <= spans'[t].originAddr + spans'[t].originPages
               /\ \A p \in Run(spans'[t].originAddr, spans'[t].originPages) :
                    /\ p \in DOMAIN pageMap'
                    /\ spans'[pageMap'[p]].originAddr = spans'[t].originAddr
                    /\ spans'[pageMap'[p]].originPages = spans'[t].originPages
    <3>1. /\ t \in DOMAIN spans /\ spans'[t] = spans[t] /\ End(t)' = End(t)
      BY <1>1 DEF End
    <3>2. ASSUME NEW p \in Run(spans[t].originAddr, spans[t].originPages)
          PROVE  /\ p \in DOMAIN pageMap'
                 /\ spans'[pageMap'[p]].originAddr = spans[t].originAddr
                 /\ spans'[pageMap'[p]].originPages = spans[t].originPages
      <4>1. /\ p \in DOMAIN pageMap
            /\ spans[pageMap[p]].originAddr = spans[t].originAddr
            /\ spans[pageMap[p]].originPages = spans[t].originPages
        BY <3>1 DEF Inv, OriginsExact
      <4>2. pageMap[p] \notin group
        BY <4>1, <2>2
      <4>3. p \in DOMAIN pageMap' /\ pageMap'[p] \in DOMAIN spans'
        BY <4>1, <4>2, <1>1, <1>2, <1>3
      <4> QED BY <4>1, <4>3, <1>1, <1>2
    <3>3. spans[t].originAddr <= t /\ End(t) <= spans[t].originAddr + spans[t].originPages
      BY <3>1 DEF Inv, OriginsExact
    <3> QED BY <3>1, <3>2, <3>3
  <2> QED BY <2>1, <2>3, <2>4 DEF OriginsExact, Run
<1>8. FreePages' = FreePages \ whole
  BY <1>1, <1>2, <1>3 DEF FreePages
<1> QED BY <1>5, <1>6, <1>7, <1>8

LEMMA ReturnToSystemInv ==
  ASSUME Inv, running, UNCHANGED running, NEW s \in InUse, ReturnToSystem(s)
  PROVE  Inv'
<1> DEFINE whole == Run(spans[s].originAddr, spans[s].originPages)
<1>1. s \in DOMAIN spans /\ ~ spans[s].inFreeList
  BY DEF InUse
<1>2. /\ s = spans[s].originAddr /\ spans[s].numPages = spans[s].originPages
      /\ PagesOf(s) = whole /\ Run(s, spans[s].numPages) = whole
  BY DEF ReturnToSystem, ReturnDirect, OwnsOrigin, PagesOf
<1>3. /\ spans' = Without({s})
      /\ pageMap' = [p \in DOMAIN pageMap \ whole |-> pageMap[p]]
      /\ systemAllocs' = {a \in systemAllocs : a[1] # spans[s].originAddr}
      /\ osPages' = osPages \ whole
      /\ freeSpans' = freeSpans /\ cachedFreePages' = cachedFreePages
  BY <1>2 DEF ReturnToSystem, ReleaseOrigin, unregisterPages
<1>4. freeSpans' = [k \in Sizes |-> freeSpans[k] \ {s}]
  <2>1. \A k \in Sizes : s \notin freeSpans[k]
    BY <1>1 DEF Inv, FreeListsExact
  <2>2. freeSpans = [k \in Sizes |-> freeSpans[k]]
    BY DEF Inv, TypeOK
  <2> QED BY <1>3, <2>1, <2>2
<1>5. \A p \in whole : p \in DOMAIN pageMap /\ pageMap[p] = s
  BY <1>1, <1>2, SpanFacts
<1>6. /\ PageMapExact' /\ FreeListsExact' /\ OriginsExact'
      /\ FreePages' = FreePages \ whole
  <2>1. /\ \A p \in whole : pageMap[p] \in {s}
        /\ \A x \in {s} : PagesOf(x) \subseteq whole
        /\ \A x \in {s} : spans[x].originAddr = spans[s].originAddr
        /\ {s} \in SUBSET DOMAIN spans /\ s \in {s}
    BY <1>1, <1>2, <1>5
  <2> QED BY <1>1, <1>3, <1>4, <2>1, ReleaseWhole
<1>7. CachedExact'
  <2>1. FreePages' = FreePages
    BY <1>1, <1>5, <1>6 DEF FreePages
  <2> QED BY <1>3, <2>1 DEF Inv, CachedExact
<1>8. TypeOK'
  BY <1>3, <1>4 DEF Inv, TypeOK, Without
<1> QED BY <1>6, <1>7, <1>8 DEF Inv

(* The page map once the merged run belongs to the surviving span.         *)
LEMMA MapAfterMergeFacts ==
  ASSUME Inv, NEW s \in InUse
  PROVE  LET merged == Run(MergedStart(s), MergedSize(s))
             map    == MapAfterMerge(s)
         IN  /\ DOMAIN map = DOMAIN pageMap
             /\ merged \subseteq DOMAIN pageMap
             /\ \A p \in merged : map[p] = MergedStart(s)
             /\ \A p \in DOMAIN pageMap \ merged : map[p] = pageMap[p]
BY MergeFacts DEF MapAfterMerge, registerPages

LEMMA FreeSpansAfterMergeFacts ==
  ASSUME Inv, NEW s \in InUse
  PROVE  FreeSpansAfterMerge(s) = [k \in Sizes |-> freeSpans[k] \ ({s} \cup Absorbed(s))]
<1> SUFFICES ASSUME NEW k \in Sizes
             PROVE  freeSpans[k] \ {x \in Absorbed(s) : spans[x].numPages = k}
                      = freeSpans[k] \ ({s} \cup Absorbed(s))
  BY DEF FreeSpansAfterMerge
<1>1. freeSpans[k] = {t \in DOMAIN spans : spans[t].inFreeList /\ spans[t].numPages = k}
  BY DEF Inv, FreeListsExact
<1> QED BY <1>1 DEF InUse

LEMMA CoalesceAndReleaseInv ==
  ASSUME Inv, running, UNCHANGED running, NEW s \in InUse, CoalesceAndRelease(s)
  PROVE  Inv'
<1> DEFINE group  == {s} \cup Absorbed(s)
           L      == MergedStart(s)
           M      == MergedSize(s)
           merged == Run(L, M)
<1>1. s \in DOMAIN spans /\ ~ spans[s].inFreeList
  BY DEF InUse
<1>2. merged = Run(spans[s].originAddr, spans[s].originPages)
  BY DEF CoalesceAndRelease, OverBudget
<1>3. /\ \A p \in merged : p \in DOMAIN pageMap /\ pageMap[p] \in group
      /\ \A x \in group : PagesOf(x) \subseteq merged
      /\ \A x \in group : spans[x].originAddr = spans[s].originAddr
      /\ group \in SUBSET DOMAIN spans /\ s \in group
  BY MergeFacts
<1>4. /\ spans' = Without(group)
      /\ systemAllocs' = {a \in systemAllocs : a[1] # spans[s].originAddr}
      /\ osPages' = osPages \ merged
      /\ cachedFreePages' = CountAfterMerge(s)
      /\ pageMap' = unregisterPages(MapAfterMerge(s), L, M)
      /\ freeSpans' = FreeSpansAfterMerge(s)
  BY <1>2 DEF CoalesceAndRelease, ReleaseOrigin
<1>5. pageMap' = [p \in DOMAIN pageMap \ merged |-> pageMap[p]]
  BY <1>4, MapAfterMergeFacts DEF unregisterPages
<1>6. freeSpans' = [k \in Sizes |-> freeSpans[k] \ group]
  BY <1>4, FreeSpansAfterMergeFacts
<1>7. /\ PageMapExact' /\ FreeListsExact' /\ OriginsExact'
      /\ FreePages' = FreePages \ merged
  <2> HIDE DEF group, merged
  <2> QED BY <1>1, <1>2, <1>3, <1>4, <1>5, <1>6, ReleaseWhole
<1>8. CachedExact' /\ cachedFreePages' \in Nat
  BY <1>4, <1>7, MergeCount DEF CachedExact
<1>9. TypeOK'
  <2> HIDE DEF group, merged
  <2> QED BY <1>4, <1>5, <1>6, <1>8 DEF Inv, TypeOK, Without
<1> QED BY <1>7, <1>8, <1>9 DEF Inv

LEMMA CoalesceAndCacheInv ==
  ASSUME Inv, running, UNCHANGED running, NEW s \in InUse, CoalesceAndCache(s)
  PROVE  Inv'
<1> DEFINE group  == {s} \cup Absorbed(s)
           L      == MergedStart(s)
           M      == MergedSize(s)
           merged == Run(L, M)
<1>1. s \in DOMAIN spans /\ ~ spans[s].inFreeList
  BY DEF InUse
<1>2. /\ L \in group /\ group \subseteq DOMAIN spans /\ s \in group
      /\ M \in Sizes
      /\ \A x \in group : spans[x].originAddr = spans[s].originAddr
      /\ \A x \in group : spans[x].originPages = spans[s].originPages
      /\ \A p \in merged : p \in DOMAIN pageMap /\ pageMap[p] \in group
      /\ \A x \in group : PagesOf(x) \subseteq merged
      /\ spans[s].originAddr <= L
      /\ L + M <= spans[s].originAddr + spans[s].originPages
  BY MergeFacts
<1>3. /\ spans' = [x \in DOMAIN spans \ (group \ {L}) |->
                   IF x = L THEN [spans[x] EXCEPT !.numPages = M, !.inFreeList = TRUE,
                                                  !.isLarge = FALSE]
                   ELSE spans[x]]
      /\ freeSpans' = [FreeSpansAfterMerge(s) EXCEPT ![M] = @ \cup {L}]
      /\ cachedFreePages' = CountAfterMerge(s) + M
      /\ pageMap' = MapAfterMerge(s)
      /\ UNCHANGED <<systemAllocs, osPages>>
  BY DEF CoalesceAndCache
<1>4. /\ DOMAIN pageMap' = DOMAIN pageMap
      /\ \A p \in merged : pageMap'[p] = L
      /\ \A p \in DOMAIN pageMap \ merged : pageMap'[p] = pageMap[p]
  BY <1>3, MapAfterMergeFacts
<1>5. freeSpans' = [k \in Sizes |-> (freeSpans[k] \ group) \cup (IF k = M THEN {L} ELSE {})]
  BY <1>2, <1>3, FreeSpansAfterMergeFacts
<1> HIDE DEF group, L, M, merged
<1>6. /\ DOMAIN spans' = (DOMAIN spans \ group) \cup {L}
      /\ \A t \in DOMAIN spans \ group : spans'[t] = spans[t]
      /\ spans'[L] = [spans[L] EXCEPT !.numPages = M, !.inFreeList = TRUE, !.isLarge = FALSE]
  BY <1>2, <1>3
<1>7. L \in DOMAIN spans /\ spans[L] \in SpanRecord
  BY <1>2 DEF Inv, TypeOK
<1>8. /\ spans'[L] \in SpanRecord
      /\ spans'[L].numPages = M /\ spans'[L].inFreeList
      /\ spans'[L].originAddr = spans[L].originAddr
      /\ spans'[L].originPages = spans[L].originPages
  BY <1>2, <1>6, <1>7 DEF SpanRecord
<1>9. \A p \in DOMAIN pageMap : /\ pageMap[p] \in DOMAIN spans
                                /\ p \in PagesOf(pageMap[p])
                                /\ pageMap[p] \in group <=> p \in merged
  BY <1>2 DEF Inv, PageMapExact
<1>10. \A t \in DOMAIN spans : \A p \in PagesOf(t) : p \in DOMAIN pageMap /\ pageMap[p] = t
  BY DEF Inv, PageMapExact
<1>11. Run(L, spans'[L].numPages) = merged
  BY <1>8 DEF merged
<1>12. PageMapExact'
  <2>1. ASSUME NEW t \in DOMAIN spans', NEW p \in PagesOf(t)'
        PROVE  p \in DOMAIN pageMap' /\ pageMap'[p] = t
    <3>1. CASE t = L
      BY <3>1, <2>1, <1>2, <1>4, <1>11 DEF PagesOf
    <3>2. CASE t \in DOMAIN spans \ group
      <4>1. p \in PagesOf(t)
        BY <3>2, <2>1, <1>6 DEF PagesOf
      <4> QED BY <3>2, <4>1, <1>4, <1>9, <1>10
    <3> QED BY <3>1, <3>2, <1>6
  <2>2. ASSUME NEW p \in DOMAIN pageMap'
        PROVE  pageMap'[p] \in DOMAIN spans' /\ p \in PagesOf(pageMap[p])'
    <3>1. CASE p \in merged
      BY <3>1, <1>4, <1>6, <1>11 DEF PagesOf
    <3>2. CASE p \notin merged
      BY <3>2, <1>4, <1>6, <1>9 DEF PagesOf
    <3> QED BY <3>1, <3>2
  <2> QED BY <2>1, <2>2 DEF PageMapExact
<1>13. FreeListsExact'
  <2>1. ASSUME NEW k \in Sizes, NEW t
        PROVE  t \in freeSpans'[k] <=>
                 t \in DOMAIN spans' /\ spans'[t].inFreeList /\ spans'[t].numPages = k
    <3>1. t \in freeSpans[k] <=>
            t \in DOMAIN spans /\ spans[t].inFreeList /\ spans[t].numPages = k
      BY DEF Inv, FreeListsExact
    <3>2. t \in freeSpans'[k] <=> (t \in freeSpans[k] /\ t \notin group) \/ (k = M /\ t = L)
      BY <1>5
    <3>3. CASE t = L
      BY <3>2, <3>3, <1>2, <1>6, <1>8
    <3>4. CASE t # L
      BY <3>1, <3>2, <3>4, <1>6
    <3> QED BY <3>3, <3>4
  <2>2. ASSUME NEW k \in Sizes
        PROVE  freeSpans'[k] = {t \in DOMAIN spans' :
                                  spans'[t].inFreeList /\ spans'[t].numPages = k}
    BY <2>1
  <2> QED BY <2>2 DEF FreeListsExact
<1>14. OriginsExact'
  <2>1. osPages' = DOMAIN pageMap'
    BY <1>3, <1>4 DEF Inv, OriginsExact
  <2>2. \A t \in group : /\ spans[t].originAddr = spans'[L].originAddr
                        /\ spans[t].originPages = spans'[L].originPages
    BY <1>2, <1>8
  <2>3. systemAllocs' = {<<spans'[t].originAddr, spans'[t].originPages>> : t \in DOMAIN spans'}
    <3>1. systemAllocs' = {<<spans[t].originAddr, spans[t].originPages>> : t \in DOMAIN spans}
      BY <1>3 DEF Inv, OriginsExact
    <3>2. ASSUME NEW t \in DOMAIN spans
          PROVE  \E u \in DOMAIN spans' :
                   <<spans[t].originAddr, spans[t].originPages>>
                     = <<spans'[u].originAddr, spans'[u].originPages>>
      <4>1. CASE t \in group
        BY <4>1, <1>6, <2>2
      <4>2. CASE t \notin group
        BY <4>2, <1>6
      <4> QED BY <4>1, <4>2
    <3>3. ASSUME NEW t \in DOMAIN spans'
          PROVE  \E u \in DOMAIN spans :
                   <<spans'[t].originAddr, spans'[t].originPages>>
                     = <<spans[u].originAddr, spans[u].originPages>>
      <4>1. CASE t = L
        BY <4>1, <1>7, <1>8
      <4>2. CASE t \in DOMAIN spans \ group
        BY <4>2, <1>6
      <4> QED BY <4>1, <4>2, <1>6
    <3> QED BY <3>1, <3>2, <3>3
  <2>4. \A p \in DOMAIN pageMap :
          /\ spans'[pageMap'[p]].originAddr = spans[pageMap[p]].originAddr
          /\ spans'[pageMap'[p]].originPages = spans[pageMap[p]].originPages
    <3> SUFFICES ASSUME NEW p \in DOMAIN pageMap
                 PROVE  /\ spans'[pageMap'[p]].originAddr = spans[pageMap[p]].originAddr
                        /\ spans'[pageMap'[p]].originPages = spans[pageMap[p]].originPages
      OBVIOUS
    <3>1. CASE p \in merged
      BY <3>1, <1>4, <1>9, <2>2
    <3>2. CASE p \notin merged
      BY <3>2, <1>4, <1>6, <1>9
    <3> QED BY <3>1, <3>2
  <2>5. ASSUME NEW t \in DOMAIN spans'
        PROVE  /\ spans'[t].originAddr <= t
               /\ End(t)' <= spans'[t].originAddr + spans'[t].originPages
               /\ spans'[t].originAddr = spans[t].originAddr
               /\ spans'[t].originPages = spans[t].originPages
    <3>1. CASE t = L
      BY <3>1, <1>2, <1>8 DEF End
    <3>2. CASE t \in DOMAIN spans \ group
      BY <3>2, <1>6 DEF Inv, OriginsExact, End
    <3> QED BY <3>1, <3>2, <1>6
  <2>6. ASSUME NEW t \in DOMAIN spans',
               NEW p \in Run(spans'[t].originAddr, spans'[t].originPages)
        PROVE  /\ p \in DOMAIN pageMap'
               /\ spans'[pageMap'[p]].originAddr = spans'[t].originAddr
               /\ spans'[pageMap'[p]].originPages = spans'[t].originPages
    <3>1. t \in DOMAIN spans
      BY <1>6, <1>7
    <3>2. p \in Run(spans[t].originAddr, spans[t].originPages)
      BY <2>5, <2>6
    <3> QED BY <3>1, <3>2, <2>4, <2>5, <1>4 DEF Inv, OriginsExact
  <2> QED BY <2>1, <2>3, <2>5, <2>6 DEF OriginsExact, Run
<1>15. CachedExact' /\ cachedFreePages' \in Nat
  <2>1. FreePages' = (FreePages \ merged) \cup merged
    <3>1. ASSUME NEW p \in DOMAIN pageMap
          PROVE  spans'[pageMap'[p]].inFreeList <=>
                   (p \in merged \/ spans[pageMap[p]].inFreeList)
      <4>1. CASE p \in merged
        BY <4>1, <1>4, <1>8
      <4>2. CASE p \notin merged
        BY <4>2, <1>4, <1>6, <1>9
      <4> QED BY <4>1, <4>2
    <3> QED BY <3>1, <1>2, <1>4 DEF FreePages
  <2>2. CountAfterMerge(s) + M \in Nat
    <3>1. CountAfterMerge(s) \in Nat
      BY MergeCount
    <3>2. M \in Nat
      BY <1>2, PageCacheAssumption DEF Sizes
    <3> QED BY <3>1, <3>2
  <2> QED BY <1>3, <2>1, <2>2, MergeCount DEF CachedExact, merged, L, M
<1>16. TypeOK'
  <2>1. DOMAIN spans' \subseteq Pages /\ \A t \in DOMAIN spans' : spans'[t] \in SpanRecord
    BY <1>6, <1>7, <1>8 DEF Inv, TypeOK
  <2>2. spans' \in [DOMAIN spans' -> SpanRecord]
    BY <1>3, <2>1
  <2>3. freeSpans' \in [Sizes -> SUBSET Pages]
    BY <1>5, <1>7 DEF Inv, TypeOK
  <2>4. \A p \in DOMAIN pageMap' : pageMap'[p] \in Pages
    BY <1>4, <1>7 DEF Inv, TypeOK
  <2>5. DOMAIN pageMap' \subseteq Pages /\ pageMap' \in [DOMAIN pageMap' -> Pages]
    BY <1>3, <1>4, <2>4 DEF MapAfterMerge, registerPages, Inv, TypeOK
  <2> QED BY <2>1, <2>2, <2>3, <2>5, <1>3, <1>15 DEF Inv, TypeOK
<1> QED BY <1>12, <1>13, <1>14, <1>15, <1>16 DEF Inv

-----------------------------------------------------------------------------
(* The inductive invariant holds.                                          *)

LEMMA InitInv == Init => Inv
<1> SUFFICES ASSUME Init PROVE Inv
  OBVIOUS
<1>1. DOMAIN spans = {} /\ DOMAIN pageMap = {}
  BY DEF Init, EmptyMap
<1>2. FreePages = {}
  BY <1>1 DEF FreePages
<1>3. CachedExact
  BY <1>2, FS_EmptySet DEF Init, CachedExact
<1>4. TypeOK
  BY DEF Init, EmptyMap, TypeOK
<1>5. PageMapExact /\ FreeListsExact /\ OriginsExact
  BY <1>1 DEF Init, PageMapExact, FreeListsExact, OriginsExact
<1> QED BY <1>3, <1>4, <1>5 DEF Inv

(* The request, with zero rounded up to one page, is a size some run can   *)
(* have, or no run is handed out.                                          *)
LEMMA RequestSize ==
  ASSUME NEW numPages \in 0 .. NumPages, NEW s \in Pages
  PROVE  (IF numPages = 0 THEN 1 ELSE numPages) \in Sizes
BY PageCacheAssumption DEF Pages, Sizes

LEMMA AllocateSpanInv ==
  ASSUME Inv, NEW numPages \in 0 .. NumPages, NEW s \in Pages, NEW large \in BOOLEAN,
         allocateSpan(numPages, s, large)
  PROVE  Inv'
<1> DEFINE n == IF numPages = 0 THEN 1 ELSE numPages
<1>1. n \in Sizes
  BY RequestSize
<1>2. /\ running /\ UNCHANGED running
      /\ \/ TakeExact(n, s, large)
         \/ \E k \in Sizes : TakeAndSplit(n, k, s, large)
         \/ MapNewOrigin(n, s, large)
  BY DEF allocateSpan, lowerBound
<1> HIDE DEF n
<1> QED BY <1>1, <1>2, TakeExactInv, TakeAndSplitInv, MapNewOriginInv

LEMMA DeallocateSpanInv ==
  ASSUME Inv, NEW s \in DOMAIN spans, deallocateSpan(s)
  PROVE  Inv'
BY ReturnToSystemInv, CoalesceAndReleaseInv, CoalesceAndCacheInv DEF deallocateSpan

LEMMA DestroyEmpties ==
  ASSUME Inv, Destroy
  PROVE  DOMAIN spans' = {} /\ DOMAIN pageMap' = {} /\ osPages' = {}
<1>1. DOMAIN spans' = {}
  <2>1. \A s \in DOMAIN spans : s \in DOMAIN pageMap /\ pageMap[s] = s
    BY SpanFacts
  <2> QED BY <2>1 DEF Destroy, Without
<1>2. osPages' = {}
  <2>1. osPages' = osPages \ UNION {Run(a[1], a[2]) : a \in systemAllocs}
    BY DEF Destroy
  <2>2. ASSUME NEW p \in osPages
        PROVE  \E a \in systemAllocs : p \in Run(a[1], a[2])
    <3> DEFINE s == pageMap[p]
    <3>1. s \in DOMAIN spans /\ p \in PagesOf(s)
      BY DEF Inv, OriginsExact, PageMapExact
    <3>2. spans[s].originAddr <= s /\ End(s) <= spans[s].originAddr + spans[s].originPages
      BY <3>1 DEF Inv, OriginsExact
    <3>3. /\ s \in Nat /\ spans[s].numPages \in Nat
          /\ spans[s].originAddr \in Nat /\ spans[s].originPages \in Nat
      BY <3>1, SpanFacts, PageCacheAssumption DEF Pages, Sizes
    <3>4. p \in Run(spans[s].originAddr, spans[s].originPages)
      <4> HIDE DEF s
      <4> QED BY <3>1, <3>2, <3>3 DEF PagesOf, Run, End
    <3>5. <<spans[s].originAddr, spans[s].originPages>> \in systemAllocs
      BY <3>1 DEF Inv, OriginsExact
    <3> QED BY <3>4, <3>5
  <2> QED BY <2>1, <2>2
<1> QED BY <1>1, <1>2 DEF Destroy, EmptyMap

LEMMA DestroyInv ==
  ASSUME Inv, Destroy
  PROVE  Inv'
<1>1. DOMAIN spans' = {} /\ DOMAIN pageMap' = {} /\ osPages' = {}
  BY DestroyEmpties
<1>2. PageMapExact' /\ FreeListsExact' /\ OriginsExact' /\ CachedExact'
  BY <1>1 DEF Destroy, PageMapExact, FreeListsExact, OriginsExact, CachedExact
<1>3. spans' \in [DOMAIN spans' -> SpanRecord] /\ pageMap' \in [DOMAIN pageMap' -> Pages]
  BY <1>1 DEF Destroy, Without, EmptyMap
<1>4. TypeOK'
  BY <1>1, <1>3 DEF Destroy, Inv, TypeOK
<1> QED BY <1>2, <1>4 DEF Inv

LEMMA StutterInv ==
  ASSUME Inv, UNCHANGED vars
  PROVE  Inv'
BY DEF Inv, vars, TypeOK, PageMapExact, FreeListsExact, OriginsExact, CachedExact, FreePages,
       PagesOf, Run, End

(* Inv is inductive, so it holds in every reachable state.                 *)
THEOREM InvHolds == Spec => []Inv
<1>1. Inv /\ [Next]_vars => Inv'
  BY AllocateSpanInv, DeallocateSpanInv, DestroyInv, StutterInv DEF Next
<1> QED BY <1>1, InitInv, PTL DEF Spec

(* The page level keeps its types: no counter of cached pages ever wraps   *)
(* below zero (PageCache.cpp:138 and 270).                                 *)
THEOREM TypeCorrect == Spec => []TypeOK
<1>1. Inv => TypeOK
  BY DEF Inv
<1> QED BY <1>1, InvHolds, PTL

(* findSpan never answers with a deleted span or with the wrong one.       *)
THEOREM PageMapCorrect == Spec => []PageMapExact
<1>1. Inv => PageMapExact
  BY DEF Inv
<1> QED BY <1>1, InvHolds, PTL

(* Every free span is listed once, in the bin of its size.                 *)
THEOREM FreeListsCorrect == Spec => []FreeListsExact
<1>1. Inv => FreeListsExact
  BY DEF Inv
<1> QED BY <1>1, InvHolds, PTL

(* Spans tile the mappings they were carved from; no mapping is unmapped   *)
(* under a live span, and none is lost.                                    *)
THEOREM OriginsCorrect == Spec => []OriginsExact
<1>1. Inv => OriginsExact
  BY DEF Inv
<1> QED BY <1>1, InvHolds, PTL

(* The counter behind the budget and the statistics is exact.              *)
THEOREM CachedCorrect == Spec => []CachedExact
<1>1. Inv => CachedExact
  BY DEF Inv
<1> QED BY <1>1, InvHolds, PTL

(* Once the destructor has run nothing is left mapped.                     *)
THEOREM DestructionClean == Spec => []DestroyedClean
<1>1. Init => DestroyedClean
  BY DEF Init, DestroyedClean
<1>2. Inv /\ DestroyedClean /\ [Next]_vars => DestroyedClean'
  <2> SUFFICES ASSUME Inv, DestroyedClean, [Next]_vars PROVE DestroyedClean'
    OBVIOUS
  <2>1. CASE Destroy
    BY <2>1, DestroyEmpties DEF DestroyedClean
  <2>2. CASE running /\ UNCHANGED running
    BY <2>2 DEF DestroyedClean
  <2>3. CASE UNCHANGED vars
    BY <2>3 DEF DestroyedClean, vars
  <2> QED BY <2>1, <2>2, <2>3 DEF Next, allocateSpan, deallocateSpan
<1> QED BY <1>1, <1>2, InvHolds, PTL DEF Spec

-----------------------------------------------------------------------------
(* Adjacent free spans of one mapping never stay apart.                    *)

(* Taking a whole free span, or mapping a new one, adds no free span.      *)
LEMMA CoalescedFewerFree ==
  ASSUME Coalesced,
         \A t \in DOMAIN spans' : spans'[t].inFreeList =>
            /\ t \in DOMAIN spans
            /\ spans[t].inFreeList
            /\ spans'[t].originAddr = spans[t].originAddr
            /\ spans'[t].numPages = spans[t].numPages
  PROVE  Coalesced'
BY DEF Coalesced, End

LEMMA CoalescedSplit ==
  ASSUME Inv, Coalesced, NEW n \in Sizes, NEW k \in Sizes, NEW s \in Pages,
         NEW large \in BOOLEAN, TakeAndSplit(n, k, s, large)
  PROVE  Coalesced'
<1> DEFINE rest == s + n
<1>1. /\ s \in DOMAIN spans /\ spans[s].inFreeList /\ spans[s].numPages = k
      /\ spans[s] \in SpanRecord
      /\ n \in Nat \ {0} /\ k \in Nat /\ n < k /\ s \in Nat
  BY SpanFacts, PageCacheAssumption DEF TakeAndSplit, Inv, FreeListsExact, Sizes
<1>2. rest \in PagesOf(s) /\ rest # s /\ rest - 1 \in PagesOf(s) /\ rest + (k - n) = s + k
  BY <1>1 DEF PagesOf, Run
<1>3. rest \notin DOMAIN spans
  BY <1>1, <1>2, SpanFacts
<1>4. spans'[s] = [spans[s] EXCEPT !.numPages = n, !.inFreeList = FALSE, !.isLarge = large]
  BY <1>1, <1>2, <1>3 DEF TakeAndSplit
<1>5. ~ spans'[s].inFreeList
  BY <1>1, <1>4 DEF SpanRecord
<1>6. spans'[rest] = [spans[s] EXCEPT !.numPages = k - n, !.inFreeList = TRUE, !.isLarge = FALSE]
  BY <1>1, <1>2, <1>3 DEF TakeAndSplit
<1>7. spans'[rest].numPages = k - n /\ spans'[rest].originAddr = spans[s].originAddr
  BY <1>1, <1>6 DEF SpanRecord
<1>8. /\ DOMAIN spans' = DOMAIN spans \cup {rest}
      /\ \A t \in DOMAIN spans \ {s} : spans'[t] = spans[t]
  BY <1>1, <1>2, <1>3 DEF TakeAndSplit
<1>9. End(rest)' = s + k /\ End(s) = s + k
  BY <1>1, <1>2, <1>7 DEF End
<1> SUFFICES ASSUME NEW t \in DOMAIN spans', NEW u \in DOMAIN spans',
                    spans'[t].inFreeList, spans'[u].inFreeList,
                    spans'[t].originAddr = spans'[u].originAddr, End(t)' = u
             PROVE  FALSE
  BY DEF Coalesced
<1>10. CASE t = rest /\ u = rest
  BY <1>10, <1>1, <1>7 DEF End
<1>11. CASE t = rest /\ u # rest
  <2>1. u \in DOMAIN spans \ {s} /\ u = End(s)
    BY <1>11, <1>5, <1>8, <1>9
  <2>2. spans[u].inFreeList /\ spans[u].originAddr = spans[s].originAddr
    BY <2>1, <1>7, <1>8, <1>11
  <2> QED BY <2>1, <2>2, <1>1 DEF Coalesced
<1>12. CASE t # rest /\ u = rest
  <2>1. t \in DOMAIN spans \ {s} /\ End(t) = rest
    BY <1>12, <1>5, <1>8 DEF End
  <2>2. End(t) - 1 \in PagesOf(t) /\ pageMap[End(t) - 1] = t
    BY <2>1, SpanFacts
  <2>3. pageMap[rest - 1] = s
    BY <1>1, <1>2, SpanFacts
  <2> QED BY <2>1, <2>2, <2>3
<1>13. CASE t # rest /\ u # rest
  <2>1. t \in DOMAIN spans \ {s} /\ u \in DOMAIN spans \ {s} /\ End(t)' = End(t)
    BY <1>13, <1>5, <1>8 DEF End
  <2> QED BY <2>1, <1>8 DEF Coalesced
<1> QED BY <1>10, <1>11, <1>12, <1>13

(* The neighbour test of deallocateSpan misses no free neighbour.          *)
LEMMA NextMergeableIff ==
  ASSUME Inv, NEW s \in InUse, NEW t \in DOMAIN spans,
         spans[t].inFreeList, spans[t].originAddr = spans[s].originAddr, End(s) = t
  PROVE  NextMergeable(s)
<1>1. t \in PagesOf(t) /\ t \in DOMAIN pageMap /\ pageMap[t] = t
  BY SpanFacts
<1>2. t # s
  BY DEF InUse
<1>3. Removable(t)
  BY SpanFacts DEF Removable, Inv, FreeListsExact
<1> QED BY <1>1, <1>2, <1>3 DEF NextMergeable

LEMMA PrevMergeableIff ==
  ASSUME Inv, NEW s \in InUse, NEW t \in DOMAIN spans,
         spans[t].inFreeList, spans[t].originAddr = spans[s].originAddr, End(t) = s
  PROVE  PrevMergeable(s)
<1>1. (s - 1) \in DOMAIN pageMap /\ pageMap[s - 1] = t
  BY SpanFacts
<1>2. t # s
  BY DEF InUse
<1>3. Removable(t)
  BY SpanFacts DEF Removable, Inv, FreeListsExact
<1>4. s # spans[s].originAddr
  <2>1. spans[t].originAddr <= t
    BY DEF Inv, OriginsExact
  <2>2. /\ t \in Nat /\ spans[t].numPages \in Nat \ {0} /\ spans[t].originAddr \in Nat
        /\ t + spans[t].numPages = s
    BY SpanFacts DEF End, Pages
  <2> QED BY <2>1, <2>2
<1> QED BY <1>1, <1>2, <1>3, <1>4 DEF PrevMergeable

LEMMA CoalescedCache ==
  ASSUME Inv, Coalesced, NEW s \in InUse, CoalesceAndCache(s)
  PROVE  Coalesced'
<1> DEFINE group  == {s} \cup Absorbed(s)
           L      == MergedStart(s)
           M      == MergedSize(s)
<1>1. s \in DOMAIN spans /\ ~ spans[s].inFreeList
  BY DEF InUse
<1>2. /\ L \in group /\ group \subseteq DOMAIN spans
      /\ M \in Sizes
      /\ \A x \in group : spans[x].originAddr = spans[s].originAddr
  BY MergeFacts
<1>3. spans' = [x \in DOMAIN spans \ (group \ {L}) |->
                  IF x = L THEN [spans[x] EXCEPT !.numPages = M, !.inFreeList = TRUE,
                                                 !.isLarge = FALSE]
                  ELSE spans[x]]
  BY DEF CoalesceAndCache
<1>4. M \in Nat \ {0} /\ L \in Nat
  BY <1>2, SpanFacts, PageCacheAssumption DEF Sizes
<1>5. L + M = MergedEnd(s)
  <2>1. MergedEnd(s) \in Int
    <3>1. End(s) \in Int
      BY <1>1, SpanFacts DEF End
    <3>2. NextMergeable(s) => End(End(s)) \in Int
      BY NextFacts, SpanFacts DEF End
    <3> QED BY <3>1, <3>2 DEF MergedEnd
  <2> QED BY <1>4, <2>1 DEF MergedSize
<1>6. ASSUME NEW x \in DOMAIN spans, x \notin group, spans[x].inFreeList,
             spans[x].originAddr = spans[s].originAddr
      PROVE  x # MergedEnd(s) /\ End(x) # L
  <2>1. x # MergedEnd(s)
    <3>1. CASE NextMergeable(s)
      <4>1. MergedEnd(s) = End(End(s))
        BY <3>1 DEF MergedEnd
      <4> QED BY <3>1, <4>1, <1>6, NextFacts DEF Coalesced
    <3>2. CASE ~ NextMergeable(s)
      <4>1. MergedEnd(s) = End(s)
        BY <3>2 DEF MergedEnd
      <4> QED BY <3>2, <4>1, <1>6, NextMergeableIff
    <3> QED BY <3>1, <3>2
  <2>2. End(x) # L
    <3>1. CASE PrevMergeable(s)
      <4>1. L = pageMap[s - 1]
        BY <3>1 DEF MergedStart
      <4> QED BY <3>1, <4>1, <1>6, PrevFacts DEF Coalesced
    <3>2. CASE ~ PrevMergeable(s)
      <4>1. L = s
        BY <3>2 DEF MergedStart
      <4> QED BY <3>2, <4>1, <1>6, PrevMergeableIff
    <3> QED BY <3>1, <3>2
  <2> QED BY <2>1, <2>2
<1> HIDE DEF group, L, M
<1>7. /\ DOMAIN spans' = (DOMAIN spans \ group) \cup {L}
      /\ \A t \in DOMAIN spans \ group : spans'[t] = spans[t]
      /\ spans'[L] = [spans[L] EXCEPT !.numPages = M, !.inFreeList = TRUE, !.isLarge = FALSE]
  BY <1>2, <1>3
<1>8. spans[L] \in SpanRecord
  BY <1>2 DEF Inv, TypeOK
<1>9. spans'[L].numPages = M /\ spans'[L].originAddr = spans[s].originAddr
  BY <1>2, <1>7, <1>8 DEF SpanRecord
<1> SUFFICES ASSUME NEW t \in DOMAIN spans', NEW u \in DOMAIN spans',
                    spans'[t].inFreeList, spans'[u].inFreeList,
                    spans'[t].originAddr = spans'[u].originAddr, End(t)' = u
             PROVE  FALSE
  BY DEF Coalesced
<1>10. CASE t = L /\ u = L
  BY <1>10, <1>4, <1>9 DEF End
<1>11. CASE t = L /\ u # L
  <2>1. u = MergedEnd(s)
    BY <1>11, <1>5, <1>9 DEF End
  <2> QED BY <2>1, <1>6, <1>7, <1>9, <1>11
<1>12. CASE t # L /\ u = L
  <2>1. t \in DOMAIN spans \ group /\ End(t) = L
    BY <1>7, <1>12 DEF End
  <2> QED BY <2>1, <1>6, <1>7, <1>9, <1>12, ZenonT(30)
<1>13. CASE t # L /\ u # L
  <2>1. t \in DOMAIN spans \ group /\ u \in DOMAIN spans \ group /\ End(t)' = End(t)
    BY <1>7, <1>13 DEF End
  <2> QED BY <2>1, <1>7 DEF Coalesced
<1> QED BY <1>10, <1>11, <1>12, <1>13

(* No action leaves two adjacent free spans of one mapping unmerged, so a  *)
(* mapping whose pages are all free is always one span.                    *)
THEOREM CoalescedCorrect == Spec => []Coalesced
<1>1. Init => Coalesced
  BY DEF Init, EmptyMap, Coalesced
<1>2. Inv /\ Coalesced /\ [Next]_vars => Coalesced'
  <2> SUFFICES ASSUME Inv, Coalesced, [Next]_vars PROVE Coalesced'
    OBVIOUS
  <2>1. ASSUME NEW numPages \in 0 .. NumPages, NEW s \in Pages, NEW large \in BOOLEAN,
               allocateSpan(numPages, s, large)
        PROVE  Coalesced'
    <3> DEFINE n == IF numPages = 0 THEN 1 ELSE numPages
    <3>1. n \in Sizes
      BY RequestSize
    <3>2. \/ TakeExact(n, s, large)
          \/ \E k \in Sizes : TakeAndSplit(n, k, s, large)
          \/ MapNewOrigin(n, s, large)
      BY <2>1 DEF allocateSpan, lowerBound
    <3> HIDE DEF n
    <3>3. CASE TakeExact(n, s, large)
      <4>1. s \in DOMAIN spans
        BY <3>1, <3>3 DEF TakeExact, Inv, FreeListsExact
      <4>2. spans' = [spans EXCEPT ![s] = [@ EXCEPT !.inFreeList = FALSE, !.isLarge = large]]
        BY <3>3 DEF TakeExact
      <4>3. spans[s] \in SpanRecord
        BY <4>1, SpanFacts
      <4>4. ~ spans'[s].inFreeList /\ \A t \in DOMAIN spans \ {s} : spans'[t] = spans[t]
        BY <4>1, <4>2, <4>3 DEF SpanRecord
      <4> QED BY <4>2, <4>4, CoalescedFewerFree
    <3>4. CASE MapNewOrigin(n, s, large)
      <4>1. /\ DOMAIN spans' = DOMAIN spans \cup {s} /\ ~ spans'[s].inFreeList
            /\ \A t \in DOMAIN spans \ {s} : spans'[t] = spans[t]
        BY <3>4 DEF MapNewOrigin
      <4> QED BY <4>1, CoalescedFewerFree
    <3> QED BY <3>1, <3>2, <3>3, <3>4, CoalescedSplit
  <2>2. ASSUME NEW s \in DOMAIN spans, deallocateSpan(s)
        PROVE  Coalesced'
    <3>1. CASE ReturnToSystem(s) \/ CoalesceAndRelease(s)
      BY <3>1, CoalescedFewerFree DEF ReturnToSystem, CoalesceAndRelease, Without
    <3>2. CASE CoalesceAndCache(s)
      BY <2>2, <3>2, CoalescedCache DEF deallocateSpan
    <3> QED BY <2>2, <3>1, <3>2 DEF deallocateSpan
  <2>3. CASE Destroy
    BY <2>3, DestroyEmpties DEF Coalesced
  <2>4. CASE UNCHANGED vars
    BY <2>4 DEF Coalesced, vars, End
  <2> QED BY <2>1, <2>2, <2>3, <2>4 DEF Next
<1> QED BY <1>1, <1>2, InvHolds, PTL DEF Spec

-----------------------------------------------------------------------------
(* The budget for mappings cached whole.                                   *)

(* A step after which every wholly free page was wholly free before.       *)
LEMMA WhollyFewer ==
  ASSUME Inv, WholeOriginBudget, WhollyFreePages' \subseteq WhollyFreePages
  PROVE  WholeOriginBudget'
<1>1. IsFiniteSet(WhollyFreePages)
  BY FreePagesFinite, FS_Subset DEF WhollyFreePages
<1>2. /\ IsFiniteSet(WhollyFreePages')
      /\ Cardinality(WhollyFreePages') <= Cardinality(WhollyFreePages)
  BY <1>1, FS_Subset, Zenon
<1>3. Cardinality(WhollyFreePages) \in Nat /\ Cardinality(WhollyFreePages') \in Nat
  BY <1>1, <1>2, FS_CardinalityType
<1> QED BY <1>2, <1>3, PageCacheAssumption DEF WholeOriginBudget

LEMMA BudgetTake ==
  ASSUME Inv, WholeOriginBudget, NEW n \in Sizes, NEW s \in Pages, NEW large \in BOOLEAN,
         TakeExact(n, s, large)
  PROVE  WholeOriginBudget'
<1>1. s \in DOMAIN spans
  BY DEF TakeExact, Inv, FreeListsExact
<1>2. /\ spans' = [spans EXCEPT ![s] = [@ EXCEPT !.inFreeList = FALSE, !.isLarge = large]]
      /\ pageMap' = pageMap
  BY DEF TakeExact
<1>3. spans[s] \in SpanRecord
  BY <1>1, SpanFacts
<1>4. ~ spans'[s].inFreeList /\ \A t \in DOMAIN spans \ {s} : spans'[t] = spans[t]
  BY <1>1, <1>2, <1>3 DEF SpanRecord
<1>5. \A p \in DOMAIN pageMap : pageMap[p] \in DOMAIN spans
  BY DEF Inv, PageMapExact
<1>6. WhollyFreePages' \subseteq WhollyFreePages
  BY <1>2, <1>4, <1>5 DEF WhollyFreePages, FreePages, OwnsOrigin
<1> QED BY <1>6, WhollyFewer

LEMMA BudgetSplit ==
  ASSUME Inv, WholeOriginBudget, NEW n \in Sizes, NEW k \in Sizes, NEW s \in Pages,
         NEW large \in BOOLEAN, TakeAndSplit(n, k, s, large)
  PROVE  WholeOriginBudget'
<1> DEFINE rest == s + n
<1>1. /\ s \in DOMAIN spans /\ spans[s].numPages = k /\ spans[s] \in SpanRecord
      /\ n \in Nat \ {0} /\ k \in Nat /\ n < k /\ s \in Nat
  BY SpanFacts, PageCacheAssumption DEF TakeAndSplit, Inv, FreeListsExact, Sizes
<1>2. rest \in PagesOf(s) /\ rest # s /\ Run(rest, k - n) \subseteq PagesOf(s)
  BY <1>1 DEF PagesOf, Run
<1>3. rest \notin DOMAIN spans /\ \A p \in PagesOf(s) : p \in DOMAIN pageMap
  BY <1>1, <1>2, SpanFacts
<1>4. spans'[s] = [spans[s] EXCEPT !.numPages = n, !.inFreeList = FALSE, !.isLarge = large]
  BY <1>1, <1>2, <1>3 DEF TakeAndSplit
<1>5. ~ spans'[s].inFreeList
  BY <1>1, <1>4 DEF SpanRecord
<1>6. spans'[rest] = [spans[s] EXCEPT !.numPages = k - n, !.inFreeList = TRUE, !.isLarge = FALSE]
  BY <1>1, <1>2, <1>3 DEF TakeAndSplit
<1>7. spans'[rest].originAddr = spans[s].originAddr
  BY <1>1, <1>6 DEF SpanRecord
<1>8. spans'[rest].originAddr # rest
  <2>1. spans[s].originAddr <= s /\ spans[s].originAddr \in Nat
    BY <1>1, SpanFacts DEF Inv, OriginsExact, Pages
  <2> QED BY <1>1, <1>7, <2>1
<1>9. \A t \in DOMAIN spans \ {s} : spans'[t] = spans[t]
  BY <1>1, <1>2, <1>3 DEF TakeAndSplit
<1>10. pageMap' = registerPages(registerPages(pageMap, rest, k - n), s, n)
  BY DEF TakeAndSplit
<1>11. ASSUME NEW p \in WhollyFreePages' PROVE p \in WhollyFreePages
  <2>1. /\ p \in DOMAIN pageMap' /\ spans'[pageMap'[p]].inFreeList
        /\ spans'[pageMap'[p]].originAddr = pageMap'[p]
        /\ spans'[pageMap'[p]].numPages = spans'[pageMap'[p]].originPages
    BY <1>11 DEF WhollyFreePages, FreePages, OwnsOrigin
  <2>2. pageMap'[p] # s /\ pageMap'[p] # rest
    BY <1>5, <1>8, <2>1
  <2>3. p \in DOMAIN pageMap /\ pageMap'[p] = pageMap[p]
    BY <1>10, <2>1, <2>2 DEF registerPages
  <2>4. pageMap[p] \in DOMAIN spans
    BY <2>3 DEF Inv, PageMapExact
  <2> QED BY <1>9, <2>1, <2>2, <2>3, <2>4 DEF WhollyFreePages, FreePages, OwnsOrigin
<1>12. WhollyFreePages' \subseteq WhollyFreePages
  BY <1>11
<1> QED BY <1>12, WhollyFewer

LEMMA BudgetMap ==
  ASSUME Inv, WholeOriginBudget, NEW n \in Sizes, NEW s \in Pages, NEW large \in BOOLEAN,
         MapNewOrigin(n, s, large)
  PROVE  WholeOriginBudget'
<1>1. PICK m \in n .. (n + Granularity - 1) :
        /\ Run(s, m) \subseteq Pages \ osPages
        /\ spans' = [x \in DOMAIN spans \cup {s} |->
                       IF x = s THEN [numPages |-> m, originAddr |-> s, originPages |-> m,
                                      inFreeList |-> FALSE, isLarge |-> large]
                       ELSE spans[x]]
        /\ pageMap' = registerPages(pageMap, s, m)
  BY DEF MapNewOrigin
<1>2. ~ spans'[s].inFreeList /\ \A t \in DOMAIN spans \ {s} : spans'[t] = spans[t]
  BY <1>1
<1>3. ASSUME NEW p \in WhollyFreePages' PROVE p \in WhollyFreePages
  <2>1. p \in DOMAIN pageMap' /\ pageMap'[p] # s
    BY <1>2, <1>3 DEF WhollyFreePages, FreePages
  <2>2. p \in DOMAIN pageMap /\ pageMap'[p] = pageMap[p]
    BY <1>1, <2>1 DEF registerPages
  <2>3. pageMap[p] \in DOMAIN spans \ {s}
    BY <2>1, <2>2 DEF Inv, PageMapExact
  <2> QED BY <1>2, <1>3, <2>2, <2>3 DEF WhollyFreePages, FreePages, OwnsOrigin
<1>4. WhollyFreePages' \subseteq WhollyFreePages
  BY <1>3
<1> QED BY <1>4, WhollyFewer

LEMMA BudgetReturn ==
  ASSUME Inv, WholeOriginBudget, NEW s \in InUse,
         ReturnToSystem(s) \/ CoalesceAndRelease(s)
  PROVE  WholeOriginBudget'
<1> DEFINE group == IF ReturnToSystem(s) THEN {s} ELSE {s} \cup Absorbed(s)
           gone  == IF ReturnToSystem(s) THEN PagesOf(s) ELSE Run(MergedStart(s), MergedSize(s))
<1>1. \A t \in group : PagesOf(t) \subseteq gone
  BY MergeFacts
<1>2. /\ DOMAIN spans' = DOMAIN spans \ group
      /\ \A t \in DOMAIN spans \ group : spans'[t] = spans[t]
  BY DEF ReturnToSystem, CoalesceAndRelease, Without
<1>3. /\ DOMAIN pageMap' = DOMAIN pageMap \ gone
      /\ \A p \in DOMAIN pageMap' : pageMap'[p] = pageMap[p]
  BY MapAfterMergeFacts
  DEF ReturnToSystem, CoalesceAndRelease, ReleaseOrigin, unregisterPages, PagesOf
<1>4. \A p \in DOMAIN pageMap : pageMap[p] \in DOMAIN spans /\ p \in PagesOf(pageMap[p])
  BY DEF Inv, PageMapExact
<1> HIDE DEF group, gone
<1>5. WhollyFreePages' \subseteq WhollyFreePages
  BY <1>1, <1>2, <1>3, <1>4 DEF WhollyFreePages, FreePages, OwnsOrigin
<1> QED BY <1>5, WhollyFewer

LEMMA BudgetCache ==
  ASSUME Inv, running, UNCHANGED running, WholeOriginBudget,
         NEW s \in InUse, CoalesceAndCache(s)
  PROVE  WholeOriginBudget'
<1> DEFINE group  == {s} \cup Absorbed(s)
           L      == MergedStart(s)
           M      == MergedSize(s)
           merged == Run(L, M)
<1>1. /\ L \in group /\ group \subseteq DOMAIN spans /\ M \in Sizes
      /\ \A x \in group : spans[x].originAddr = spans[s].originAddr
      /\ \A x \in group : spans[x].originPages = spans[s].originPages
      /\ \A x \in group : PagesOf(x) \subseteq merged
  BY MergeFacts
<1>2. CASE L = spans[s].originAddr /\ M = spans[s].originPages
  <2>1. CountAfterMerge(s) + M <= MaxCachedPages
    <3>1. CountAfterMerge(s) \in Nat
      BY MergeCount
    <3>2. M \in Nat
      BY <1>1, PageCacheAssumption DEF Sizes
    <3>3. ~ (CountAfterMerge(s) + M > MaxCachedPages)
      BY <1>2 DEF CoalesceAndCache, OverBudget
    <3> QED BY <3>1, <3>2, <3>3, PageCacheAssumption
  <2>2. Inv'
    BY CoalesceAndCacheInv
  <2>3. Cardinality(FreePages') <= MaxCachedPages
    BY <2>1, <2>2 DEF CoalesceAndCache, Inv, CachedExact
  <2>4. IsFiniteSet(FreePages') /\ WhollyFreePages' \subseteq FreePages'
    <3>1. IsFiniteSet(Pages)
      BY FS_Interval, PageCacheAssumption DEF Pages
    <3>2. FreePages' \subseteq Pages
      BY <2>2 DEF FreePages, Inv, TypeOK
    <3>3. IsFiniteSet(FreePages')
      BY <3>1, <3>2, FS_Subset, Zenon
    <3> QED BY <3>3 DEF WhollyFreePages
  <2>5. /\ Cardinality(WhollyFreePages') <= Cardinality(FreePages')
        /\ IsFiniteSet(WhollyFreePages')
    BY <2>4, FS_Subset, Zenon
  <2>6. Cardinality(WhollyFreePages') \in Nat /\ Cardinality(FreePages') \in Nat
    BY <2>4, <2>5, FS_CardinalityType
  <2> QED BY <2>3, <2>5, <2>6, PageCacheAssumption DEF WholeOriginBudget
<1>3. CASE ~ (L = spans[s].originAddr /\ M = spans[s].originPages)
  <2>1. spans' = [x \in DOMAIN spans \ (group \ {L}) |->
                   IF x = L THEN [spans[x] EXCEPT !.numPages = M, !.inFreeList = TRUE,
                                                  !.isLarge = FALSE]
                   ELSE spans[x]]
    BY DEF CoalesceAndCache
  <2>2. /\ DOMAIN pageMap' = DOMAIN pageMap
        /\ \A p \in merged : pageMap'[p] = L
        /\ \A p \in DOMAIN pageMap \ merged : pageMap'[p] = pageMap[p]
    BY MapAfterMergeFacts DEF CoalesceAndCache
  <2> HIDE DEF group, L, M, merged
  <2>3. /\ spans'[L] = [spans[L] EXCEPT !.numPages = M, !.inFreeList = TRUE, !.isLarge = FALSE]
        /\ \A t \in DOMAIN spans \ group : spans'[t] = spans[t]
    BY <1>1, <2>1
  <2>4. spans[L] \in SpanRecord
    BY <1>1 DEF Inv, TypeOK
  <2>5. /\ spans'[L].numPages = M
        /\ spans'[L].originAddr = spans[s].originAddr
        /\ spans'[L].originPages = spans[s].originPages
    BY <1>1, <2>3, <2>4 DEF SpanRecord
  <2>6. \A p \in DOMAIN pageMap : pageMap[p] \in DOMAIN spans /\ p \in PagesOf(pageMap[p])
    BY DEF Inv, PageMapExact
  <2>7. ASSUME NEW p \in WhollyFreePages' PROVE p \in WhollyFreePages
    <3>1. /\ p \in DOMAIN pageMap' /\ spans'[pageMap'[p]].inFreeList
          /\ pageMap'[p] = spans'[pageMap'[p]].originAddr
          /\ spans'[pageMap'[p]].numPages = spans'[pageMap'[p]].originPages
      BY <2>7 DEF WhollyFreePages, FreePages, OwnsOrigin
    <3>2. p \notin merged
      BY <3>1, <1>3, <2>2, <2>5
    <3>3. pageMap'[p] = pageMap[p] /\ pageMap[p] \in DOMAIN spans \ group
      BY <3>1, <3>2, <1>1, <2>2, <2>6
    <3> QED BY <3>1, <3>3, <2>2, <2>3 DEF WhollyFreePages, FreePages, OwnsOrigin
  <2>8. WhollyFreePages' \subseteq WhollyFreePages
    BY <2>7
  <2> QED BY <2>8, WhollyFewer
<1> QED BY <1>2, <1>3

(* Mappings that are cached whole never exceed the budget, whatever the    *)
(* pieces of other mappings add to the counter.                            *)
THEOREM BudgetCorrect == Spec => []WholeOriginBudget
<1>1. Init => WholeOriginBudget
  <2> SUFFICES ASSUME Init PROVE WholeOriginBudget
    OBVIOUS
  <2>1. WhollyFreePages = {}
    BY DEF Init, EmptyMap, WhollyFreePages, FreePages
  <2>2. Cardinality(WhollyFreePages) = 0
    BY <2>1, FS_EmptySet
  <2> QED BY <2>2, PageCacheAssumption DEF WholeOriginBudget
<1>2. Inv /\ WholeOriginBudget /\ [Next]_vars => WholeOriginBudget'
  <2> SUFFICES ASSUME Inv, WholeOriginBudget, [Next]_vars PROVE WholeOriginBudget'
    OBVIOUS
  <2>1. ASSUME NEW numPages \in 0 .. NumPages, NEW s \in Pages, NEW large \in BOOLEAN,
               allocateSpan(numPages, s, large)
        PROVE  WholeOriginBudget'
    <3> DEFINE n == IF numPages = 0 THEN 1 ELSE numPages
    <3>1. n \in Sizes
      BY RequestSize
    <3>2. \/ TakeExact(n, s, large)
          \/ \E k \in Sizes : TakeAndSplit(n, k, s, large)
          \/ MapNewOrigin(n, s, large)
      BY <2>1 DEF allocateSpan, lowerBound
    <3> HIDE DEF n
    <3> QED BY <3>1, <3>2, BudgetTake, BudgetSplit, BudgetMap
  <2>2. ASSUME NEW s \in DOMAIN spans, deallocateSpan(s)
        PROVE  WholeOriginBudget'
    BY <2>2, BudgetReturn, BudgetCache DEF deallocateSpan
  <2>3. CASE Destroy
    <3>1. WhollyFreePages' = {}
      BY <2>3, DestroyEmpties DEF WhollyFreePages, FreePages
    <3> QED BY <3>1, WhollyFewer
  <2>4. CASE UNCHANGED vars
    BY <2>4, WhollyFewer DEF vars, WhollyFreePages, FreePages, OwnsOrigin
  <2> QED BY <2>1, <2>2, <2>3, <2>4 DEF Next
<1> QED BY <1>1, <1>2, InvHolds, PTL DEF Spec

-----------------------------------------------------------------------------
(* Refinement of RangeAllocator.                                            *)

(* A step that adds the span s of m pages to the spans in use, clear of    *)
(* all of them, allocates.                                                 *)
LEMMA AllocMaps ==
  ASSUME running, UNCHANGED running,
         NEW n \in Sizes, NEW m \in n .. (n + Granularity - 1), NEW s \in Pages,
         Run(s, m) \subseteq Pages,
         \A t \in InUse : PagesOf(t) \cap Run(s, m) = {},
         \A t \in InUse : t # s /\ spans'[t].numPages = spans[t].numPages,
         InUse' = InUse \cup {s}, spans'[s].numPages = m
  PROVE  Abstract!Alloc(n, s)
<1>1. LiveRuns' = [t \in DOMAIN LiveRuns \cup {s} |-> IF t = s THEN m ELSE LiveRuns[t]]
  BY DEF LiveRuns
<1>2. Abstract!Overlapping(s, m) = {}
  BY DEF Abstract!Overlapping, Abstract!Run, LiveRuns, PagesOf, Run
<1>3. n + (Granularity - 1) = n + Granularity - 1
  BY PageCacheAssumption DEF Sizes
<1> QED BY <1>1, <1>2, <1>3 DEF Abstract!Alloc, Abstract!Units, Abstract!Run,
                          Sizes, Pages, Run

(* A step that only takes s out of the spans in use frees.                 *)
LEMMA FreeMaps ==
  ASSUME running, UNCHANGED running, NEW s \in InUse,
         InUse' = InUse \ {s},
         \A t \in InUse \ {s} : spans'[t].numPages = spans[t].numPages
  PROVE  Abstract!Free(s)
BY DEF Abstract!Free, LiveRuns

LEMMA AllocateSpanMaps ==
  ASSUME Inv, NEW numPages \in 0 .. NumPages, NEW s \in Pages, NEW large \in BOOLEAN,
         allocateSpan(numPages, s, large)
  PROVE  \E n \in Sizes : Abstract!Alloc(n, s)
<1> DEFINE n == IF numPages = 0 THEN 1 ELSE numPages
<1>1. n \in Sizes
  BY RequestSize
<1>2. /\ running /\ UNCHANGED running
      /\ \/ TakeExact(n, s, large)
         \/ \E k \in Sizes : TakeAndSplit(n, k, s, large)
         \/ MapNewOrigin(n, s, large)
  BY DEF allocateSpan, lowerBound
<1> HIDE DEF n
<1>3. /\ \A t \in InUse : /\ t \in DOMAIN spans /\ t \in PagesOf(t)
                          /\ \A p \in PagesOf(t) : p \in DOMAIN pageMap /\ pageMap[p] = t
  BY SpanFacts DEF InUse
<1>4. CASE TakeExact(n, s, large)
  <2>1. s \in DOMAIN spans /\ spans[s].inFreeList /\ spans[s].numPages = n
    BY <1>1, <1>4 DEF TakeExact, Inv, FreeListsExact
  <2>2. spans' = [spans EXCEPT ![s] = [@ EXCEPT !.inFreeList = FALSE, !.isLarge = large]]
    BY <1>4 DEF TakeExact
  <2>3. spans[s] \in SpanRecord
    BY <2>1, SpanFacts
  <2>4. ~ spans'[s].inFreeList /\ spans'[s].numPages = n
    BY <2>1, <2>2, <2>3 DEF SpanRecord
  <2>5. DOMAIN spans' = DOMAIN spans /\ \A t \in DOMAIN spans \ {s} : spans'[t] = spans[t]
    BY <2>1, <2>2
  <2>6. s \notin InUse /\ InUse' = InUse \cup {s}
    BY <2>1, <2>4, <2>5 DEF InUse
  <2>7. \A t \in InUse : t # s /\ spans'[t].numPages = spans[t].numPages
    BY <1>3, <2>5, <2>6
  <2>8. Run(s, n) \subseteq Pages /\ \A p \in Run(s, n) : pageMap[p] = s
    BY <2>1, SpanFacts DEF PagesOf
  <2>9. \A t \in InUse : PagesOf(t) \cap Run(s, n) = {}
    BY <1>3, <2>7, <2>8
  <2>10. n \in n .. (n + Granularity - 1)
    BY <1>1, PageCacheAssumption DEF Sizes
  <2> QED BY <1>1, <1>2, <2>4, <2>6, <2>7, <2>8, <2>9, <2>10, AllocMaps
<1>5. ASSUME NEW k \in Sizes, TakeAndSplit(n, k, s, large)
      PROVE  \E i \in Sizes : Abstract!Alloc(i, s)
  <2> DEFINE rest == s + n
  <2>1. /\ s \in DOMAIN spans /\ spans[s].inFreeList /\ spans[s].numPages = k
        /\ spans[s] \in SpanRecord
        /\ n \in Nat \ {0} /\ k \in Nat /\ n < k /\ s \in Nat
    BY <1>1, <1>5, SpanFacts, PageCacheAssumption DEF TakeAndSplit, Inv, FreeListsExact, Sizes
  <2>2. rest \in PagesOf(s) /\ rest # s /\ Run(s, n) \subseteq PagesOf(s)
    BY <2>1 DEF PagesOf, Run
  <2>3. rest \notin DOMAIN spans
    BY <2>1, <2>2, SpanFacts
  <2>4. spans'[s] = [spans[s] EXCEPT !.numPages = n, !.inFreeList = FALSE, !.isLarge = large]
    BY <1>5, <2>1, <2>2, <2>3 DEF TakeAndSplit
  <2>5. ~ spans'[s].inFreeList /\ spans'[s].numPages = n
    BY <2>1, <2>4 DEF SpanRecord
  <2>6. spans'[rest] = [spans[s] EXCEPT !.numPages = k - n, !.inFreeList = TRUE, !.isLarge = FALSE]
    BY <1>5, <2>1, <2>2, <2>3 DEF TakeAndSplit
  <2>7. spans'[rest].inFreeList
    BY <2>1, <2>6 DEF SpanRecord
  <2>8. /\ DOMAIN spans' = DOMAIN spans \cup {rest}
        /\ \A t \in DOMAIN spans \ {s} : spans'[t] = spans[t]
    BY <1>5, <2>1, <2>2, <2>3 DEF TakeAndSplit
  <2>9. s \notin InUse /\ InUse' = InUse \cup {s}
    BY <2>1, <2>3, <2>5, <2>7, <2>8 DEF InUse
  <2>10. \A t \in InUse : t # s /\ spans'[t].numPages = spans[t].numPages
    BY <1>3, <2>8, <2>9
  <2>11. Run(s, n) \subseteq Pages /\ \A p \in Run(s, n) : pageMap[p] = s
    BY <2>1, <2>2, SpanFacts
  <2>12. \A t \in InUse : PagesOf(t) \cap Run(s, n) = {}
    BY <1>3, <2>10, <2>11
  <2>13. n \in n .. (n + Granularity - 1)
    BY <2>1, PageCacheAssumption
  <2> QED BY <1>1, <1>2, <2>5, <2>9, <2>10, <2>11, <2>12, <2>13, AllocMaps
<1>6. CASE MapNewOrigin(n, s, large)
  <2>1. PICK m \in n .. (n + Granularity - 1) :
          /\ Run(s, m) \subseteq Pages \ osPages
          /\ spans' = [x \in DOMAIN spans \cup {s} |->
                         IF x = s THEN [numPages |-> m, originAddr |-> s, originPages |-> m,
                                        inFreeList |-> FALSE, isLarge |-> large]
                         ELSE spans[x]]
    BY <1>6 DEF MapNewOrigin
  <2>2. n \in Nat \ {0} /\ m \in Nat \ {0} /\ s \in Nat
    BY <1>1, PageCacheAssumption DEF Sizes, Pages
  <2>3. s \in Run(s, m) /\ (s + m - 1) \in Run(s, m)
    BY <2>2 DEF Run
  <2>4. m \in Sizes
    BY <2>1, <2>2, <2>3, PageCacheAssumption DEF Sizes, Pages
  <2>5. \A p \in Run(s, m) : p \notin DOMAIN pageMap
    BY <2>1 DEF Inv, OriginsExact
  <2>6. s \notin DOMAIN spans
    BY <2>3, <2>5, SpanFacts
  <2>7. /\ DOMAIN spans' = DOMAIN spans \cup {s}
        /\ \A t \in DOMAIN spans : spans'[t] = spans[t]
        /\ ~ spans'[s].inFreeList /\ spans'[s].numPages = m
    BY <2>1, <2>6
  <2>8. InUse' = InUse \cup {s}
    BY <2>6, <2>7 DEF InUse
  <2>9. \A t \in InUse : t # s /\ spans'[t].numPages = spans[t].numPages
    BY <1>3, <2>6, <2>7
  <2>10. \A t \in InUse : PagesOf(t) \cap Run(s, m) = {}
    BY <1>3, <2>5
  <2>11. Run(s, m) \subseteq Pages
    BY <2>1
  <2> QED BY <1>1, <1>2, <2>2, <2>4, <2>7, <2>8, <2>9, <2>10, <2>11, AllocMaps
<1> QED BY <1>2, <1>4, <1>5, <1>6

LEMMA DeallocateSpanMaps ==
  ASSUME Inv, NEW s \in DOMAIN spans, deallocateSpan(s)
  PROVE  Abstract!Free(s)
<1>1. running /\ UNCHANGED running /\ s \in InUse
  BY DEF deallocateSpan
<1>2. CASE ReturnToSystem(s)
  <2>1. spans' = Without({s})
    BY <1>2 DEF ReturnToSystem
  <2>2. InUse' = InUse \ {s} /\ \A t \in InUse \ {s} : spans'[t] = spans[t]
    BY <2>1 DEF InUse, Without
  <2> QED BY <1>1, <2>2, FreeMaps
<1>3. CASE CoalesceAndRelease(s)
  <2>1. spans' = Without({s} \cup Absorbed(s))
    BY <1>3 DEF CoalesceAndRelease
  <2>2. \A x \in Absorbed(s) : spans[x].inFreeList
    BY <1>1, MergeFacts
  <2>3. InUse' = InUse \ {s} /\ \A t \in InUse \ {s} : spans'[t] = spans[t]
    BY <2>1, <2>2 DEF InUse, Without
  <2> QED BY <1>1, <2>3, FreeMaps
<1>4. CASE CoalesceAndCache(s)
  <2> DEFINE group == {s} \cup Absorbed(s)
             L == MergedStart(s)
             M == MergedSize(s)
  <2>1. /\ L \in group /\ group \subseteq DOMAIN spans
        /\ \A x \in group : x # s => spans[x].inFreeList
    BY <1>1, MergeFacts
  <2>2. spans' = [x \in DOMAIN spans \ (group \ {L}) |->
                   IF x = L THEN [spans[x] EXCEPT !.numPages = M, !.inFreeList = TRUE,
                                                  !.isLarge = FALSE]
                   ELSE spans[x]]
    BY <1>4 DEF CoalesceAndCache
  <2>3. s \in group
    OBVIOUS
  <2> HIDE DEF group, L, M
  <2>4. /\ DOMAIN spans' = (DOMAIN spans \ group) \cup {L}
        /\ \A t \in DOMAIN spans \ group : spans'[t] = spans[t]
        /\ spans'[L] = [spans[L] EXCEPT !.numPages = M, !.inFreeList = TRUE, !.isLarge = FALSE]
    BY <2>1, <2>2
  <2>5. spans'[L].inFreeList
    <3>1. spans[L] \in SpanRecord
      BY <2>1 DEF Inv, TypeOK
    <3> QED BY <3>1, <2>4 DEF SpanRecord
  <2>6. \A t \in InUse \ {s} : t \in DOMAIN spans \ group
    BY <2>1 DEF InUse
  <2>7. InUse' = InUse \ {s}
    BY <2>1, <2>3, <2>4, <2>5, <2>6 DEF InUse
  <2> QED BY <1>1, <2>4, <2>6, <2>7, FreeMaps
<1> QED BY <1>2, <1>3, <1>4 DEF deallocateSpan

(* The page cache implements the page allocator: free lists, coalescing,   *)
(* the page map and the budget are invisible to its callers, who never see *)
(* two overlapping runs in use nor a run that changes under them.          *)
THEOREM RefinesRangeAllocator == Spec => ImplementsRangeAllocator
<1>1. Init => Abstract!Init
  <2> SUFFICES ASSUME Init PROVE Abstract!Init
    OBVIOUS
  <2>1. InUse = {}
    BY DEF Init, EmptyMap, InUse
  <2> QED BY <2>1 DEF Init, Abstract!Init, LiveRuns
<1>2. Inv /\ [Next]_vars => [Abstract!Next]_(Abstract!allocatorVars)
  <2> SUFFICES ASSUME Inv, [Next]_vars PROVE [Abstract!Next]_(Abstract!allocatorVars)
    OBVIOUS
  <2>1. ASSUME NEW numPages \in 0 .. NumPages, NEW s \in Pages, NEW large \in BOOLEAN,
               allocateSpan(numPages, s, large)
        PROVE  Abstract!Next
    BY <2>1, AllocateSpanMaps DEF Abstract!Next, Abstract!Lengths, Abstract!Units, Sizes, Pages
  <2>2. ASSUME NEW s \in DOMAIN spans, deallocateSpan(s)
        PROVE  Abstract!Next
    BY <2>2, DeallocateSpanMaps, SpanFacts DEF Abstract!Next, Abstract!Units, Pages
  <2>3. CASE Destroy
    <3>1. InUse' = {}
      BY <2>3, DestroyEmpties DEF InUse
    <3>2. Abstract!Destroy
      BY <2>3, <3>1 DEF Destroy, Abstract!Destroy, LiveRuns
    <3> QED BY <3>2 DEF Abstract!Next
  <2>4. CASE UNCHANGED vars
    BY <2>4 DEF vars, Abstract!allocatorVars, LiveRuns, InUse
  <2> QED BY <2>1, <2>2, <2>3, <2>4 DEF Next
<1> QED BY <1>1, <1>2, InvHolds, PTL DEF Spec, ImplementsRangeAllocator, Abstract!Spec

-----------------------------------------------------------------------------
(* What RangeAllocator promises is kept by every implementation of it.     *)
LEMMA StaysDisjoint ==
  Abstract!Disjoint /\ [Abstract!Next]_(Abstract!allocatorVars) => Abstract!Disjoint'
<1> SUFFICES ASSUME Abstract!Disjoint, [Abstract!Next]_(Abstract!allocatorVars) PROVE Abstract!Disjoint'
  OBVIOUS
<1>1. ASSUME NEW n \in Abstract!Lengths, NEW s \in Abstract!Units, Abstract!Alloc(n, s)
      PROVE  Abstract!Disjoint'
  BY <1>1 DEF Abstract!Alloc, Abstract!Overlapping, Abstract!Disjoint
<1>2. ASSUME NEW s \in Abstract!Units, Abstract!Free(s) PROVE Abstract!Disjoint'
  BY <1>2 DEF Abstract!Free, Abstract!Disjoint
<1>3. CASE Abstract!Destroy
  BY <1>3 DEF Abstract!Destroy, Abstract!Disjoint
<1>4. CASE UNCHANGED Abstract!allocatorVars
  BY <1>4 DEF Abstract!allocatorVars, Abstract!Disjoint
<1> QED BY <1>1, <1>2, <1>3, <1>4 DEF Abstract!Next

(* Two spans in use never share a page.                                    *)
THEOREM RunsApart == Spec => []Abstract!Disjoint
<1>1. Abstract!Init => Abstract!Disjoint
  BY DEF Abstract!Init, Abstract!Disjoint
<1> QED BY <1>1, StaysDisjoint, RefinesRangeAllocator, PTL DEF ImplementsRangeAllocator, Abstract!Spec

-----------------------------------------------------------------------------
(* The second part: between two updates of the page map.                   *)

Phases == {"idle", "split", "mapRest", "mapSpan", "hand", "record", "newSpan", "register",
           "next", "redirectNext", "deleteNext", "prev", "redirectPrev", "deletePrev",
           "place", "unregister", "release"}

OpRecord == [at : Phases, span : Nat, size : Nat, large : BOOLEAN, other : Nat]

(* The pages the operation under way works on.                             *)
Mine ==
  CASE op.at = "idle" -> {}
    [] op.at \in {"mapRest", "mapSpan", "record", "newSpan"} -> Run(me, op.size)
    [] op.at \in {"redirectPrev", "deletePrev"} -> PagesOf(op.other)
    [] OTHER -> PagesOf(me)

MapsTo(S, x) == \A p \in S : p \in DOMAIN pageMap /\ pageMap[p] = x
NoneTo(x)    == \A p \in DOMAIN pageMap : pageMap[p] # x

Placed == Binned \cup held

(* A span of a recorded mapping.                                           *)
Recorded(s) ==
  /\ s \in DOMAIN spans
  /\ <<spans[s].originAddr, spans[s].originPages>> \in systemAllocs
  /\ spans[s].originAddr <= s
  /\ End(s) <= spans[s].originAddr + spans[s].originPages

SameMapping(s, t) ==
  spans[s].originAddr = spans[t].originAddr /\ spans[s].originPages = spans[t].originPages

StepTypeOK ==
  /\ TypeOK
  /\ op \in OpRecord
  /\ held \subseteq Pages
  /\ running \/ op = Idle
  /\ thrown \in BOOLEAN

(* A bin holds spans of its size; they have no flag of a large object.     *)
BinsExact ==
  \A k \in Sizes : \A s \in freeSpans[k] :
    s \in DOMAIN spans /\ spans[s].inFreeList /\ spans[s].numPages = k /\ ~ spans[s].isLarge

HeldExact == \A s \in held : s \in DOMAIN spans /\ ~ spans[s].inFreeList

(* Spans in bins, spans held and the operation's pages do not overlap.     *)
Apart ==
  /\ \A s, t \in Placed : s # t => PagesOf(s) \cap PagesOf(t) = {}
  /\ \A s \in Placed : PagesOf(s) \cap Mine = {}

(* The page map knows the spans in bins and those held, except that the    *)
(* remainder of a split is in its bin before it is in the map.             *)
PlacedMapped == \A s \in Placed : MapsTo(PagesOf(s), s) \/ (op.at = "mapRest" /\ s = Rest)

(* The page map leads to spans that exist, each by its first page too.     *)
MapSound ==
  \A p \in DOMAIN pageMap :
    /\ p \in PagesOf(pageMap[p])
    /\ pageMap[p] \in DOMAIN pageMap /\ pageMap[pageMap[p]] = pageMap[p]
    /\ Recorded(pageMap[p])

AllocsApart ==
  /\ \A a \in systemAllocs : Run(a[1], a[2]) \subseteq osPages
  /\ \A a, b \in systemAllocs : a # b => Run(a[1], a[2]) \cap Run(b[1], b[2]) = {}

BinnedPages == {p \in Pages : \E s \in Binned : p \in PagesOf(s)}
Counted     == running => cachedFreePages = Cardinality(BinnedPages)

(* How far the operation is.                                               *)
FreshRun == 0 < op.size /\ Run(me, op.size) \subseteq osPages /\ Run(me, op.size) \cap DOMAIN pageMap = {}

Loose(s) == s \in DOMAIN spans /\ ~ spans[s].inFreeList

OpExact ==
  /\ op.at \in {"split", "hand", "next", "prev", "place", "unregister"} =>
       Loose(me) /\ MapsTo(PagesOf(me), me)
  /\ op.at \in {"split", "next", "prev", "place", "redirectNext", "deleteNext"} => ~ spans[me].isLarge
  /\ op.at \in {"split", "mapRest"} => 0 < op.size /\ op.size < spans[me].numPages
  /\ op.at = "mapRest" =>
       /\ Loose(me) /\ MapsTo(PagesOf(me), me)
       /\ Rest \in Binned /\ spans[Rest].numPages = RestSize /\ SameMapping(Rest, me)
  /\ op.at = "mapSpan" =>
       /\ Loose(me) /\ 0 < op.size /\ MapsTo(Run(me, op.size), me)
       /\ \A p \in DOMAIN pageMap : pageMap[p] = me => p \in Run(me, op.size)
  /\ op.at = "record" =>
       /\ FreshRun
       /\ \A a \in systemAllocs : Run(a[1], a[2]) \cap Run(me, op.size) = {}
  /\ op.at = "newSpan" => FreshRun /\ <<me, op.size>> \in systemAllocs
  /\ op.at = "register" =>
       /\ FreshRun /\ Loose(me) /\ Recorded(me)
       /\ spans[me].numPages = op.size
  /\ op.at = "redirectNext" =>
       /\ Loose(me) /\ Loose(op.other) /\ SameMapping(me, op.other)
       /\ me < op.other /\ End(op.other) = End(me)
       /\ MapsTo(Run(me, op.other - me), me) /\ MapsTo(PagesOf(op.other), op.other)
  /\ op.at = "deleteNext" =>
       /\ Loose(me) /\ MapsTo(PagesOf(me), me) /\ op.other # me /\ op.other \in PagesOf(me)
  /\ op.at = "redirectPrev" =>
       /\ Loose(me) /\ Loose(op.other) /\ SameMapping(me, op.other) /\ ~ spans[op.other].isLarge
       /\ op.other < me /\ End(op.other) = End(me)
       /\ MapsTo(Run(op.other, me - op.other), op.other) /\ MapsTo(PagesOf(me), me)
  /\ op.at = "deletePrev" =>
       /\ Loose(op.other) /\ MapsTo(PagesOf(op.other), op.other) /\ ~ spans[op.other].isLarge
       /\ op.other # me /\ me \in PagesOf(op.other)
  /\ op.at \in {"unregister", "release"} => OwnsOrigin(me)
  /\ op.at = "release" =>
       Loose(me) /\ Recorded(me) /\ PagesOf(me) \cap DOMAIN pageMap = {}

StepInv ==
  /\ StepTypeOK /\ BinsExact /\ HeldExact /\ Apart /\ PlacedMapped
  /\ MapSound /\ AllocsApart /\ Counted /\ OpExact

-----------------------------------------------------------------------------
(* What the invariant says of a span, of the bins and of the operation.    *)

(* The first and the last page of a span are its own.                      *)
LEMMA SpanAt ==
  ASSUME StepInv, NEW s \in DOMAIN spans
  PROVE  /\ s \in Pages /\ s \in Nat /\ spans[s] \in SpanRecord
         /\ spans[s].numPages \in Sizes /\ spans[s].numPages \in Nat \ {0}
         /\ spans[s].originAddr \in Nat /\ spans[s].originPages \in Nat \ {0}
         /\ End(s) \in Nat /\ End(s) = s + spans[s].numPages
         /\ PagesOf(s) = s .. (End(s) - 1) /\ s \in PagesOf(s) /\ (End(s) - 1) \in PagesOf(s)
BY PageCacheAssumption DEF StepInv, StepTypeOK, TypeOK, SpanRecord, Pages, Sizes, PagesOf, Run, End

(* Who is in a bin or held.                                                *)
LEMMA PlacedAt ==
  ASSUME StepInv
  PROVE  /\ \A k \in Sizes : \A s \in freeSpans[k] : s \in Binned
         /\ \A s \in Binned :
              /\ s \in DOMAIN spans /\ spans[s].inFreeList /\ ~ spans[s].isLarge
              /\ s \in freeSpans[spans[s].numPages] /\ s \notin held
         /\ \A s \in held : s \in DOMAIN spans /\ ~ spans[s].inFreeList /\ s \notin Binned
         /\ \A s \in Placed : s \in DOMAIN spans
         /\ \A s, t \in Placed : s # t => PagesOf(s) \cap PagesOf(t) = {}
         /\ \A s \in Placed : PagesOf(s) \cap Mine = {}
         /\ op.at # "mapRest" => \A s \in Placed : MapsTo(PagesOf(s), s)
BY DEF StepInv, StepTypeOK, TypeOK, BinsExact, HeldExact, Apart, PlacedMapped, Placed, Binned

(* The operation's fields.                                                 *)
LEMMA OpAt ==
  ASSUME StepInv
  PROVE  /\ op \in OpRecord /\ op.at \in Phases /\ me \in Nat /\ op.size \in Nat
         /\ op.large \in BOOLEAN /\ op.other \in Nat
         /\ op.at # "idle" => running
BY DEF StepInv, StepTypeOK, OpRecord, Idle, me

(* Sets of pages are finite.                                               *)
LEMMA PagesFinite ==
  ASSUME NEW S \in SUBSET Pages
  PROVE  IsFiniteSet(S) /\ Cardinality(S) \in Nat
<1>1. IsFiniteSet(Pages)
  BY FS_Interval, PageCacheAssumption DEF Pages
<1> QED BY <1>1, FS_Subset, FS_CardinalityType

(* A run has as many pages as its size says.                               *)
LEMMA RunSizeIs ==
  ASSUME NEW s \in Nat, NEW n \in Nat
  PROVE  IsFiniteSet(Run(s, n)) /\ Cardinality(Run(s, n)) = n
BY FS_Interval DEF Run

(* A span leaves its bin.                                                  *)
LEMMA BinTaken ==
  ASSUME StepInv, running, NEW k \in Sizes, NEW s \in freeSpans[k], op.at # "mapRest",
         freeSpans' = [freeSpans EXCEPT ![k] = @ \ {s}],
         cachedFreePages' = cachedFreePages - k,
         \A t \in Binned \ {s} : t \in DOMAIN spans' /\ spans'[t] = spans[t]
  PROVE  /\ Binned' = Binned \ {s} /\ BinsExact' /\ Counted'
         /\ freeSpans' \in [Sizes -> SUBSET Pages] /\ cachedFreePages' \in Nat
<1>1. /\ s \in Binned /\ s \in DOMAIN spans /\ spans[s].numPages = k /\ MapsTo(PagesOf(s), s)
      /\ freeSpans \in [Sizes -> SUBSET Pages] /\ cachedFreePages \in Nat
  BY PlacedAt DEF StepInv, StepTypeOK, TypeOK, BinsExact, Placed
<1>2. \A j \in Sizes : freeSpans'[j] = freeSpans[j] \ {s}
  <2>1. \A j \in Sizes : j # k => s \notin freeSpans[j]
    BY <1>1 DEF StepInv, BinsExact
  <2> QED BY <1>1, <2>1
<1>3. Binned' = Binned \ {s}
  BY <1>2 DEF Binned
<1>4. BinsExact'
  BY <1>2, PlacedAt DEF StepInv, BinsExact
<1>5. PagesOf(s) \subseteq BinnedPages /\ PagesOf(s) = Run(s, k)
  BY <1>1 DEF MapsTo, BinnedPages, StepInv, StepTypeOK, TypeOK, PagesOf
<1>6. BinnedPages' = BinnedPages \ PagesOf(s)
  <2>1. \A t \in Binned : t # s => PagesOf(t)' = PagesOf(t) /\ PagesOf(t) \cap PagesOf(s) = {}
    BY <1>1, PlacedAt DEF PagesOf, Placed
  <2> QED BY <1>3, <2>1 DEF BinnedPages
<1>7. cachedFreePages' \in Nat /\ cachedFreePages' = Cardinality(BinnedPages')
  <2>1. IsFiniteSet(BinnedPages) /\ cachedFreePages = Cardinality(BinnedPages)
    BY PagesFinite DEF BinnedPages, StepInv, Counted
  <2>2. Cardinality(PagesOf(s)) = k
    BY <1>1, <1>5, SpanAt, RunSizeIs
  <2>3. BinnedPages \cap PagesOf(s) = PagesOf(s)
    BY <1>5
  <2>4. /\ IsFiniteSet(BinnedPages \ PagesOf(s))
        /\ Cardinality(BinnedPages \ PagesOf(s))
             = Cardinality(BinnedPages) - Cardinality(BinnedPages \cap PagesOf(s))
    BY <2>1, FS_Difference, Zenon
  <2>5. Cardinality(BinnedPages \ PagesOf(s)) = cachedFreePages - k
    BY <2>1, <2>2, <2>3, <2>4
  <2> QED BY <1>6, <2>4, <2>5, FS_CardinalityType
<1> QED BY <1>1, <1>2, <1>3, <1>4, <1>7 DEF Counted

(* A span joins its bin.                                                   *)
LEMMA BinAdded ==
  ASSUME StepInv, running, NEW k \in Sizes, NEW s \in Pages,
         freeSpans' = [freeSpans EXCEPT ![k] = @ \cup {s}],
         cachedFreePages' = cachedFreePages + k,
         \A t \in Binned : t \in DOMAIN spans' /\ spans'[t] = spans[t],
         s \notin Binned, s \in DOMAIN spans', spans'[s].numPages = k, spans'[s].inFreeList,
         ~ spans'[s].isLarge, Run(s, k) \subseteq Pages,
         \A t \in Binned : PagesOf(t) \cap Run(s, k) = {}
  PROVE  /\ Binned' = Binned \cup {s} /\ BinsExact' /\ Counted'
         /\ freeSpans' \in [Sizes -> SUBSET Pages] /\ cachedFreePages' \in Nat
<1>1. freeSpans \in [Sizes -> SUBSET Pages] /\ cachedFreePages \in Nat
  BY DEF StepInv, StepTypeOK, TypeOK
<1>2. /\ \A j \in Sizes : freeSpans'[j] = freeSpans[j] \cup (IF j = k THEN {s} ELSE {})
      /\ freeSpans' \in [Sizes -> SUBSET Pages]
  BY <1>1
<1>3. Binned' = Binned \cup {s}
  BY <1>2 DEF Binned
<1>4. BinsExact'
  BY <1>2, PlacedAt DEF StepInv, BinsExact
<1>5. BinnedPages' = BinnedPages \cup Run(s, k) /\ BinnedPages \cap Run(s, k) = {}
  <2>1. \A t \in Binned : PagesOf(t)' = PagesOf(t)
    BY DEF PagesOf
  <2>2. PagesOf(s)' = Run(s, k)
    BY DEF PagesOf
  <2> QED BY <1>3, <2>1, <2>2 DEF BinnedPages
<1>6. cachedFreePages' \in Nat /\ cachedFreePages' = Cardinality(BinnedPages')
  <2>1. IsFiniteSet(BinnedPages) /\ cachedFreePages = Cardinality(BinnedPages)
    BY PagesFinite DEF BinnedPages, StepInv, Counted
  <2>2. IsFiniteSet(Run(s, k)) /\ Cardinality(Run(s, k)) = k /\ k \in Nat
    BY PageCacheAssumption, RunSizeIs DEF Pages, Sizes
  <2>3. Cardinality(BinnedPages \cap Run(s, k)) = 0
    BY <1>5, FS_EmptySet
  <2>4. Cardinality(BinnedPages \cup Run(s, k))
          = Cardinality(BinnedPages) + Cardinality(Run(s, k)) - Cardinality(BinnedPages \cap Run(s, k))
    BY <2>1, <2>2, FS_Union, Zenon
  <2> QED BY <1>1, <1>5, <2>1, <2>2, <2>3, <2>4
<1> QED BY <1>1, <1>2, <1>3, <1>4, <1>6 DEF Counted

(* The bins stay.                                                          *)
LEMMA BinsKept ==
  ASSUME StepInv, UNCHANGED <<freeSpans, cachedFreePages, running>>,
         \A t \in Binned : t \in DOMAIN spans' /\ spans'[t] = spans[t]
  PROVE  Binned' = Binned /\ BinsExact' /\ Counted'
<1>1. Binned' = Binned
  BY DEF Binned
<1>2. BinsExact'
  BY PlacedAt DEF StepInv, BinsExact
<1>3. BinnedPages' = BinnedPages
  <2>1. \A t \in Binned : PagesOf(t)' = PagesOf(t)
    BY DEF PagesOf
  <2> QED BY <1>1, <2>1 DEF BinnedPages
<1> QED BY <1>1, <1>2, <1>3 DEF StepInv, Counted

-----------------------------------------------------------------------------
(* allocateSpan.                                                           *)

(* The span leaves its bin and is the operation's.                         *)
LEMMA TakeInv ==
  ASSUME StepInv, NEW n \in Nat \ {0}, NEW large \in BOOLEAN, Take(n, large)
  PROVE  StepInv'
<1>1. PICK k \in Sizes, s \in Pages :
        /\ k \in lowerBound(n) /\ s \in freeSpans[k]
        /\ Lock([Idle EXCEPT !.at = IF k > n THEN "split" ELSE "hand",
                             !.span = s, !.size = n, !.large = large])
        /\ freeSpans' = [freeSpans EXCEPT ![k] = @ \ {s}]
        /\ cachedFreePages' = cachedFreePages - k
        /\ spans' = [spans EXCEPT ![s].inFreeList = FALSE]
        /\ UNCHANGED <<pageMap, systemAllocs, osPages, running, held>>
  <2>1. lowerBound(n) \subseteq Sizes /\ \A k \in Sizes : freeSpans[k] \subseteq Pages
    BY DEF lowerBound, StepInv, StepTypeOK, TypeOK
  <2> QED BY <2>1 DEF Take
<1>2. /\ running /\ op = Idle /\ op.at = "idle" /\ k \in Sizes /\ k >= n /\ k \in Nat
      /\ thrown' = thrown
  BY <1>1, PageCacheAssumption DEF Lock, lowerBound, Idle, Sizes
<1>3. /\ s \in Binned /\ s \in DOMAIN spans /\ spans[s].numPages = k /\ spans[s].inFreeList
      /\ ~ spans[s].isLarge /\ s \notin held /\ MapsTo(PagesOf(s), s) /\ s \in Nat
  <2>1. /\ s \in Binned /\ s \in DOMAIN spans /\ spans[s].inFreeList
        /\ ~ spans[s].isLarge /\ s \notin held
    BY <1>1, PlacedAt
  <2>2. spans[s].numPages = k
    BY <1>1 DEF StepInv, BinsExact
  <2>3. op.at # "mapRest" /\ s \in Placed
    BY <1>2, <2>1 DEF Placed
  <2>4. MapsTo(PagesOf(s), s)
    BY <2>3, PlacedAt
  <2> QED BY <2>1, <2>2, <2>4, SpanAt
<1>4. /\ op' \in OpRecord /\ op'.at = (IF k > n THEN "split" ELSE "hand")
      /\ me' = s /\ op'.size = n
  BY <1>1, <1>3 DEF Lock, Idle, OpRecord, Phases, me
<1>5. /\ DOMAIN spans' = DOMAIN spans /\ \A t \in DOMAIN spans : t # s => spans'[t] = spans[t]
      /\ spans' \in [DOMAIN spans -> SpanRecord]
      /\ spans'[s].numPages = spans[s].numPages /\ spans'[s].isLarge = spans[s].isLarge
      /\ spans'[s].originAddr = spans[s].originAddr /\ spans'[s].originPages = spans[s].originPages
      /\ spans'[s].inFreeList = FALSE
  BY <1>1, <1>3 DEF StepInv, StepTypeOK, TypeOK, SpanRecord
<1>6. \A t \in DOMAIN spans : PagesOf(t)' = PagesOf(t) /\ End(t)' = End(t)
  BY <1>5 DEF PagesOf, End
<1>7. /\ Binned' = Binned \ {s} /\ BinsExact' /\ Counted'
      /\ freeSpans' \in [Sizes -> SUBSET Pages] /\ cachedFreePages' \in Nat
  BY <1>1, <1>2, <1>5, PlacedAt, BinTaken
<1>8. Placed' = Placed \ {s} /\ held' = held
  BY <1>1, <1>3, <1>7 DEF Placed
<1>9. Mine' = PagesOf(s)
  BY <1>3, <1>4, <1>6 DEF Mine
<1>10. StepTypeOK'
  BY <1>1, <1>2, <1>4, <1>5, <1>7 DEF StepInv, StepTypeOK, TypeOK
<1>11. HeldExact'
  BY <1>1, <1>3, <1>5 DEF StepInv, HeldExact
<1>12. Apart'
  BY <1>3, <1>6, <1>8, <1>9, PlacedAt DEF Apart, Placed
<1>13. PlacedMapped'
  BY <1>1, <1>2, <1>6, <1>8, PlacedAt DEF PlacedMapped, MapsTo
<1>14. MapSound'
  BY <1>1, <1>5, <1>6 DEF StepInv, MapSound, Recorded
<1>15. AllocsApart'
  BY <1>1 DEF StepInv, AllocsApart
<1>16. OpExact'
  <2>1. Loose(s)' /\ MapsTo(PagesOf(s), s)' /\ ~ spans'[s].isLarge
    BY <1>1, <1>3, <1>5, <1>6 DEF Loose, MapsTo
  <2>2. op'.at = "split" => 0 < op'.size /\ op'.size < spans'[s].numPages
    BY <1>2, <1>3, <1>4, <1>5
  <2> QED BY <1>4, <2>1, <2>2 DEF OpExact
<1> QED BY <1>7, <1>10, <1>11, <1>12, <1>13, <1>14, <1>15, <1>16 DEF StepInv

(* The remainder of a split.                                               *)
LEMMA SplitFacts ==
  ASSUME StepInv, op.at = "split"
  PROVE  /\ running /\ me \in DOMAIN spans /\ me \notin Placed /\ ~ spans[me].inFreeList
         /\ Rest \in Nat /\ RestSize \in Sizes /\ RestSize \in Nat /\ me < Rest
         /\ Rest \in PagesOf(me) /\ Rest \in Pages /\ Rest # me
         /\ Run(Rest, RestSize) \subseteq PagesOf(me) /\ Run(me, op.size) \subseteq PagesOf(me)
         /\ Run(Rest, RestSize) \cap Run(me, op.size) = {}
         /\ PagesOf(me) \subseteq Pages /\ MapsTo(PagesOf(me), me)
         /\ Rest \notin Placed /\ \A p \in DOMAIN pageMap : pageMap[p] # Rest
         /\ \A t \in Placed : PagesOf(t) \cap PagesOf(me) = {}
         /\ Rest + RestSize = End(me) /\ op.size \in Nat
<1>1. /\ running /\ me \in DOMAIN spans /\ ~ spans[me].inFreeList /\ MapsTo(PagesOf(me), me)
      /\ 0 < op.size /\ op.size < spans[me].numPages /\ op.size \in Nat
  BY OpAt DEF StepInv, OpExact, Loose
<1>2. Mine = PagesOf(me)
  BY DEF Mine
<1>3. /\ me \in Nat /\ me \in PagesOf(me) /\ End(me) \in Nat /\ PagesOf(me) = me .. (End(me) - 1)
      /\ End(me) = me + spans[me].numPages /\ spans[me].numPages \in Nat /\ spans[me].numPages \in Sizes
  BY <1>1, SpanAt
<1>4. /\ Rest \in Nat /\ RestSize \in Nat /\ RestSize > 0 /\ me < Rest /\ Rest + RestSize = End(me)
      /\ RestSize <= spans[me].numPages
  BY <1>1, <1>3 DEF Rest, RestSize
<1>5. RestSize \in Sizes
  BY <1>3, <1>4, PageCacheAssumption DEF Sizes
<1>6. /\ Run(Rest, RestSize) \subseteq PagesOf(me) /\ Rest \in PagesOf(me)
      /\ Run(me, op.size) \subseteq PagesOf(me) /\ Run(Rest, RestSize) \cap Run(me, op.size) = {}
  <2>1. Run(Rest, RestSize) = Rest .. (End(me) - 1) /\ Run(me, op.size) = me .. (Rest - 1)
    BY <1>1, <1>3, <1>4, SMTT(30) DEF Run, Rest
  <2>2. Rest <= End(me) - 1
    BY <1>3, <1>4
  <2> QED BY <1>3, <1>4, <2>1, <2>2
<1>7. PagesOf(me) \subseteq Pages
  BY <1>1 DEF MapsTo, StepInv, StepTypeOK, TypeOK
<1>8. me \notin Placed /\ Rest \notin Placed
  BY <1>2, <1>3, <1>6, PlacedAt, SpanAt
<1>9. \A p \in DOMAIN pageMap : pageMap[p] # Rest
  BY <1>1, <1>4, <1>6 DEF MapsTo, StepInv, MapSound
<1> QED BY <1>1, <1>2, <1>3, <1>4, <1>5, <1>6, <1>7, <1>8, <1>9, PlacedAt

(* The Span object of the remainder.                                       *)
LEMMA WithRestIs ==
  ASSUME StepInv, op.at = "split", spans' = WithRest
  PROVE  /\ DOMAIN spans' = DOMAIN spans \cup {Rest} /\ spans' \in [DOMAIN spans' -> SpanRecord]
         /\ \A t \in DOMAIN spans : t # Rest => spans'[t] = spans[t]
         /\ spans'[Rest].numPages = RestSize /\ spans'[Rest].inFreeList /\ ~ spans'[Rest].isLarge
         /\ spans'[Rest].originAddr = spans[me].originAddr
         /\ spans'[Rest].originPages = spans[me].originPages
BY SplitFacts DEF WithRest, StepInv, StepTypeOK, TypeOK, SpanRecord

(* The remainder goes to its bin before the map knows it.                  *)
LEMMA SplitInv ==
  ASSUME StepInv, Split
  PROVE  StepInv'
<1>1. /\ op.at = "split" /\ spans' = WithRest
      /\ freeSpans' = [freeSpans EXCEPT ![RestSize] = @ \cup {Rest}]
      /\ cachedFreePages' = cachedFreePages + RestSize
      /\ op' = [op EXCEPT !.at = "mapRest"]
      /\ UNCHANGED <<pageMap, systemAllocs, osPages, running, held, thrown>>
  BY DEF Split, Goto, RestBin
<1>2. /\ op' \in OpRecord /\ op'.at = "mapRest" /\ me' = me /\ op'.size = op.size
  BY <1>1, OpAt DEF OpRecord, Phases, me
<1>3. \A t \in DOMAIN spans : t # Rest => PagesOf(t)' = PagesOf(t) /\ End(t)' = End(t)
  BY <1>1, WithRestIs DEF PagesOf, End
<1>4. PagesOf(Rest)' = Run(Rest, RestSize) /\ Rest' = Rest /\ RestSize' = RestSize
  BY <1>1, <1>2, WithRestIs, SplitFacts DEF PagesOf, Rest, RestSize
<1>5. /\ Binned' = Binned \cup {Rest} /\ BinsExact' /\ Counted'
      /\ freeSpans' \in [Sizes -> SUBSET Pages] /\ cachedFreePages' \in Nat
  <2>1. \A t \in Binned : t \in DOMAIN spans' /\ spans'[t] = spans[t]
    BY <1>1, WithRestIs, SplitFacts, PlacedAt DEF Placed
  <2>2. \A t \in Binned : PagesOf(t) \cap Run(Rest, RestSize) = {}
    BY <1>1, SplitFacts DEF Placed
  <2> QED BY <1>1, <2>1, <2>2, WithRestIs, SplitFacts, BinAdded DEF Placed
<1>6. Placed' = Placed \cup {Rest}
  BY <1>1, <1>5 DEF Placed
<1>7. Mine' = Run(me, op.size) /\ Mine = PagesOf(me)
  BY <1>1, <1>2 DEF Mine
<1>8. StepTypeOK'
  <2>1. DOMAIN spans' \subseteq Pages
    BY <1>1, WithRestIs, SplitFacts DEF StepInv, StepTypeOK, TypeOK
  <2> QED BY <1>1, <1>2, <1>5, <2>1, WithRestIs, SplitFacts DEF StepInv, StepTypeOK, TypeOK
<1>9. HeldExact'
  BY <1>1, WithRestIs, SplitFacts DEF StepInv, HeldExact, Placed
<1>10. Apart'
  <2>1. \A t \in Placed : t # Rest /\ PagesOf(t)' = PagesOf(t)
    BY <1>1, <1>3, SplitFacts, PlacedAt
  <2> QED BY <1>1, <1>4, <1>6, <1>7, <2>1, PlacedAt, SplitFacts DEF Apart
<1>11. PlacedMapped'
  <2>1. \A t \in Placed : t # Rest /\ PagesOf(t)' = PagesOf(t)
    BY <1>1, <1>3, SplitFacts, PlacedAt
  <2> QED BY <1>1, <1>2, <1>4, <1>6, <2>1, PlacedAt DEF PlacedMapped, MapsTo
<1>12. MapSound'
  <2>1. ASSUME NEW p \in DOMAIN pageMap
        PROVE  /\ pageMap[p] # Rest /\ pageMap[p] \in DOMAIN spans
               /\ spans'[pageMap[p]] = spans[pageMap[p]]
    BY <1>1, WithRestIs, SplitFacts DEF StepInv, MapSound, Recorded
  <2> QED BY <1>1, <1>3, <2>1, WithRestIs DEF StepInv, MapSound, Recorded
<1>13. AllocsApart'
  BY <1>1 DEF StepInv, AllocsApart
<1>14. OpExact'
  <2>1. me \in DOMAIN spans' /\ spans'[me] = spans[me] /\ PagesOf(me)' = PagesOf(me)
    BY <1>1, <1>2, WithRestIs, SplitFacts DEF PagesOf
  <2>2. Loose(me)' /\ MapsTo(PagesOf(me), me)'
    BY <1>1, <1>2, <2>1, SplitFacts DEF Loose, MapsTo
  <2>3. SameMapping(Rest, me)' /\ Rest \in Binned' /\ spans'[Rest].numPages = RestSize
    BY <1>1, <1>2, <1>4, <1>5, <2>1, WithRestIs DEF SameMapping
  <2>4. 0 < op.size /\ op.size < spans'[me].numPages
    BY <1>1, <2>1 DEF StepInv, OpExact
  <2> QED BY <1>2, <1>4, <2>2, <2>3, <2>4 DEF OpExact
<1> QED BY <1>5, <1>8, <1>9, <1>10, <1>11, <1>12, <1>13, <1>14 DEF StepInv

(* An exception: the operation is over, and what it worked on is left.     *)
LEMMA ThrownInv ==
  ASSUME StepInv, Throw, op.at \notin {"idle", "mapRest"},
         UNCHANGED <<freeSpans, cachedFreePages, systemAllocs, osPages>>,
         DOMAIN spans' \subseteq Pages, spans' \in [DOMAIN spans' -> SpanRecord],
         \A t \in Placed : t \in DOMAIN spans' /\ spans'[t] = spans[t],
         DOMAIN pageMap' \subseteq Pages, pageMap' \in [DOMAIN pageMap' -> Pages],
         \A t \in Placed : MapsTo(PagesOf(t), t)', MapSound'
  PROVE  StepInv'
<1>1. op' = Idle /\ thrown' = TRUE /\ UNCHANGED <<running, held>> /\ op'.at = "idle" /\ op' \in OpRecord
  BY DEF Throw, Idle, OpRecord, Phases
<1>2. Binned' = Binned /\ BinsExact' /\ Counted'
  BY <1>1, BinsKept DEF Placed
<1>3. Placed' = Placed /\ Mine' = {} /\ \A t \in Placed : PagesOf(t)' = PagesOf(t)
  BY <1>1, <1>2 DEF Placed, Mine, PagesOf
<1>4. StepTypeOK'
  BY <1>1 DEF StepInv, StepTypeOK, TypeOK
<1>5. HeldExact'
  BY <1>1 DEF StepInv, HeldExact, Placed
<1>6. Apart' /\ PlacedMapped'
  BY <1>3, PlacedAt DEF Apart, PlacedMapped
<1>7. AllocsApart' /\ OpExact'
  BY <1>1 DEF StepInv, AllocsApart, OpExact
<1> QED BY <1>2, <1>4, <1>5, <1>6, <1>7 DEF StepInv

(* Without room for the remainder the span is lost, nothing else.          *)
LEMMA SplitThrowsInv ==
  ASSUME StepInv, SplitThrows
  PROVE  StepInv'
<1>1. /\ op.at = "split" /\ spans' \in {spans, WithRest} /\ Throw
      /\ UNCHANGED <<freeSpans, pageMap, systemAllocs, osPages, cachedFreePages>>
  BY DEF SplitThrows, CountIfSplitThrows
<1>2. /\ DOMAIN spans' \subseteq Pages /\ spans' \in [DOMAIN spans' -> SpanRecord]
      /\ \A t \in DOMAIN spans : t # Rest => t \in DOMAIN spans' /\ spans'[t] = spans[t]
  BY <1>1, WithRestIs, SplitFacts DEF StepInv, StepTypeOK, TypeOK
<1>3. \A t \in Placed : t # Rest /\ t \in DOMAIN spans /\ MapsTo(PagesOf(t), t)
  BY <1>1, SplitFacts, PlacedAt
<1>4. \A t \in Placed : MapsTo(PagesOf(t), t)'
  BY <1>1, <1>2, <1>3 DEF MapsTo, PagesOf
<1>5. MapSound'
  <2>1. ASSUME NEW p \in DOMAIN pageMap
        PROVE  pageMap[p] # Rest /\ pageMap[p] \in DOMAIN spans
    BY <1>1, SplitFacts DEF StepInv, MapSound, Recorded
  <2> QED BY <1>1, <1>2, <2>1 DEF StepInv, MapSound, Recorded, PagesOf, End
<1> QED BY <1>1, <1>2, <1>3, <1>4, <1>5, ThrownInv DEF StepInv, StepTypeOK, TypeOK

(* The pages of the remainder lead to it from here on.                     *)
LEMMA MapRestInv ==
  ASSUME StepInv, MapRest
  PROVE  StepInv'
<1>1. /\ op.at = "mapRest" /\ pageMap' = registerPages(pageMap, Rest, RestSize)
      /\ op' = [op EXCEPT !.at = "mapSpan"]
      /\ UNCHANGED <<spans, freeSpans, systemAllocs, cachedFreePages, osPages, running, held, thrown>>
  BY DEF MapRest, MapStep, Goto
<1>2. /\ op' \in OpRecord /\ op'.at = "mapSpan" /\ me' = me /\ op'.size = op.size /\ running
  BY <1>1, OpAt DEF OpRecord, Phases, me
<1>3. /\ Loose(me) /\ MapsTo(PagesOf(me), me) /\ Rest \in Binned /\ spans[Rest].numPages = RestSize
      /\ SameMapping(Rest, me) /\ 0 < op.size /\ op.size < spans[me].numPages
  BY <1>1 DEF StepInv, OpExact
<1>4. /\ me \in Nat /\ me \in PagesOf(me) /\ PagesOf(me) = me .. (End(me) - 1) /\ End(me) \in Nat
      /\ End(me) = me + spans[me].numPages /\ spans[me].numPages \in Nat /\ op.size \in Nat
      /\ PagesOf(me) \subseteq DOMAIN pageMap /\ me # Rest
  <2>1. me \in DOMAIN spans /\ op.size \in Nat /\ PagesOf(me) \subseteq DOMAIN pageMap
    BY <1>3, OpAt DEF Loose, MapsTo
  <2>2. me \in Nat /\ me # Rest
    BY <1>3, <2>1, OpAt DEF Rest
  <2> QED BY <2>1, <2>2, SpanAt
<1>5. /\ Run(Rest, RestSize) = PagesOf(Rest) /\ PagesOf(Rest) = Rest .. (End(me) - 1)
      /\ Run(me, op.size) = me .. (Rest - 1) /\ Rest \in PagesOf(Rest) /\ Rest \in Pages
      /\ PagesOf(Rest) \subseteq PagesOf(me) /\ Rest \in DOMAIN spans /\ Rest \in Placed
  <2>1. Rest \in DOMAIN spans /\ Rest \in Placed
    BY <1>3, PlacedAt DEF Placed
  <2>2. End(Rest) = End(me)
    BY <1>3, <1>4 DEF End, Rest, RestSize
  <2>3. Run(me, op.size) = me .. (Rest - 1) /\ me < Rest
    BY <1>3, <1>4 DEF Run, Rest
  <2>4. PagesOf(Rest) = Rest .. (End(me) - 1) /\ Rest \in PagesOf(Rest) /\ Rest \in Pages /\ Rest \in Nat
    BY <2>1, <2>2, SpanAt
  <2>5. Run(Rest, RestSize) = PagesOf(Rest)
    BY <1>3 DEF PagesOf
  <2> QED BY <1>4, <2>1, <2>3, <2>4, <2>5
<1>6. /\ DOMAIN pageMap' = DOMAIN pageMap
      /\ \A p \in PagesOf(Rest) : pageMap'[p] = Rest
      /\ \A p \in DOMAIN pageMap : p \notin PagesOf(Rest) => pageMap'[p] = pageMap[p]
  BY <1>1, <1>4, <1>5 DEF registerPages
<1>7. Binned' = Binned /\ BinsExact' /\ Counted'
  BY <1>1, BinsKept, PlacedAt
<1>8. Placed' = Placed /\ Mine' = Mine /\ Mine = Run(me, op.size)
  BY <1>1, <1>2, <1>7 DEF Placed, Mine
<1>9. StepTypeOK'
  <2>1. pageMap' \in [DOMAIN pageMap' -> Pages]
    <3>1. \A p \in DOMAIN pageMap' : pageMap'[p] \in Pages
      BY <1>5, <1>6 DEF StepInv, StepTypeOK, TypeOK
    <3> QED BY <1>1, <3>1 DEF registerPages
  <2> QED BY <1>1, <1>2, <1>6, <2>1 DEF StepInv, StepTypeOK, TypeOK
<1>10. HeldExact' /\ AllocsApart'
  BY <1>1 DEF StepInv, HeldExact, AllocsApart
<1>11. \A t \in DOMAIN spans : PagesOf(t)' = PagesOf(t) /\ End(t)' = End(t)
  BY <1>1 DEF PagesOf, End
<1>12. Apart'
  <2>1. \A t \in Placed : t \in DOMAIN spans
    BY PlacedAt
  <2> QED BY <1>8, <1>11, <2>1, PlacedAt DEF Apart
<1>13. PlacedMapped'
  <2>1. ASSUME NEW t \in Placed
        PROVE  MapsTo(PagesOf(t), t)'
    <3>1. CASE t = Rest
      BY <1>4, <1>5, <1>6, <1>11, <3>1 DEF MapsTo
    <3>2. CASE t # Rest
      <4>1. t \in DOMAIN spans /\ PagesOf(t) \cap PagesOf(Rest) = {} /\ MapsTo(PagesOf(t), t)
        BY <1>5, <3>2, PlacedAt DEF StepInv, PlacedMapped
      <4> QED BY <1>6, <1>11, <4>1 DEF MapsTo
    <3> QED BY <3>1, <3>2
  <2> QED BY <1>8, <2>1 DEF PlacedMapped
<1>14. MapSound'
  <2>1. ASSUME NEW p \in DOMAIN pageMap', p \in PagesOf(Rest)
        PROVE  /\ p \in PagesOf(pageMap'[p]) /\ pageMap'[p] \in DOMAIN pageMap'
               /\ pageMap'[pageMap'[p]] = pageMap'[p] /\ Recorded(pageMap'[p])
    <3>1. pageMap[me] = me /\ me \in DOMAIN pageMap
      BY <1>3, <1>4 DEF MapsTo
    <3>2. Recorded(me)
      BY <3>1 DEF StepInv, MapSound
    <3>3. Recorded(Rest)
      <4>1. End(Rest) = End(me) /\ me <= Rest
        BY <1>3, <1>4 DEF End, Rest, RestSize
      <4>2. Rest \in Nat /\ spans[me].originAddr \in Nat
        BY <1>3, <1>5, SpanAt DEF Loose
      <4> QED BY <1>3, <1>4, <1>5, <3>2, <4>1, <4>2 DEF Recorded, SameMapping
    <3> QED BY <1>4, <1>5, <1>6, <2>1, <3>3
  <2>2. ASSUME NEW p \in DOMAIN pageMap', p \notin PagesOf(Rest)
        PROVE  /\ p \in PagesOf(pageMap'[p]) /\ pageMap'[p] \in DOMAIN pageMap'
               /\ pageMap'[pageMap'[p]] = pageMap'[p] /\ Recorded(pageMap'[p])
    <3>1. /\ pageMap'[p] = pageMap[p] /\ p \in DOMAIN pageMap
      BY <1>6, <2>2
    <3>2. /\ p \in PagesOf(pageMap[p]) /\ pageMap[p] \in DOMAIN pageMap
          /\ pageMap[pageMap[p]] = pageMap[p] /\ Recorded(pageMap[p])
      BY <3>1 DEF StepInv, MapSound
    <3>3. pageMap[p] \notin PagesOf(Rest)
      BY <1>3, <1>4, <1>5, <3>2 DEF MapsTo
    <3> QED BY <1>6, <3>1, <3>2, <3>3
  <2>3. \A t \in DOMAIN spans : Recorded(t)' <=> Recorded(t)
    BY <1>1, <1>11 DEF Recorded
  <2> QED BY <1>11, <2>1, <2>2, <2>3 DEF MapSound, Recorded
<1>15. OpExact'
  <2>1. Loose(me)' /\ MapsTo(Run(me, op.size), me)'
    <3>1. \A p \in Run(me, op.size) : p \in PagesOf(me) /\ p \notin PagesOf(Rest)
      <4>1. Rest \in Nat /\ Rest - 1 < End(me)
        BY <1>4, <1>5, SpanAt
      <4> QED BY <1>4, <1>5, <4>1
    <3> QED BY <1>1, <1>2, <1>3, <1>4, <1>6, <3>1 DEF Loose, MapsTo
  <2>2. \A p \in DOMAIN pageMap' : pageMap'[p] = me => p \in Run(me, op.size)
    <3>1. ASSUME NEW p \in DOMAIN pageMap', pageMap'[p] = me
          PROVE  p \in Run(me, op.size)
      <4>1. p \notin PagesOf(Rest) /\ p \in PagesOf(me)
        BY <1>4, <1>6, <3>1 DEF StepInv, MapSound
      <4> QED BY <1>4, <1>5, <4>1, SpanAt
    <3> QED BY <3>1
  <2> QED BY <1>2, <1>3, <2>1, <2>2 DEF OpExact
<1> QED BY <1>7, <1>9, <1>10, <1>12, <1>13, <1>14, <1>15 DEF StepInv

(* What the operation works on is in no bin and not held.                  *)
LEMMA NotPlaced ==
  ASSUME StepInv, NEW x \in Mine
  PROVE  x \notin Placed
BY PlacedAt, SpanAt

(* The Span object shrinks to the pages that lead to it.                   *)
LEMMA MapSpanInv ==
  ASSUME StepInv, MapSpan
  PROVE  StepInv'
<1>1. /\ op.at = "mapSpan" /\ spans' = [spans EXCEPT ![me].numPages = op.size]
      /\ pageMap' = registerPages(pageMap, me, op.size)
      /\ op' = [op EXCEPT !.at = "hand"]
      /\ UNCHANGED <<freeSpans, systemAllocs, cachedFreePages, osPages, running, held, thrown>>
  BY DEF MapSpan, Goto
<1>2. /\ op' \in OpRecord /\ op'.at = "hand" /\ me' = me /\ op'.size = op.size /\ running
  BY <1>1, OpAt DEF OpRecord, Phases, me
<1>3. /\ Loose(me) /\ MapsTo(Run(me, op.size), me) /\ 0 < op.size /\ me \in DOMAIN spans
      /\ \A p \in DOMAIN pageMap : pageMap[p] = me => p \in Run(me, op.size)
      /\ Mine = Run(me, op.size)
  BY <1>1 DEF StepInv, OpExact, Loose, Mine
<1>4. me \in Nat /\ op.size \in Nat /\ me \in Run(me, op.size)
  <2>1. me \in Nat /\ op.size \in Nat
    BY OpAt
  <2> QED BY <1>3, <2>1 DEF Run
<1>5. pageMap' = pageMap
  <2>1. DOMAIN pageMap' = DOMAIN pageMap /\ \A p \in DOMAIN pageMap : pageMap'[p] = pageMap[p]
    BY <1>1, <1>3 DEF registerPages, MapsTo
  <2> QED BY <1>1, <2>1 DEF registerPages, StepInv, StepTypeOK, TypeOK
<1>6. me \in Pages /\ op.size <= spans[me].numPages /\ op.size \in Sizes
  <2>1. /\ spans[me].numPages \in Sizes /\ me \in Pages /\ spans[me].numPages \in Nat
        /\ PagesOf(me) = me .. (End(me) - 1) /\ End(me) = me + spans[me].numPages
    BY <1>3, SpanAt
  <2>2. me + op.size - 1 \in Run(me, op.size) /\ me + op.size - 1 \in Nat
    BY <1>3, <1>4 DEF Run
  <2>3. me + op.size - 1 \in DOMAIN pageMap /\ pageMap[me + op.size - 1] = me
    BY <1>3, <2>2 DEF MapsTo
  <2>4. me + op.size - 1 \in PagesOf(me)
    BY <2>3 DEF StepInv, MapSound
  <2>5. op.size <= spans[me].numPages
    BY <1>4, <2>1, <2>4
  <2> QED BY <1>3, <1>4, <2>1, <2>5, PageCacheAssumption DEF Sizes
<1>7. /\ DOMAIN spans' = DOMAIN spans /\ \A t \in DOMAIN spans : t # me => spans'[t] = spans[t]
      /\ spans' \in [DOMAIN spans -> SpanRecord]
      /\ spans'[me].numPages = op.size /\ spans'[me].inFreeList = spans[me].inFreeList
      /\ spans'[me].originAddr = spans[me].originAddr /\ spans'[me].originPages = spans[me].originPages
  BY <1>1, <1>3, <1>6 DEF StepInv, StepTypeOK, TypeOK, SpanRecord
<1>8. /\ \A t \in DOMAIN spans : t # me => PagesOf(t)' = PagesOf(t) /\ End(t)' = End(t)
      /\ PagesOf(me)' = Run(me, op.size)
  BY <1>2, <1>7 DEF PagesOf, End
<1>9. me \notin Placed /\ \A t \in Placed : t \in DOMAIN spans /\ t # me
  BY <1>3, <1>4, NotPlaced, PlacedAt
<1>10. Binned' = Binned /\ BinsExact' /\ Counted'
  BY <1>1, <1>7, <1>9, BinsKept DEF Placed
<1>11. Placed' = Placed /\ Mine' = Mine
  BY <1>1, <1>2, <1>3, <1>8, <1>10 DEF Placed, Mine
<1>12. StepTypeOK'
  BY <1>1, <1>2, <1>5, <1>7 DEF StepInv, StepTypeOK, TypeOK
<1>13. HeldExact' /\ AllocsApart'
  BY <1>1, <1>7, <1>9 DEF StepInv, HeldExact, AllocsApart, Placed
<1>14. Apart'
  BY <1>8, <1>9, <1>11, PlacedAt DEF Apart
<1>15. PlacedMapped'
  BY <1>1, <1>5, <1>8, <1>9, <1>11, PlacedAt DEF PlacedMapped, MapsTo
<1>16. MapSound'
  <2>1. ASSUME NEW p \in DOMAIN pageMap
        PROVE  p \in PagesOf(pageMap[p])' /\ Recorded(pageMap[p])'
    <3>1. p \in PagesOf(pageMap[p]) /\ Recorded(pageMap[p])
      BY DEF StepInv, MapSound
    <3>2. CASE pageMap[p] = me
      <4>1. p \in PagesOf(me)'
        BY <1>3, <1>8, <3>2
      <4>2. End(me)' = me + op.size /\ End(me) = me + spans[me].numPages
        BY <1>2, <1>7 DEF End
      <4>3. spans[me].numPages \in Nat /\ spans[me].originAddr \in Nat /\ spans[me].originPages \in Nat
        BY <1>3, SpanAt
      <4>4. Recorded(me)'
        BY <1>1, <1>2, <1>4, <1>6, <1>7, <3>1, <3>2, <4>2, <4>3 DEF Recorded
      <4> QED BY <1>2, <1>5, <3>2, <4>1, <4>4
    <3>3. CASE pageMap[p] # me
      BY <1>1, <1>5, <1>7, <1>8, <3>1, <3>3 DEF Recorded
    <3> QED BY <3>2, <3>3
  <2> QED BY <1>5, <2>1 DEF StepInv, MapSound
<1>17. OpExact'
  BY <1>2, <1>3, <1>5, <1>7, <1>8 DEF OpExact, Loose, MapsTo
<1> QED BY <1>10, <1>12, <1>13, <1>14, <1>15, <1>16, <1>17 DEF StepInv

(* The caller writes the flag and holds the span.                          *)
LEMMA HandInv ==
  ASSUME StepInv, Hand
  PROVE  StepInv'
<1>1. /\ op.at = "hand" /\ spans' = [spans EXCEPT ![me].isLarge = op.large]
      /\ held' = held \cup {me} /\ op' = Idle
      /\ UNCHANGED <<freeSpans, pageMap, systemAllocs, cachedFreePages, osPages, running, thrown>>
  BY DEF Hand, Unlock
<1>2. op'.at = "idle" /\ op' \in OpRecord /\ running
  BY <1>1, OpAt DEF Idle, OpRecord, Phases
<1>3. Loose(me) /\ MapsTo(PagesOf(me), me) /\ me \in DOMAIN spans /\ Mine = PagesOf(me)
  BY <1>1 DEF StepInv, OpExact, Loose, Mine
<1>4. me \in Pages /\ me \in PagesOf(me) /\ op.large \in BOOLEAN
  BY <1>3, SpanAt, OpAt
<1>5. /\ DOMAIN spans' = DOMAIN spans /\ \A t \in DOMAIN spans : t # me => spans'[t] = spans[t]
      /\ spans' \in [DOMAIN spans -> SpanRecord]
      /\ spans'[me].numPages = spans[me].numPages /\ spans'[me].inFreeList = spans[me].inFreeList
      /\ spans'[me].originAddr = spans[me].originAddr /\ spans'[me].originPages = spans[me].originPages
  BY <1>1, <1>3, <1>4 DEF StepInv, StepTypeOK, TypeOK, SpanRecord
<1>6. \A t \in DOMAIN spans : PagesOf(t)' = PagesOf(t) /\ End(t)' = End(t)
  BY <1>5 DEF PagesOf, End
<1>7. me \notin Placed /\ \A t \in Placed : t \in DOMAIN spans /\ t # me
  BY <1>3, <1>4, NotPlaced, PlacedAt
<1>8. Binned' = Binned /\ BinsExact' /\ Counted'
  BY <1>1, <1>5, <1>7, BinsKept DEF Placed
<1>9. Placed' = Placed \cup {me} /\ Mine' = {}
  BY <1>1, <1>2, <1>8 DEF Placed, Mine
<1>10. StepTypeOK'
  BY <1>1, <1>2, <1>4, <1>5 DEF StepInv, StepTypeOK, TypeOK
<1>11. HeldExact' /\ AllocsApart'
  BY <1>1, <1>3, <1>5, <1>7 DEF StepInv, HeldExact, AllocsApart, Placed, Loose
<1>12. Apart'
  BY <1>3, <1>6, <1>7, <1>9, PlacedAt DEF Apart
<1>13. PlacedMapped'
  BY <1>1, <1>3, <1>6, <1>7, <1>9, PlacedAt DEF PlacedMapped, MapsTo
<1>14. MapSound'
  BY <1>1, <1>5, <1>6 DEF StepInv, MapSound, Recorded
<1>15. OpExact'
  BY <1>2 DEF OpExact
<1> QED BY <1>8, <1>10, <1>11, <1>12, <1>13, <1>14, <1>15 DEF StepInv

(* What the page map knows is mapped and recorded.                         *)
LEMMA MappedPages ==
  ASSUME StepInv, NEW p \in DOMAIN pageMap
  PROVE  /\ p \in osPages /\ p \in Pages /\ p \in Nat
         /\ <<spans[pageMap[p]].originAddr, spans[pageMap[p]].originPages>> \in systemAllocs
         /\ p \in Run(spans[pageMap[p]].originAddr, spans[pageMap[p]].originPages)
<1> DEFINE x == pageMap[p]
           o == spans[x].originAddr
           n == spans[x].originPages
<1>1. x \in DOMAIN spans /\ p \in PagesOf(x) /\ <<o, n>> \in systemAllocs /\ o <= x /\ End(x) <= o + n
  BY DEF StepInv, MapSound, Recorded
<1>2. x \in Nat /\ o \in Nat /\ n \in Nat /\ End(x) \in Nat /\ PagesOf(x) = x .. (End(x) - 1)
  BY <1>1, SpanAt
<1> HIDE DEF x, o, n
<1>3. p \in Run(o, n)
  BY <1>1, <1>2 DEF Run
<1>4. \A a \in systemAllocs : Run(a[1], a[2]) \subseteq osPages
  BY DEF StepInv, AllocsApart
<1>5. p \in osPages
  BY <1>1, <1>3, <1>4
<1> QED BY <1>1, <1>3, <1>5, PageCacheAssumption DEF StepInv, StepTypeOK, TypeOK, Pages, x, o, n

(* Spans that are placed lie on mapped pages.                              *)
LEMMA PlacedPages ==
  ASSUME StepInv, op.at # "mapRest", NEW t \in Placed
  PROVE  t \in DOMAIN pageMap /\ pageMap[t] = t /\ PagesOf(t) \subseteq DOMAIN pageMap
BY PlacedAt, SpanAt DEF MapsTo

(* A new mapping that no record knows yet.                                 *)
LEMMA MapInv ==
  ASSUME StepInv, NEW n \in Nat \ {0}, NEW large \in BOOLEAN, Map(n, large)
  PROVE  StepInv'
<1>1. PICK m \in n .. (n + Granularity - 1), s \in Pages :
        /\ Run(s, m) \subseteq Pages \ osPages
        /\ Lock([Idle EXCEPT !.at = "record", !.span = s, !.size = m, !.large = large])
        /\ osPages' = osPages \cup Run(s, m)
        /\ UNCHANGED <<spans, freeSpans, pageMap, systemAllocs, cachedFreePages, running, held>>
  BY DEF Map
<1>2. m \in Nat /\ m > 0 /\ s \in Nat
  BY <1>1, PageCacheAssumption DEF Pages
<1>3. running /\ op = Idle /\ op.at = "idle" /\ thrown' = thrown
  BY <1>1 DEF Lock, Idle
<1>4. op' \in OpRecord /\ op'.at = "record" /\ me' = s /\ op'.size = m
  BY <1>1, <1>2 DEF Lock, Idle, OpRecord, Phases, me
<1>5. Binned' = Binned /\ BinsExact' /\ Counted'
  BY <1>1, BinsKept, PlacedAt
<1>6. Placed' = Placed /\ Mine' = Run(s, m)
  BY <1>1, <1>4, <1>5 DEF Placed, Mine
<1>7. \A t : PagesOf(t)' = PagesOf(t) /\ End(t)' = End(t)
  BY <1>1 DEF PagesOf, End
<1>8. StepTypeOK'
  BY <1>1, <1>3, <1>4 DEF StepInv, StepTypeOK, TypeOK
<1>9. HeldExact' /\ AllocsApart'
  BY <1>1 DEF StepInv, HeldExact, AllocsApart
<1>10. Apart'
  <2>1. \A t \in Placed : PagesOf(t) \cap Run(s, m) = {}
    BY <1>1, <1>3, PlacedPages, MappedPages
  <2> QED BY <1>6, <1>7, <2>1, PlacedAt DEF Apart
<1>11. PlacedMapped' /\ MapSound'
  BY <1>1, <1>3, <1>6, <1>7, PlacedAt DEF PlacedMapped, MapsTo, StepInv, MapSound, Recorded
<1>12. OpExact'
  <2>1. Run(s, m) \cap DOMAIN pageMap = {}
    BY <1>1, MappedPages
  <2>2. \A a \in systemAllocs : Run(a[1], a[2]) \cap Run(s, m) = {}
    BY <1>1 DEF StepInv, AllocsApart
  <2> QED BY <1>1, <1>2, <1>4, <2>1, <2>2 DEF OpExact, FreshRun
<1> QED BY <1>5, <1>8, <1>9, <1>10, <1>11, <1>12 DEF StepInv

(* The mapping is recorded: the destructor will unmap it.                  *)
LEMMA RecordInv ==
  ASSUME StepInv, Record
  PROVE  StepInv'
<1>1. /\ op.at = "record" /\ systemAllocs' = systemAllocs \cup {<<me, op.size>>}
      /\ op' = [op EXCEPT !.at = "newSpan"]
      /\ UNCHANGED <<spans, freeSpans, pageMap, cachedFreePages, osPages, running, held, thrown>>
  BY DEF Record, Goto
<1>2. /\ op' \in OpRecord /\ op'.at = "newSpan" /\ me' = me /\ op'.size = op.size
      /\ me \in Nat /\ op.size \in Nat /\ running
  BY <1>1, OpAt DEF OpRecord, Phases, me
<1>3. /\ FreshRun /\ \A a \in systemAllocs : Run(a[1], a[2]) \cap Run(me, op.size) = {}
  BY <1>1 DEF StepInv, OpExact
<1>4. me \in Pages /\ op.size \in Sizes
  <2>1. me \in Run(me, op.size) /\ me + op.size - 1 \in Run(me, op.size)
    BY <1>2, <1>3 DEF Run, FreshRun
  <2>2. me \in Pages /\ me + op.size - 1 \in Pages
    BY <1>3, <2>1 DEF FreshRun, StepInv, StepTypeOK, TypeOK
  <2> QED BY <1>2, <1>3, <2>2, PageCacheAssumption DEF Pages, Sizes, FreshRun
<1>5. Binned' = Binned /\ BinsExact' /\ Counted'
  BY <1>1, BinsKept, PlacedAt
<1>6. Placed' = Placed /\ Mine' = Mine
  BY <1>1, <1>2, <1>5 DEF Placed, Mine
<1>7. \A t : PagesOf(t)' = PagesOf(t) /\ End(t)' = End(t)
  BY <1>1 DEF PagesOf, End
<1>8. StepTypeOK'
  BY <1>1, <1>2, <1>4 DEF StepInv, StepTypeOK, TypeOK
<1>9. HeldExact'
  BY <1>1 DEF StepInv, HeldExact
<1>10. AllocsApart'
  BY <1>1, <1>3 DEF StepInv, AllocsApart, FreshRun
<1>11. Apart' /\ PlacedMapped' /\ MapSound'
  BY <1>1, <1>6, <1>7, PlacedAt DEF Apart, PlacedMapped, MapsTo, StepInv, MapSound, Recorded
<1>12. OpExact'
  BY <1>1, <1>2, <1>3 DEF OpExact, FreshRun
<1> QED BY <1>5, <1>8, <1>9, <1>10, <1>11, <1>12 DEF StepInv

(* The Span object of a new mapping: nothing leads to it yet.              *)
LEMMA NewSpanInv ==
  ASSUME StepInv, NewSpan
  PROVE  StepInv'
<1>1. /\ op.at = "newSpan"
      /\ spans' = [x \in DOMAIN spans \cup {me} |->
                 IF x = me THEN [numPages |-> op.size, originAddr |-> me,
                                 originPages |-> op.size, inFreeList |-> FALSE,
                                 isLarge |-> FALSE]
                 ELSE spans[x]]
      /\ op' = [op EXCEPT !.at = "register"]
      /\ UNCHANGED <<freeSpans, pageMap, systemAllocs, cachedFreePages, osPages, running, held, thrown>>
  BY DEF NewSpan, Goto
<1>2. /\ op' \in OpRecord /\ op'.at = "register" /\ me' = me /\ op'.size = op.size
      /\ me \in Nat /\ op.size \in Nat /\ running
  BY <1>1, OpAt DEF OpRecord, Phases, me
<1>3. /\ 0 < op.size /\ Run(me, op.size) \subseteq osPages /\ Run(me, op.size) \cap DOMAIN pageMap = {}
      /\ <<me, op.size>> \in systemAllocs /\ Mine = Run(me, op.size)
  BY <1>1 DEF StepInv, OpExact, FreshRun, Mine
<1>4. me \in Pages /\ op.size \in Sizes /\ me \in Run(me, op.size) /\ me \notin DOMAIN pageMap
  <2>1. me \in Pages /\ op.size \in Sizes
    BY <1>3 DEF StepInv, StepTypeOK, TypeOK
  <2>2. me \in Run(me, op.size)
    BY <1>2, <1>3 DEF Run
  <2> QED BY <1>3, <2>1, <2>2
<1>5. /\ DOMAIN spans' = DOMAIN spans \cup {me} /\ spans' \in [DOMAIN spans' -> SpanRecord]
      /\ \A t \in DOMAIN spans : t # me => spans'[t] = spans[t]
      /\ spans'[me].numPages = op.size /\ spans'[me].originAddr = me
      /\ spans'[me].originPages = op.size /\ ~ spans'[me].inFreeList
  BY <1>1, <1>4 DEF StepInv, StepTypeOK, TypeOK, SpanRecord
<1>6. /\ me \notin Placed /\ \A t \in Placed : t \in DOMAIN spans /\ t # me
      /\ \A p \in DOMAIN pageMap : pageMap[p] # me
  BY <1>3, <1>4, NotPlaced, PlacedAt DEF StepInv, MapSound
<1>7. /\ \A t \in DOMAIN spans : t # me => PagesOf(t)' = PagesOf(t) /\ End(t)' = End(t)
      /\ PagesOf(me)' = Run(me, op.size) /\ End(me)' = me + op.size
  BY <1>2, <1>5 DEF PagesOf, End
<1>8. Binned' = Binned /\ BinsExact' /\ Counted'
  BY <1>1, <1>5, <1>6, BinsKept DEF Placed
<1>9. Placed' = Placed /\ Mine' = Mine
  BY <1>1, <1>2, <1>3, <1>7, <1>8 DEF Placed, Mine
<1>10. StepTypeOK'
  BY <1>1, <1>2, <1>4, <1>5 DEF StepInv, StepTypeOK, TypeOK
<1>11. HeldExact' /\ AllocsApart'
  BY <1>1, <1>5, <1>6 DEF StepInv, HeldExact, AllocsApart, Placed
<1>12. Apart' /\ PlacedMapped'
  BY <1>1, <1>2, <1>6, <1>7, <1>9, PlacedAt DEF Apart, PlacedMapped, MapsTo
<1>13. MapSound'
  BY <1>1, <1>5, <1>6, <1>7 DEF StepInv, MapSound, Recorded
<1>14. OpExact'
  BY <1>1, <1>2, <1>3, <1>5, <1>7 DEF OpExact, FreshRun, Loose, Recorded
<1> QED BY <1>8, <1>10, <1>11, <1>12, <1>13, <1>14 DEF StepInv

(* The pages of a new mapping, all of them or the first, enter the map.    *)
LEMMA RegisterFacts ==
  ASSUME StepInv, op.at = "register", NEW n \in 0 .. op.size,
         pageMap' = registerPages(pageMap, me, n),
         UNCHANGED <<spans, systemAllocs, held>>
  PROVE  /\ DOMAIN pageMap' \subseteq Pages /\ pageMap' \in [DOMAIN pageMap' -> Pages]
         /\ \A t \in Placed : MapsTo(PagesOf(t), t)' /\ PagesOf(t)' = PagesOf(t)
         /\ MapSound'
         /\ n = op.size => \A p \in PagesOf(me) : p \in DOMAIN pageMap' /\ pageMap'[p] = me
<1>1. /\ 0 < op.size /\ Run(me, op.size) \subseteq osPages /\ Run(me, op.size) \cap DOMAIN pageMap = {}
      /\ me \in DOMAIN spans /\ Recorded(me) /\ spans[me].numPages = op.size
      /\ me \in Nat /\ op.size \in Nat
  BY OpAt DEF StepInv, OpExact, FreshRun, Loose
<1>2. /\ Run(me, n) \subseteq Run(me, op.size) /\ PagesOf(me) = Run(me, op.size) /\ me \in Pages
      /\ n > 0 => me \in Run(me, n)
  <2>1. me \in Pages
    BY <1>1, SpanAt
  <2> QED BY <1>1, <2>1 DEF Run, PagesOf
<1>3. /\ DOMAIN pageMap' = DOMAIN pageMap \cup Run(me, n)
      /\ \A p \in Run(me, n) : pageMap'[p] = me
      /\ \A p \in DOMAIN pageMap : p \notin Run(me, n) /\ pageMap'[p] = pageMap[p]
  BY <1>1, <1>2 DEF registerPages
<1>4. DOMAIN pageMap' \subseteq Pages /\ pageMap' \in [DOMAIN pageMap' -> Pages]
  <2>1. Run(me, n) \subseteq Pages
    BY <1>1, <1>2 DEF StepInv, StepTypeOK, TypeOK
  <2>2. \A p \in DOMAIN pageMap' : pageMap'[p] \in Pages
    BY <1>2, <1>3 DEF StepInv, StepTypeOK, TypeOK
  <2>3. pageMap' = [p \in DOMAIN pageMap' |-> pageMap'[p]]
    BY DEF registerPages
  <2> QED BY <1>3, <2>1, <2>2, <2>3 DEF StepInv, StepTypeOK, TypeOK
<1>5. \A t : PagesOf(t)' = PagesOf(t) /\ (Recorded(t)' <=> Recorded(t))
  BY DEF PagesOf, Recorded, End
<1>6. \A t \in Placed : MapsTo(PagesOf(t), t)'
  BY <1>3, <1>5, PlacedAt DEF MapsTo
<1>7. MapSound'
  <2>1. ASSUME NEW p \in DOMAIN pageMap
        PROVE  /\ p \in PagesOf(pageMap[p])' /\ pageMap'[p] \in DOMAIN pageMap'
               /\ pageMap'[pageMap'[p]] = pageMap'[p] /\ Recorded(pageMap[p])'
    BY <1>3, <1>5 DEF StepInv, MapSound
  <2>2. ASSUME NEW p \in Run(me, n)
        PROVE  /\ p \in PagesOf(pageMap[p])' /\ pageMap'[p] \in DOMAIN pageMap'
               /\ pageMap'[pageMap'[p]] = pageMap'[p] /\ Recorded(pageMap[p])'
    <3>1. me \in Run(me, n)
      BY <1>1 DEF Run
    <3> QED BY <1>1, <1>2, <1>3, <1>5, <3>1
  <2> QED BY <1>3, <2>1, <2>2 DEF MapSound
<1> QED BY <1>2, <1>3, <1>4, <1>5, <1>6, <1>7

(* The pages of the new mapping lead to its span.                          *)
LEMMA RegisterInv ==
  ASSUME StepInv, Register
  PROVE  StepInv'
<1>1. /\ op.at = "register" /\ pageMap' = registerPages(pageMap, me, op.size)
      /\ op' = [op EXCEPT !.at = "hand"]
      /\ UNCHANGED <<spans, freeSpans, systemAllocs, cachedFreePages, osPages, running, held, thrown>>
  BY DEF Register, MapStep, Goto
<1>2. /\ op' \in OpRecord /\ op'.at = "hand" /\ me' = me /\ op.size \in 0 .. op.size /\ running
  BY <1>1, OpAt DEF OpRecord, Phases, me
<1>3. /\ DOMAIN pageMap' \subseteq Pages /\ pageMap' \in [DOMAIN pageMap' -> Pages]
      /\ \A t \in Placed : MapsTo(PagesOf(t), t)' /\ PagesOf(t)' = PagesOf(t)
      /\ MapSound'
      /\ \A p \in PagesOf(me) : p \in DOMAIN pageMap' /\ pageMap'[p] = me
  BY <1>1, <1>2, RegisterFacts
<1>4. Loose(me) /\ Mine = PagesOf(me)
  BY <1>1 DEF StepInv, OpExact, Mine
<1>5. Binned' = Binned /\ BinsExact' /\ Counted'
  BY <1>1, BinsKept, PlacedAt
<1>6. Placed' = Placed /\ Mine' = Mine /\ PagesOf(me)' = PagesOf(me)
  BY <1>1, <1>2, <1>4, <1>5 DEF Placed, Mine, PagesOf
<1>7. StepTypeOK'
  BY <1>1, <1>2, <1>3 DEF StepInv, StepTypeOK, TypeOK
<1>8. HeldExact' /\ AllocsApart'
  BY <1>1 DEF StepInv, HeldExact, AllocsApart
<1>9. Apart' /\ PlacedMapped'
  BY <1>3, <1>6, PlacedAt DEF Apart, PlacedMapped
<1>10. OpExact'
  BY <1>1, <1>2, <1>3, <1>4, <1>6 DEF OpExact, Loose, MapsTo
<1> QED BY <1>3, <1>5, <1>7, <1>8, <1>9, <1>10 DEF StepInv

(* The first pages of a new mapping stay in the map.                       *)
LEMMA RegisterThrowsInv ==
  ASSUME StepInv, RegisterThrows
  PROVE  StepInv'
<1>1. /\ op.at = "register" /\ Throw /\ UNCHANGED held
      /\ UNCHANGED <<spans, freeSpans, systemAllocs, cachedFreePages, osPages>>
  BY DEF RegisterThrows, Throw
<1>2. PICK n \in 0 .. (op.size - 1) : pageMap' = registerPages(pageMap, me, n)
  BY DEF RegisterThrows
<1>3. n \in 0 .. op.size
  BY OpAt
<1>4. /\ DOMAIN pageMap' \subseteq Pages /\ pageMap' \in [DOMAIN pageMap' -> Pages]
      /\ \A t \in Placed : MapsTo(PagesOf(t), t)' /\ MapSound'
  BY <1>1, <1>2, <1>3, RegisterFacts
<1>5. MapSound'
  BY <1>1, <1>2, <1>3, RegisterFacts
<1> QED BY <1>1, <1>4, <1>5, PlacedAt, ThrownInv DEF StepInv, StepTypeOK, TypeOK

(* A new mapping without a record or a span is lost.                       *)
LEMMA MapThrowsInv ==
  ASSUME StepInv, MapThrows
  PROVE  StepInv'
<1>1. /\ op.at \in {"record", "newSpan"} /\ Throw
      /\ UNCHANGED <<spans, freeSpans, pageMap, systemAllocs, cachedFreePages, osPages>>
  BY DEF MapThrows
<1>2. MapSound' /\ \A t \in Placed : MapsTo(PagesOf(t), t)'
  BY <1>1, PlacedAt DEF StepInv, MapSound, Recorded, PagesOf, End, MapsTo
<1> QED BY <1>1, <1>2, PlacedAt, ThrownInv DEF StepInv, StepTypeOK, TypeOK

-----------------------------------------------------------------------------
(* deallocateSpan.                                                         *)

(* The span leaves its holder; only its own flag is written.               *)
LEMMA GiveBackInv ==
  ASSUME StepInv, NEW s \in held, GiveBack(s)
  PROVE  StepInv'
<1>1. /\ Lock([Idle EXCEPT !.at = IF ReturnDirect(s) THEN "unregister" ELSE "next", !.span = s])
      /\ held' = held \ {s}
      /\ spans' = [x \in DOMAIN spans |-> [spans[x] EXCEPT !.isLarge = @ /\ x # s]]
      /\ UNCHANGED <<freeSpans, pageMap, systemAllocs, cachedFreePages, osPages, running>>
  BY DEF GiveBack, Cleared
<1>2. running /\ op = Idle /\ op.at = "idle" /\ thrown' = thrown /\ op.at # "mapRest"
  BY <1>1 DEF Lock, Idle
<1>3. /\ s \in DOMAIN spans /\ ~ spans[s].inFreeList /\ s \notin Binned /\ s \in Placed
      /\ MapsTo(PagesOf(s), s) /\ s \in Nat /\ s \in Pages
  <2>1. s \in DOMAIN spans /\ ~ spans[s].inFreeList /\ s \notin Binned /\ s \in Placed
    BY PlacedAt DEF Placed
  <2> QED BY <1>2, <2>1, PlacedAt, SpanAt
<1>4. /\ op' \in OpRecord /\ me' = s /\ op'.at \in {"unregister", "next"}
      /\ op'.at = "unregister" => ReturnDirect(s)
  BY <1>1, <1>3 DEF Lock, Idle, OpRecord, Phases, me
<1>5. \A t \in DOMAIN spans : spans[t] \in SpanRecord /\ spans[t].isLarge \in BOOLEAN
  BY DEF StepInv, StepTypeOK, TypeOK, SpanRecord
<1>6. /\ DOMAIN spans' = DOMAIN spans /\ \A t \in DOMAIN spans : t # s => spans'[t] = spans[t]
      /\ spans' \in [DOMAIN spans -> SpanRecord]
      /\ spans'[s].numPages = spans[s].numPages /\ spans'[s].inFreeList = spans[s].inFreeList
      /\ spans'[s].originAddr = spans[s].originAddr /\ spans'[s].originPages = spans[s].originPages
      /\ ~ spans'[s].isLarge
  <2>1. DOMAIN spans' = DOMAIN spans
    BY <1>1
  <2>2. ASSUME NEW t \in DOMAIN spans, t # s
        PROVE  spans'[t] = spans[t]
    <3>1. spans'[t] = [spans[t] EXCEPT !.isLarge = spans[t].isLarge /\ t # s]
      BY <1>1
    <3>2. (spans[t].isLarge /\ t # s) = spans[t].isLarge
      BY <1>5, <2>2
    <3>3. spans'[t] = [spans[t] EXCEPT !.isLarge = spans[t].isLarge]
      BY <3>1, <3>2
    <3> QED BY <1>5, <3>3 DEF SpanRecord
  <2>3. spans'[s] = [spans[s] EXCEPT !.isLarge = FALSE]
    <3>1. spans'[s] = [spans[s] EXCEPT !.isLarge = spans[s].isLarge /\ s # s]
      BY <1>1, <1>3
    <3>2. (spans[s].isLarge /\ s # s) = FALSE
      OBVIOUS
    <3> QED BY <3>1, <3>2
  <2>4. spans'[s] \in SpanRecord
    BY <1>3, <1>5, <2>3 DEF SpanRecord
  <2>5. \A t \in DOMAIN spans : spans'[t] \in SpanRecord
    BY <1>5, <2>2, <2>4
  <2>6. spans' = [t \in DOMAIN spans |-> spans'[t]]
    BY <1>1
  <2> QED BY <1>3, <1>5, <2>1, <2>2, <2>3, <2>5, <2>6 DEF SpanRecord
<1>7. \A t \in DOMAIN spans : PagesOf(t)' = PagesOf(t) /\ End(t)' = End(t)
  BY <1>6 DEF PagesOf, End
<1>8. Binned' = Binned /\ BinsExact' /\ Counted'
  BY <1>1, <1>3, <1>6, PlacedAt, BinsKept
<1>9. Placed' = Placed \ {s} /\ Mine' = PagesOf(s)
  BY <1>1, <1>3, <1>4, <1>7, <1>8 DEF Placed, Mine
<1>10. StepTypeOK'
  BY <1>1, <1>2, <1>4, <1>6 DEF StepInv, StepTypeOK, TypeOK
<1>11. HeldExact' /\ AllocsApart'
  BY <1>1, <1>6 DEF StepInv, HeldExact, AllocsApart
<1>12. Apart'
  BY <1>3, <1>7, <1>9, PlacedAt DEF Apart
<1>13. PlacedMapped'
  BY <1>1, <1>2, <1>7, <1>9, PlacedAt DEF PlacedMapped, MapsTo
<1>14. MapSound'
  <2>1. ASSUME NEW t \in DOMAIN spans
        PROVE  /\ t \in DOMAIN spans' /\ spans'[t].originAddr = spans[t].originAddr
               /\ spans'[t].originPages = spans[t].originPages
    BY <1>6
  <2>2. \A t \in DOMAIN spans : Recorded(t) => Recorded(t)'
    BY <1>1, <1>7, <2>1 DEF Recorded
  <2> QED BY <1>1, <1>7, <2>2 DEF StepInv, MapSound, Recorded
<1>15. OpExact'
  <2>1. Loose(s)' /\ MapsTo(PagesOf(s), s)' /\ ~ spans'[s].isLarge
    BY <1>1, <1>3, <1>6, <1>7 DEF Loose, MapsTo
  <2>2. op'.at = "unregister" => OwnsOrigin(s)'
    BY <1>4, <1>6 DEF OwnsOrigin, ReturnDirect
  <2> QED BY <1>4, <2>1, <2>2 DEF OpExact
<1> QED BY <1>8, <1>10, <1>11, <1>12, <1>13, <1>14, <1>15 DEF StepInv

(* The neighbour x leaves its bin, and `into' grows by the pages of `from'.*)
LEMMA AbsorbFacts ==
  ASSUME StepInv, running, op.at \in {"next", "prev"}, NEW at \in Phases,
         NEW x \in DOMAIN spans, Removable(x), spans[x].inFreeList, x # me,
         NEW into \in DOMAIN spans, NEW from \in DOMAIN spans,
         spans[x].originAddr = spans[me].originAddr,
         into = x \/ from = x, into = me \/ from = me, into # from, End(into) = from,
         Absorb(x, into, from, at)
  PROVE  /\ x \in Binned /\ MapsTo(PagesOf(x), x) /\ ~ spans[x].isLarge
         /\ PagesOf(x) \cap PagesOf(me) = {} /\ SameMapping(x, me)
         /\ Placed' = Placed \ {x} /\ BinsExact' /\ Counted'
         /\ DOMAIN spans' = DOMAIN spans
         /\ \A t \in DOMAIN spans : t \notin {x, me} => spans'[t] = spans[t]
         /\ \A t \in {x, me} : /\ ~ spans'[t].inFreeList
                               /\ spans'[t].isLarge = spans[t].isLarge
                               /\ spans'[t].originAddr = spans[t].originAddr
                               /\ spans'[t].originPages = spans[t].originPages
         /\ spans'[into].numPages = spans[into].numPages + spans[from].numPages
         /\ spans'[from].numPages = spans[from].numPages
         /\ \A t \in DOMAIN spans : t # into => PagesOf(t)' = PagesOf(t) /\ End(t)' = End(t)
         /\ End(into)' = End(from) /\ PagesOf(into)' = PagesOf(into) \cup PagesOf(from)
         /\ op' \in OpRecord /\ op'.at = at /\ op'.other = x /\ me' = me
         /\ StepTypeOK' /\ HeldExact' /\ AllocsApart' /\ MapSound' /\ Placed' \cap {x, me} = {}
         /\ \A t \in Placed' : PagesOf(t) \cap (PagesOf(x) \cup PagesOf(me)) = {}
         /\ \A t \in Placed' : MapsTo(PagesOf(t), t)'
<1>1. /\ freeSpans' = [freeSpans EXCEPT ![spans[x].numPages] = @ \ {x}]
      /\ cachedFreePages' = cachedFreePages - spans[x].numPages
      /\ spans' = [y \in DOMAIN spans |->
                     [spans[y] EXCEPT !.inFreeList = @ /\ y # x,
                                      !.numPages = IF y = into THEN @ + spans[from].numPages ELSE @]]
      /\ op' = [op EXCEPT !.at = at, !.other = x]
      /\ UNCHANGED <<pageMap, systemAllocs, osPages, running, held, before, thrown>>
  BY DEF Absorb
<1>2. /\ Loose(me) /\ MapsTo(PagesOf(me), me) /\ Mine = PagesOf(me) /\ me \in DOMAIN spans
  BY DEF StepInv, OpExact, Mine, Loose
<1>3. /\ spans[x].numPages \in Sizes /\ x \in freeSpans[spans[x].numPages] /\ x \in Binned
      /\ x \in Placed /\ MapsTo(PagesOf(x), x) /\ PagesOf(x) \cap PagesOf(me) = {}
      /\ ~ spans[x].isLarge /\ x \notin held
  <2>1. spans[x].numPages \in Sizes /\ x \in freeSpans[spans[x].numPages]
    BY SpanAt DEF Removable
  <2>2. x \in Binned
    BY <2>1, PlacedAt
  <2> QED BY <1>2, <2>1, <2>2, PlacedAt DEF Placed
<1>4. /\ op' \in OpRecord /\ op'.at = at /\ op'.other = x /\ me' = me
  BY <1>1, OpAt, SpanAt DEF OpRecord, me
<1>5. \A t \in DOMAIN spans : spans[t] \in SpanRecord /\ spans[t].inFreeList \in BOOLEAN
  BY DEF StepInv, StepTypeOK, TypeOK, SpanRecord
<1>6. spans[into].numPages + spans[from].numPages \in Sizes
  <2>1. /\ into \in Nat /\ from \in Nat /\ spans[into].numPages \in Nat /\ spans[from].numPages \in Nat
        /\ from = into + spans[into].numPages /\ End(from) = from + spans[from].numPages
        /\ spans[from].numPages > 0 /\ (End(from) - 1) \in PagesOf(from)
    <3>1. into \in Nat /\ spans[into].numPages \in Nat /\ End(into) = into + spans[into].numPages
      BY SpanAt
    <3>2. /\ from \in Nat /\ spans[from].numPages \in Nat \ {0}
          /\ End(from) = from + spans[from].numPages /\ (End(from) - 1) \in PagesOf(from)
      BY SpanAt
    <3> QED BY <3>1, <3>2
  <2>2. PagesOf(from) \subseteq Pages
    BY <1>2, <1>3 DEF MapsTo, StepInv, StepTypeOK, TypeOK
  <2> QED BY <2>1, <2>2, PageCacheAssumption DEF Pages, Sizes
<1>7. /\ DOMAIN spans' = DOMAIN spans
      /\ \A t \in DOMAIN spans : t \notin {x, me} => spans'[t] = spans[t]
      /\ \A t \in DOMAIN spans :
           /\ spans'[t].inFreeList = (spans[t].inFreeList /\ t # x)
           /\ spans'[t].isLarge = spans[t].isLarge
           /\ spans'[t].originAddr = spans[t].originAddr
           /\ spans'[t].originPages = spans[t].originPages
           /\ spans'[t].numPages = (IF t = into THEN spans[t].numPages + spans[from].numPages
                                    ELSE spans[t].numPages)
           /\ spans'[t] \in SpanRecord
  <2>1. DOMAIN spans' = DOMAIN spans
    BY <1>1
  <2>2. ASSUME NEW t \in DOMAIN spans
        PROVE  /\ spans'[t].inFreeList = (spans[t].inFreeList /\ t # x)
               /\ spans'[t].isLarge = spans[t].isLarge
               /\ spans'[t].originAddr = spans[t].originAddr
               /\ spans'[t].originPages = spans[t].originPages
               /\ spans'[t].numPages = (IF t = into THEN spans[t].numPages + spans[from].numPages
                                        ELSE spans[t].numPages)
               /\ spans'[t] \in SpanRecord
    <3> DEFINE f == (spans[t].inFreeList /\ t # x)
               n == IF t = into THEN spans[t].numPages + spans[from].numPages ELSE spans[t].numPages
    <3>1. spans'[t] = [spans[t] EXCEPT !.inFreeList = f, !.numPages = n]
      BY <1>1
    <3>2. f \in BOOLEAN
      OBVIOUS
    <3>3. n \in Sizes
      BY <1>6, SpanAt
    <3> HIDE DEF f, n
    <3>4. spans[t] \in SpanRecord
      BY <1>5
    <3>5. /\ spans'[t].inFreeList = f /\ spans'[t].numPages = n
          /\ spans'[t].isLarge = spans[t].isLarge
          /\ spans'[t].originAddr = spans[t].originAddr
          /\ spans'[t].originPages = spans[t].originPages
      BY <3>1, <3>4 DEF SpanRecord
    <3>6. spans'[t] \in SpanRecord
      BY <3>1, <3>2, <3>3, <3>4 DEF SpanRecord
    <3> QED BY <3>5, <3>6 DEF f, n
  <2>3. ASSUME NEW t \in DOMAIN spans, t \notin {x, me}
        PROVE  spans'[t] = spans[t]
    <3>1. spans'[t] = [spans[t] EXCEPT !.inFreeList = (spans[t].inFreeList /\ t # x),
                                       !.numPages = spans[t].numPages]
      BY <1>1, <2>3
    <3>2. (spans[t].inFreeList /\ t # x) = spans[t].inFreeList
      BY <1>5, <2>3
    <3>3. spans'[t] = [spans[t] EXCEPT !.inFreeList = spans[t].inFreeList, !.numPages = spans[t].numPages]
      BY <3>1, <3>2
    <3> QED BY <1>5, <3>3 DEF SpanRecord
  <2> QED BY <2>1, <2>2, <2>3
<1>8. /\ Binned' = Binned \ {x} /\ BinsExact' /\ Counted'
      /\ freeSpans' \in [Sizes -> SUBSET Pages] /\ cachedFreePages' \in Nat
  <2>1. \A t \in Binned \ {x} : t \in DOMAIN spans /\ t \notin {x, me}
    BY <1>2, PlacedAt DEF Loose
  <2>2. \A t \in Binned \ {x} : t \in DOMAIN spans' /\ spans'[t] = spans[t]
    BY <1>7, <2>1
  <2> DEFINE k == spans[x].numPages
  <2>3. /\ k \in Sizes /\ x \in freeSpans[k] /\ cachedFreePages' = cachedFreePages - k
        /\ freeSpans' = [freeSpans EXCEPT ![k] = @ \ {x}] /\ op.at # "mapRest"
    BY <1>1, <1>3
  <2> HIDE DEF k
  <2> QED BY <2>2, <2>3, BinTaken
<1>9. /\ Placed' = Placed \ {x} /\ Placed' \cap {x, me} = {}
  <2>1. me \notin Placed
    BY <1>2, NotPlaced, SpanAt
  <2> QED BY <1>1, <1>3, <1>8, <2>1 DEF Placed
<1>10. \A t \in DOMAIN spans : t # into => PagesOf(t)' = PagesOf(t) /\ End(t)' = End(t)
  BY <1>7 DEF PagesOf, End
<1>11. End(into)' = End(from) /\ PagesOf(into)' = PagesOf(into) \cup PagesOf(from)
  <2>1. /\ into \in Nat /\ from \in Nat /\ spans[into].numPages \in Nat /\ spans[from].numPages \in Nat
        /\ from = into + spans[into].numPages
    BY SpanAt DEF End
  <2> QED BY <1>7, <2>1 DEF PagesOf, Run, End
<1>12. StepTypeOK'
  <2>1. spans' \in [DOMAIN spans' -> SpanRecord]
    <3>1. spans' = [t \in DOMAIN spans |-> spans'[t]]
      BY <1>1
    <3> QED BY <1>7, <3>1
  <2> QED BY <1>1, <1>4, <1>7, <1>8, <2>1 DEF StepInv, StepTypeOK, TypeOK
<1>13. HeldExact' /\ AllocsApart'
  BY <1>1, <1>7 DEF StepInv, HeldExact, AllocsApart
<1>14. /\ Recorded(x) /\ Recorded(me) /\ SameMapping(x, me)
  <2>1. Recorded(x) /\ Recorded(me)
    BY <1>2, <1>3, SpanAt DEF MapsTo, StepInv, MapSound
  <2> DEFINE a == <<spans[x].originAddr, spans[x].originPages>>
             b == <<spans[me].originAddr, spans[me].originPages>>
  <2>2. a \in systemAllocs /\ b \in systemAllocs
    BY <2>1 DEF Recorded
  <2>3. spans[x].originAddr \in Run(a[1], a[2]) \cap Run(b[1], b[2])
    <3>1. /\ spans[x].originAddr \in Nat /\ spans[x].originPages \in Nat \ {0}
          /\ spans[me].originAddr \in Nat /\ spans[me].originPages \in Nat \ {0}
      BY <1>2, SpanAt
    <3> QED BY <3>1 DEF Run
  <2> HIDE DEF a, b
  <2>4. a = b
    BY <2>2, <2>3 DEF StepInv, AllocsApart
  <2> QED BY <2>1, <2>4 DEF SameMapping, a, b
<1>15. MapSound'
  <2>1. ASSUME NEW t \in DOMAIN spans, Recorded(t)
        PROVE  Recorded(t)'
    <3>1. /\ t \in DOMAIN spans' /\ spans'[t].originAddr = spans[t].originAddr
          /\ spans'[t].originPages = spans[t].originPages
      BY <1>7
    <3>2. End(t)' <= spans[t].originAddr + spans[t].originPages
      <4>1. CASE t # into
        BY <1>10, <2>1, <4>1 DEF Recorded
      <4>2. CASE t = into
        BY <1>11, <1>14, <4>2 DEF Recorded, SameMapping
      <4> QED BY <4>1, <4>2
    <3>3. /\ systemAllocs' = systemAllocs
          /\ <<spans[t].originAddr, spans[t].originPages>> \in systemAllocs
          /\ spans[t].originAddr <= t
      BY <1>1, <2>1 DEF Recorded
    <3> QED BY <3>1, <3>2, <3>3 DEF Recorded
  <2>2. \A t \in DOMAIN spans : PagesOf(t) \subseteq PagesOf(t)'
    BY <1>10, <1>11
  <2> QED BY <1>1, <2>1, <2>2 DEF StepInv, MapSound, Recorded
<1>16. /\ \A t \in Placed' : PagesOf(t) \cap (PagesOf(x) \cup PagesOf(me)) = {}
       /\ \A t \in Placed' : MapsTo(PagesOf(t), t)'
  <2>1. \A t \in Placed' : t \in Placed /\ t # x /\ t # into
    BY <1>9
  <2>2. \A t \in Placed' : /\ PagesOf(t) \cap PagesOf(x) = {} /\ PagesOf(t) \cap PagesOf(me) = {}
                            /\ MapsTo(PagesOf(t), t)
    BY <1>2, <1>3, <2>1, PlacedAt
  <2>3. \A t \in Placed' : PagesOf(t)' = PagesOf(t)
    BY <1>10, <2>1, PlacedAt
  <2> QED BY <1>1, <2>2, <2>3 DEF MapsTo
<1>17. \A t \in {x, me} : ~ spans'[t].inFreeList
  BY <1>2, <1>7 DEF Loose
<1>18. /\ spans'[into].numPages = spans[into].numPages + spans[from].numPages
       /\ spans'[from].numPages = spans[from].numPages
  BY <1>7
<1> QED BY <1>2, <1>3, <1>4, <1>7, <1>8, <1>9, <1>10, <1>11, <1>12, <1>13, <1>14, <1>15,
           <1>16, <1>17, <1>18

(* Only the phase changes.                                                 *)
LEMMA GotoInv ==
  ASSUME StepInv, op.at \in {"next", "prev", "place"}, NEW to \in {"prev", "place", "unregister"},
         Goto(to), UNCHANGED <<cacheVars, held>>, to = "unregister" => OwnsOrigin(me)
  PROVE  StepInv'
<1>1. /\ op' = [op EXCEPT !.at = to]
      /\ UNCHANGED <<spans, freeSpans, pageMap, systemAllocs, cachedFreePages, osPages, running,
                     held, thrown>>
  BY DEF Goto, cacheVars
<1>2. /\ op' \in OpRecord /\ op'.at = to /\ me' = me /\ running
  BY <1>1, OpAt DEF OpRecord, Phases, me
<1>3. /\ Loose(me) /\ MapsTo(PagesOf(me), me) /\ ~ spans[me].isLarge
  BY DEF StepInv, OpExact
<1>4. \A t : PagesOf(t)' = PagesOf(t) /\ End(t)' = End(t)
  BY <1>1 DEF PagesOf, End
<1>5. Binned' = Binned /\ BinsExact' /\ Counted'
  BY <1>1, PlacedAt, BinsKept
<1>6. Placed' = Placed /\ Mine' = Mine
  BY <1>1, <1>2, <1>4, <1>5 DEF Placed, Mine
<1>7. StepTypeOK'
  BY <1>1, <1>2 DEF StepInv, StepTypeOK, TypeOK
<1>8. HeldExact' /\ AllocsApart' /\ MapSound'
  BY <1>1, <1>4 DEF StepInv, HeldExact, AllocsApart, MapSound, Recorded
<1>9. Apart' /\ PlacedMapped'
  BY <1>1, <1>2, <1>4, <1>6, PlacedAt DEF Apart, PlacedMapped, MapsTo
<1>10. OpExact'
  BY <1>1, <1>2, <1>3, <1>4 DEF OpExact, Loose, MapsTo, OwnsOrigin
<1> QED BY <1>5, <1>7, <1>8, <1>9, <1>10 DEF StepInv

(* The free span that follows is taken off its list and its pages become   *)
(* the operation's.                                                        *)
LEMMA LookNextInv ==
  ASSUME StepInv, LookNext
  PROVE  StepInv'
<1>1. op.at = "next"
  BY DEF LookNext
<1>2. CASE ~ NextMergeable(me)
  BY <1>1, <1>2, GotoInv DEF LookNext
<1>3. CASE NextMergeable(me)
  <2>0. PICK x : x = End(me)
    OBVIOUS
  <2>1. Absorb(x, me, x, "redirectNext")
    BY <1>3, <2>0 DEF LookNext
  <2>2. /\ Loose(me) /\ me \in DOMAIN spans /\ MapsTo(PagesOf(me), me) /\ running
        /\ ~ spans[me].isLarge
    BY <1>1, OpAt DEF StepInv, OpExact, Loose
  <2>3. /\ x \in DOMAIN pageMap /\ pageMap[x] = x /\ x # me /\ spans[x].inFreeList
        /\ spans[x].originAddr = spans[me].originAddr /\ Removable(x)
    BY <1>3, <2>0 DEF NextMergeable
  <2>4. x \in DOMAIN spans
    BY <2>3 DEF StepInv, MapSound, Recorded
  <2>5. /\ x \in Nat /\ me \in Nat /\ me < x /\ PagesOf(me) = me .. (x - 1) /\ Run(me, x - me) = PagesOf(me)
    BY <2>0, <2>2, <2>4, SpanAt DEF Run
  <2>6. End(me) = x /\ "redirectNext" \in Phases
    BY <2>0 DEF Phases
  <2>7. /\ MapsTo(PagesOf(x), x) /\ SameMapping(x, me) /\ PagesOf(x) \cap PagesOf(me) = {}
        /\ Placed' = Placed \ {x} /\ BinsExact' /\ Counted'
        /\ DOMAIN spans' = DOMAIN spans
        /\ \A t \in {x, me} : /\ ~ spans'[t].inFreeList
                              /\ spans'[t].isLarge = spans[t].isLarge
                              /\ spans'[t].originAddr = spans[t].originAddr
                              /\ spans'[t].originPages = spans[t].originPages
        /\ \A t \in DOMAIN spans : t # me => PagesOf(t)' = PagesOf(t) /\ End(t)' = End(t)
        /\ End(me)' = End(x) /\ PagesOf(me)' = PagesOf(me) \cup PagesOf(x)
        /\ op' \in OpRecord /\ op'.at = "redirectNext" /\ op'.other = x /\ me' = me
        /\ StepTypeOK' /\ HeldExact' /\ AllocsApart' /\ MapSound' /\ Placed' \cap {x, me} = {}
        /\ \A t \in Placed' : PagesOf(t) \cap (PagesOf(x) \cup PagesOf(me)) = {}
        /\ \A t \in Placed' : MapsTo(PagesOf(t), t)'
    BY <1>1, <2>1, <2>2, <2>3, <2>4, <2>6, AbsorbFacts
  <2>8. Mine' = PagesOf(me)'
    BY <2>7 DEF Mine
  <2>9. Apart'
    <3>1. \A t \in Placed' : t \in DOMAIN spans /\ t # me /\ t \in Placed
      BY <2>7, PlacedAt
    <3>2. \A t \in Placed' : PagesOf(t)' = PagesOf(t)
      BY <2>7, <3>1
    <3> QED BY <2>7, <2>8, <3>1, <3>2, PlacedAt DEF Apart
  <2>10. PlacedMapped'
    BY <2>7 DEF PlacedMapped
  <2>11. OpExact'
    <3>1. /\ Loose(me)' /\ Loose(x)' /\ SameMapping(me, x)' /\ ~ spans'[me].isLarge
          /\ End(x)' = End(me)'
      BY <2>2, <2>4, <2>3, <2>7 DEF Loose, SameMapping
    <3>2. MapsTo(Run(me, x - me), me)' /\ MapsTo(PagesOf(x), x)'
      <4>1. pageMap' = pageMap
        BY <2>1 DEF Absorb
      <4> QED BY <2>2, <2>3, <2>4, <2>5, <2>7, <4>1 DEF MapsTo
    <3> QED BY <2>5, <2>7, <3>1, <3>2 DEF OpExact
  <2> QED BY <2>7, <2>9, <2>10, <2>11 DEF StepInv
<1> QED BY <1>2, <1>3

(* redirectPages changes entries of pages that are in the map already.     *)
LEMMA RedirectFacts ==
  ASSUME StepInv, NEW from \in DOMAIN spans, NEW to \in DOMAIN spans, from # to,
         op.at # "mapRest",
         PagesOf(from) \subseteq Mine, PagesOf(from) \subseteq PagesOf(to),
         MapsTo(PagesOf(from), from), to \in DOMAIN pageMap, pageMap[to] = to,
         pageMap' = redirectPages(from, to),
         UNCHANGED <<spans, systemAllocs, held>>
  PROVE  /\ DOMAIN pageMap' = DOMAIN pageMap /\ pageMap' \in [DOMAIN pageMap' -> Pages]
         /\ \A p \in DOMAIN pageMap : pageMap'[p] = (IF p \in PagesOf(from) THEN to ELSE pageMap[p])
         /\ \A t \in Placed : MapsTo(PagesOf(t), t)'
         /\ MapSound' /\ \A p \in DOMAIN pageMap' : pageMap'[p] # from
<1>1. PagesOf(from) \subseteq DOMAIN pageMap /\ from \in PagesOf(from) /\ to \in Pages
  BY SpanAt DEF MapsTo
<1>2. /\ DOMAIN pageMap' = DOMAIN pageMap
      /\ \A p \in DOMAIN pageMap : pageMap'[p] = (IF p \in PagesOf(from) THEN to ELSE pageMap[p])
      /\ pageMap' = [p \in DOMAIN pageMap |-> pageMap'[p]]
  BY <1>1 DEF redirectPages
<1>3. pageMap' \in [DOMAIN pageMap' -> Pages]
  BY <1>1, <1>2 DEF StepInv, StepTypeOK, TypeOK
<1>4. \A t : PagesOf(t)' = PagesOf(t) /\ (Recorded(t)' <=> Recorded(t))
  BY DEF PagesOf, Recorded, End
<1>5. \A t \in Placed : MapsTo(PagesOf(t), t)'
  <2>1. \A t \in Placed : MapsTo(PagesOf(t), t) /\ PagesOf(t) \cap PagesOf(from) = {}
    BY PlacedAt
  <2> QED BY <1>2, <1>4, <2>1 DEF MapsTo
<1>6. \A p \in DOMAIN pageMap : pageMap[p] = from => p \in PagesOf(from)
  BY DEF StepInv, MapSound
<1>7. to \notin PagesOf(from)
  BY DEF MapsTo
<1>8. \A p \in DOMAIN pageMap' : pageMap'[p] # from
  BY <1>2, <1>6
<1>9. MapSound'
  <2>1. ASSUME NEW p \in DOMAIN pageMap
        PROVE  /\ p \in PagesOf(pageMap'[p]) /\ pageMap'[p] \in DOMAIN pageMap
               /\ pageMap'[pageMap'[p]] = pageMap'[p] /\ Recorded(pageMap'[p])
    <3>1. CASE p \in PagesOf(from)
      <4>1. Recorded(to)
        BY DEF StepInv, MapSound
      <4> QED BY <1>2, <1>7, <3>1, <4>1
    <3>2. CASE p \notin PagesOf(from)
      <4>1. /\ p \in PagesOf(pageMap[p]) /\ pageMap[p] \in DOMAIN pageMap
            /\ pageMap[pageMap[p]] = pageMap[p] /\ Recorded(pageMap[p])
        BY DEF StepInv, MapSound
      <4>2. pageMap[p] \notin PagesOf(from)
        BY <1>6, <3>2, <4>1 DEF MapsTo
      <4> QED BY <1>2, <3>2, <4>1, <4>2
    <3> QED BY <3>1, <3>2
  <2> DEFINE q == pageMap'
  <2>2. \A p \in DOMAIN q : /\ p \in PagesOf(q[p]) /\ q[p] \in DOMAIN q /\ q[q[p]] = q[p]
                            /\ Recorded(q[p])
    BY <1>2, <2>1
  <2>3. \A t : (t \in DOMAIN spans' <=> t \in DOMAIN spans)
    OBVIOUS
  <2> QED BY <1>4, <2>2 DEF MapSound, PagesOf, Recorded, End
<1> QED BY <1>2, <1>3, <1>5, <1>8, <1>9

(* A step that changes the page map and the phase only.                    *)
LEMMA MapStepInv ==
  ASSUME StepInv, op.at # "idle", NEW from, NEW map, NEW to \in Phases, MapStep(from, map, to),
         to # "mapRest", DOMAIN map \subseteq Pages, map \in [DOMAIN map -> Pages],
         \A t \in Placed : MapsTo(PagesOf(t), t)', MapSound', OpExact', Mine' = Mine
  PROVE  StepInv'
<1>1. /\ pageMap' = map /\ op' = [op EXCEPT !.at = to]
      /\ UNCHANGED <<spans, freeSpans, systemAllocs, cachedFreePages, osPages, running, held, thrown>>
  BY DEF MapStep, Goto
<1>2. /\ op' \in OpRecord /\ op'.at = to /\ running
  BY <1>1, OpAt DEF OpRecord
<1>3. Binned' = Binned /\ BinsExact' /\ Counted'
  BY <1>1, BinsKept, PlacedAt
<1>4. Placed' = Placed /\ \A t : PagesOf(t)' = PagesOf(t)
  BY <1>1, <1>3 DEF Placed, PagesOf
<1>5. StepTypeOK'
  BY <1>1, <1>2 DEF StepInv, StepTypeOK, TypeOK
<1>6. HeldExact' /\ AllocsApart'
  BY <1>1 DEF StepInv, HeldExact, AllocsApart
<1>7. Apart' /\ PlacedMapped'
  BY <1>2, <1>4, PlacedAt DEF Apart, PlacedMapped
<1> QED BY <1>3, <1>5, <1>6, <1>7 DEF StepInv

(* The pages of the next span lead to the one given back.                  *)
LEMMA RedirectNextInv ==
  ASSUME StepInv, RedirectNext
  PROVE  StepInv'
<1>1. /\ op.at = "redirectNext" /\ pageMap' = redirectPages(op.other, me)
      /\ MapStep("redirectNext", redirectPages(op.other, me), "deleteNext")
      /\ op' = [op EXCEPT !.at = "deleteNext"]
      /\ UNCHANGED <<spans, systemAllocs, held>>
  BY DEF RedirectNext, PagesAfterNext, MapStep, Goto
<1>2. /\ op'.at = "deleteNext" /\ me' = me /\ op'.other = op.other
  BY <1>1, OpAt DEF OpRecord, me
<1>3. /\ Loose(me) /\ Loose(op.other) /\ op.other \in DOMAIN spans /\ me \in DOMAIN spans
      /\ me < op.other /\ End(op.other) = End(me) /\ ~ spans[me].isLarge
      /\ MapsTo(Run(me, op.other - me), me) /\ MapsTo(PagesOf(op.other), op.other)
      /\ Mine = PagesOf(me)
  BY <1>1 DEF StepInv, OpExact, Loose, Mine
<1>4. /\ me \in Nat /\ op.other \in Nat /\ op.other # me
      /\ PagesOf(op.other) \subseteq PagesOf(me) /\ op.other \in PagesOf(op.other)
      /\ PagesOf(me) = Run(me, op.other - me) \cup PagesOf(op.other)
      /\ me \in Run(me, op.other - me)
  <2>1. /\ me \in Nat /\ op.other \in Nat /\ End(me) \in Nat
        /\ PagesOf(me) = me .. (End(me) - 1) /\ PagesOf(op.other) = op.other .. (End(me) - 1)
        /\ op.other \in PagesOf(op.other)
    BY <1>3, SpanAt
  <2>2. Run(me, op.other - me) = me .. (op.other - 1)
    BY <2>1 DEF Run
  <2> QED BY <1>3, <2>1, <2>2
<1>5. me \in DOMAIN pageMap /\ pageMap[me] = me
  BY <1>3, <1>4 DEF MapsTo
<1>6. /\ DOMAIN pageMap' = DOMAIN pageMap /\ pageMap' \in [DOMAIN pageMap' -> Pages]
      /\ \A p \in DOMAIN pageMap : pageMap'[p] = (IF p \in PagesOf(op.other) THEN me ELSE pageMap[p])
      /\ \A t \in Placed : MapsTo(PagesOf(t), t)'
      /\ MapSound'
  <2> DEFINE from == op.other
  <2>1. /\ from \in DOMAIN spans /\ from # me /\ op.at # "mapRest"
        /\ PagesOf(from) \subseteq Mine /\ PagesOf(from) \subseteq PagesOf(me)
        /\ MapsTo(PagesOf(from), from)
        /\ pageMap' = redirectPages(from, me)
    BY <1>1, <1>3, <1>4
  <2> QED BY <1>1, <1>3, <1>5, <2>1, RedirectFacts
<1>7. PagesOf(me)' = PagesOf(me) /\ Mine' = Mine
  BY <1>1, <1>2, <1>3 DEF PagesOf, Mine
<1>8. OpExact'
  <2>1. MapsTo(PagesOf(me), me)'
    BY <1>2, <1>3, <1>4, <1>6, <1>7 DEF MapsTo
  <2> QED BY <1>1, <1>2, <1>3, <1>4, <1>7, <2>1 DEF OpExact, Loose
<1>9. DOMAIN pageMap' \subseteq Pages
  BY <1>6 DEF StepInv, StepTypeOK, TypeOK
<1> QED BY <1>1, <1>6, <1>7, <1>8, <1>9, MapStepInv DEF Phases

(* A Span object is deleted that no bin, no caller and no page leads to.   *)
LEMMA DeleteFacts ==
  ASSUME StepInv, op.at \notin {"idle", "mapRest"}, NEW x, x \notin Placed,
         \A p \in DOMAIN pageMap : pageMap[p] # x,
         spans' = Without({x}), op' \in OpRecord, op'.at # "mapRest", Mine' = Mine,
         UNCHANGED <<freeSpans, pageMap, systemAllocs, cachedFreePages, osPages, running, held, thrown>>,
         OpExact'
  PROVE  StepInv'
<1>1. /\ DOMAIN spans' = DOMAIN spans \ {x} /\ \A t \in DOMAIN spans : t # x => spans'[t] = spans[t]
      /\ spans' = [t \in DOMAIN spans \ {x} |-> spans[t]]
  BY DEF Without
<1>2. running
  BY OpAt
<1>3. \A t \in Placed : t # x /\ t \in DOMAIN spans' /\ spans'[t] = spans[t]
  BY <1>1, PlacedAt
<1>4. Binned' = Binned /\ BinsExact' /\ Counted'
  BY <1>3, BinsKept DEF Placed
<1>5. Placed' = Placed
  BY <1>4 DEF Placed
<1>6. \A t \in DOMAIN spans : t # x => PagesOf(t)' = PagesOf(t) /\ End(t)' = End(t)
  BY <1>1 DEF PagesOf, End
<1>7. StepTypeOK'
  BY <1>1, <1>2 DEF StepInv, StepTypeOK, TypeOK
<1>8. HeldExact' /\ AllocsApart'
  BY <1>3 DEF StepInv, HeldExact, AllocsApart, Placed
<1>9. Apart' /\ PlacedMapped'
  BY <1>3, <1>5, <1>6, PlacedAt DEF Apart, PlacedMapped, MapsTo
<1>10. MapSound'
  <2>1. \A p \in DOMAIN pageMap : pageMap[p] \in DOMAIN spans /\ pageMap[p] # x
    BY DEF StepInv, MapSound, Recorded
  <2> QED BY <1>1, <1>6, <2>1 DEF StepInv, MapSound, Recorded
<1> QED BY <1>4, <1>7, <1>8, <1>9, <1>10 DEF StepInv

(* Nothing leads to the next span when it is deleted.                      *)
LEMMA DeleteNextInv ==
  ASSUME StepInv, DeleteNext
  PROVE  StepInv'
<1>1. /\ op.at = "deleteNext" /\ spans' = Without({op.other}) /\ op' = [op EXCEPT !.at = "prev"]
      /\ UNCHANGED <<freeSpans, pageMap, systemAllocs, cachedFreePages, osPages, running, held, thrown>>
  BY DEF DeleteNext, Goto
<1>2. /\ op' \in OpRecord /\ op'.at = "prev" /\ me' = me
  BY <1>1, OpAt DEF OpRecord, Phases, me
<1>3. /\ Loose(me) /\ MapsTo(PagesOf(me), me) /\ op.other # me /\ op.other \in PagesOf(me)
      /\ ~ spans[me].isLarge /\ me \in DOMAIN spans /\ Mine = PagesOf(me)
  BY <1>1 DEF StepInv, OpExact, Loose, Mine
<1>4. \A p \in DOMAIN pageMap : pageMap[p] # op.other
  BY <1>3 DEF MapsTo, StepInv, MapSound
<1>5. op.other \notin Placed
  BY <1>1, <1>3, PlacedPages DEF MapsTo
<1>6. spans'[me] = spans[me] /\ me \in DOMAIN spans' /\ PagesOf(me)' = PagesOf(me)
  BY <1>1, <1>2, <1>3 DEF Without, PagesOf
<1>7. OpExact' /\ Mine' = Mine
  BY <1>1, <1>2, <1>3, <1>6 DEF OpExact, Loose, MapsTo, Mine
<1> QED BY <1>1, <1>2, <1>4, <1>5, <1>7, DeleteFacts

(* The free span that precedes is taken off its list and takes the pages   *)
(* of the span that is freed.                                              *)
LEMMA LookPrevInv ==
  ASSUME StepInv, LookPrev
  PROVE  StepInv'
<1>1. op.at = "prev"
  BY DEF LookPrev
<1>2. CASE ~ PrevMergeable(me)
  BY <1>1, <1>2, GotoInv DEF LookPrev
<1>3. CASE PrevMergeable(me)
  <2>0. PICK x : x = pageMap[me - 1]
    OBVIOUS
  <2>1. Absorb(x, x, me, "redirectPrev")
    BY <1>3, <2>0 DEF LookPrev
  <2>2. /\ Loose(me) /\ me \in DOMAIN spans /\ MapsTo(PagesOf(me), me) /\ running
        /\ ~ spans[me].isLarge
    BY <1>1, OpAt DEF StepInv, OpExact, Loose
  <2>3. /\ (me - 1) \in DOMAIN pageMap /\ x # me /\ spans[x].inFreeList
        /\ spans[x].originAddr = spans[me].originAddr /\ Removable(x) /\ End(x) = me
    BY <1>3, <2>0 DEF PrevMergeable
  <2>4. x \in DOMAIN spans
    BY <2>0, <2>3 DEF StepInv, MapSound, Recorded
  <2>5. /\ x \in Nat /\ me \in Nat /\ x < me /\ PagesOf(x) = x .. (me - 1) /\ Run(x, me - x) = PagesOf(x)
    <3>1. x \in Nat /\ me \in Nat /\ x \in PagesOf(x) /\ PagesOf(x) = x .. (me - 1)
      BY <2>2, <2>3, <2>4, SpanAt
    <3> QED BY <3>1 DEF Run
  <2>6. "redirectPrev" \in Phases
    BY DEF Phases
  <2>7. /\ MapsTo(PagesOf(x), x) /\ SameMapping(x, me) /\ PagesOf(x) \cap PagesOf(me) = {}
        /\ Placed' = Placed \ {x} /\ BinsExact' /\ Counted' /\ ~ spans[x].isLarge
        /\ DOMAIN spans' = DOMAIN spans
        /\ \A t \in {x, me} : /\ ~ spans'[t].inFreeList
                              /\ spans'[t].isLarge = spans[t].isLarge
                              /\ spans'[t].originAddr = spans[t].originAddr
                              /\ spans'[t].originPages = spans[t].originPages
        /\ \A t \in DOMAIN spans : t # x => PagesOf(t)' = PagesOf(t) /\ End(t)' = End(t)
        /\ End(x)' = End(me) /\ PagesOf(x)' = PagesOf(x) \cup PagesOf(me)
        /\ op' \in OpRecord /\ op'.at = "redirectPrev" /\ op'.other = x /\ me' = me
        /\ StepTypeOK' /\ HeldExact' /\ AllocsApart' /\ MapSound' /\ Placed' \cap {x, me} = {}
        /\ \A t \in Placed' : PagesOf(t) \cap (PagesOf(x) \cup PagesOf(me)) = {}
        /\ \A t \in Placed' : MapsTo(PagesOf(t), t)'
    BY <1>1, <2>1, <2>2, <2>3, <2>4, <2>6, AbsorbFacts
  <2>8. Mine' = PagesOf(x)'
    BY <2>7 DEF Mine
  <2>9. Apart'
    <3>1. \A t \in Placed' : t \in DOMAIN spans /\ t # x /\ t \in Placed
      BY <2>7, PlacedAt
    <3>2. \A t \in Placed' : PagesOf(t)' = PagesOf(t)
      BY <2>7, <3>1
    <3> QED BY <2>7, <2>8, <3>1, <3>2, PlacedAt DEF Apart
  <2>10. PlacedMapped'
    BY <2>7 DEF PlacedMapped
  <2>11. OpExact'
    <3>1. /\ Loose(me)' /\ Loose(x)' /\ SameMapping(me, x)' /\ ~ spans'[x].isLarge
          /\ End(x)' = End(me)'
      BY <2>2, <2>4, <2>3, <2>7 DEF Loose, SameMapping
    <3>2. MapsTo(Run(x, me - x), x)' /\ MapsTo(PagesOf(me), me)'
      <4>1. pageMap' = pageMap
        BY <2>1 DEF Absorb
      <4> QED BY <2>2, <2>3, <2>4, <2>5, <2>7, <4>1 DEF MapsTo
    <3> QED BY <2>5, <2>7, <3>1, <3>2 DEF OpExact
  <2> QED BY <2>7, <2>9, <2>10, <2>11 DEF StepInv
<1> QED BY <1>2, <1>3

(* The pages of the span given back lead to the previous one.              *)
LEMMA RedirectPrevInv ==
  ASSUME StepInv, RedirectPrev
  PROVE  StepInv'
<1>1. /\ op.at = "redirectPrev" /\ pageMap' = redirectPages(me, op.other)
      /\ MapStep("redirectPrev", redirectPages(me, op.other), "deletePrev")
      /\ op' = [op EXCEPT !.at = "deletePrev"]
      /\ UNCHANGED <<spans, systemAllocs, held>>
  BY DEF RedirectPrev, MapStep, Goto
<1>2. /\ op'.at = "deletePrev" /\ me' = me /\ op'.other = op.other
  BY <1>1, OpAt DEF OpRecord, me
<1>3. /\ Loose(me) /\ Loose(op.other) /\ op.other \in DOMAIN spans /\ me \in DOMAIN spans
      /\ op.other < me /\ End(op.other) = End(me) /\ ~ spans[op.other].isLarge
      /\ MapsTo(Run(op.other, me - op.other), op.other) /\ MapsTo(PagesOf(me), me)
      /\ Mine = PagesOf(op.other)
  BY <1>1 DEF StepInv, OpExact, Loose, Mine
<1>4. /\ me \in Nat /\ op.other \in Nat /\ op.other # me
      /\ PagesOf(me) \subseteq PagesOf(op.other) /\ me \in PagesOf(me)
      /\ PagesOf(op.other) = Run(op.other, me - op.other) \cup PagesOf(me)
      /\ op.other \in Run(op.other, me - op.other)
  <2>1. /\ me \in Nat /\ op.other \in Nat /\ End(me) \in Nat
        /\ PagesOf(me) = me .. (End(me) - 1) /\ PagesOf(op.other) = op.other .. (End(me) - 1)
        /\ me \in PagesOf(me)
    BY <1>3, SpanAt
  <2>2. Run(op.other, me - op.other) = op.other .. (me - 1)
    BY <2>1 DEF Run
  <2> QED BY <1>3, <2>1, <2>2
<1>5. op.other \in DOMAIN pageMap /\ pageMap[op.other] = op.other
  BY <1>3, <1>4 DEF MapsTo
<1>6. /\ DOMAIN pageMap' = DOMAIN pageMap /\ pageMap' \in [DOMAIN pageMap' -> Pages]
      /\ \A p \in DOMAIN pageMap : pageMap'[p] = (IF p \in PagesOf(me) THEN op.other ELSE pageMap[p])
      /\ \A t \in Placed : MapsTo(PagesOf(t), t)'
      /\ MapSound'
  <2> DEFINE to == op.other
  <2>1. /\ to \in DOMAIN spans /\ to # me /\ op.at # "mapRest" /\ to \in DOMAIN pageMap
        /\ pageMap[to] = to
        /\ PagesOf(me) \subseteq Mine /\ PagesOf(me) \subseteq PagesOf(to)
        /\ MapsTo(PagesOf(me), me) /\ me \in DOMAIN spans
        /\ pageMap' = redirectPages(me, to)
    BY <1>1, <1>3, <1>4, <1>5
  <2> QED BY <1>1, <2>1, RedirectFacts
<1>7. PagesOf(op.other)' = PagesOf(op.other) /\ Mine' = Mine
  BY <1>1, <1>2, <1>3 DEF PagesOf, Mine
<1>8. OpExact'
  <2>1. MapsTo(PagesOf(op.other), op.other)'
    BY <1>2, <1>3, <1>4, <1>6, <1>7 DEF MapsTo
  <2> QED BY <1>1, <1>2, <1>3, <1>4, <1>7, <2>1 DEF OpExact, Loose
<1>9. DOMAIN pageMap' \subseteq Pages
  BY <1>6 DEF StepInv, StepTypeOK, TypeOK
<1> QED BY <1>1, <1>6, <1>7, <1>8, <1>9, MapStepInv DEF Phases

(* Nothing leads to the span given back when it is deleted.                *)
LEMMA DeletePrevInv ==
  ASSUME StepInv, DeletePrev
  PROVE  StepInv'
<1>1. /\ op.at = "deletePrev" /\ spans' = Without({me})
      /\ op' = [op EXCEPT !.at = "place", !.span = op.other]
      /\ UNCHANGED <<freeSpans, pageMap, systemAllocs, cachedFreePages, osPages, running, held, thrown>>
  BY DEF DeletePrev
<1>2. /\ op' \in OpRecord /\ op'.at = "place" /\ me' = op.other
  BY <1>1, OpAt DEF OpRecord, Phases, me
<1>3. /\ Loose(op.other) /\ MapsTo(PagesOf(op.other), op.other) /\ op.other # me
      /\ me \in PagesOf(op.other)
      /\ ~ spans[op.other].isLarge /\ op.other \in DOMAIN spans /\ Mine = PagesOf(op.other)
  BY <1>1 DEF StepInv, OpExact, Loose, Mine
<1>4. \A p \in DOMAIN pageMap : pageMap[p] # me
  BY <1>3 DEF MapsTo, StepInv, MapSound
<1>5. me \notin Placed
  BY <1>1, <1>3, PlacedPages DEF MapsTo
<1>6. /\ spans'[op.other] = spans[op.other] /\ op.other \in DOMAIN spans'
      /\ PagesOf(me)' = PagesOf(op.other)
  BY <1>1, <1>2, <1>3 DEF Without, PagesOf
<1>7. OpExact' /\ Mine' = Mine
  BY <1>1, <1>2, <1>3, <1>6 DEF OpExact, Loose, MapsTo, Mine
<1> QED BY <1>1, <1>2, <1>4, <1>5, <1>7, DeleteFacts

(* The flag of a span that goes back to a bin.                             *)
LEMMA FlagFacts ==
  ASSUME StepInv, op.at = "place", spans' = [spans EXCEPT ![me].inFreeList = TRUE]
  PROVE  /\ running /\ me \in DOMAIN spans /\ me \notin Placed /\ Mine = PagesOf(me)
         /\ MapsTo(PagesOf(me), me) /\ PagesOf(me) \subseteq Pages
         /\ DOMAIN spans' = DOMAIN spans /\ \A t \in DOMAIN spans : t # me => spans'[t] = spans[t]
         /\ spans' \in [DOMAIN spans -> SpanRecord]
         /\ spans'[me].numPages = spans[me].numPages /\ spans'[me].inFreeList
         /\ ~ spans'[me].isLarge
         /\ \A t \in DOMAIN spans : Recorded(t) /\ systemAllocs' = systemAllocs => Recorded(t)'
         /\ \A t \in DOMAIN spans : PagesOf(t)' = PagesOf(t)
<1>1. /\ Loose(me) /\ MapsTo(PagesOf(me), me) /\ ~ spans[me].isLarge /\ me \in DOMAIN spans
      /\ Mine = PagesOf(me) /\ running
  BY OpAt DEF StepInv, OpExact, Loose, Mine
<1>2. me \notin Placed
  BY <1>1, NotPlaced, SpanAt
<1>3. PagesOf(me) \subseteq Pages
  BY <1>1 DEF MapsTo, StepInv, StepTypeOK, TypeOK
<1>4. /\ DOMAIN spans' = DOMAIN spans /\ \A t \in DOMAIN spans : t # me => spans'[t] = spans[t]
      /\ spans' \in [DOMAIN spans -> SpanRecord]
      /\ spans'[me].numPages = spans[me].numPages /\ spans'[me].inFreeList
      /\ spans'[me].isLarge = spans[me].isLarge
      /\ spans'[me].originAddr = spans[me].originAddr
      /\ spans'[me].originPages = spans[me].originPages
  BY <1>1 DEF StepInv, StepTypeOK, TypeOK, SpanRecord
<1>5. \A t \in DOMAIN spans : PagesOf(t)' = PagesOf(t) /\ End(t)' = End(t)
  BY <1>4 DEF PagesOf, End
<1>6. ASSUME NEW t \in DOMAIN spans, Recorded(t), systemAllocs' = systemAllocs
      PROVE  Recorded(t)'
  <2>1. /\ t \in DOMAIN spans' /\ spans'[t].originAddr = spans[t].originAddr
        /\ spans'[t].originPages = spans[t].originPages
    BY <1>4
  <2> QED BY <1>5, <1>6, <2>1 DEF Recorded
<1> QED BY <1>1, <1>2, <1>3, <1>4, <1>5, <1>6

(* The merged span enters its bin and is counted.                          *)
LEMMA PlaceInv ==
  ASSUME StepInv, Place
  PROVE  StepInv'
<1>1. /\ op.at = "place" /\ spans' = [spans EXCEPT ![me].inFreeList = TRUE]
      /\ freeSpans' = [freeSpans EXCEPT ![spans[me].numPages] = @ \cup {me}]
      /\ cachedFreePages' = cachedFreePages + spans[me].numPages
      /\ op' = Idle
      /\ UNCHANGED <<pageMap, systemAllocs, osPages, running, held, thrown>>
  BY DEF Place, Unlock
<1>2. op' \in OpRecord /\ op'.at = "idle"
  BY <1>1 DEF Idle, OpRecord, Phases
<1>3. /\ running /\ me \in DOMAIN spans /\ me \notin Placed /\ Mine = PagesOf(me)
      /\ MapsTo(PagesOf(me), me) /\ PagesOf(me) \subseteq Pages
      /\ DOMAIN spans' = DOMAIN spans /\ \A t \in DOMAIN spans : t # me => spans'[t] = spans[t]
      /\ spans' \in [DOMAIN spans -> SpanRecord]
      /\ spans'[me].numPages = spans[me].numPages /\ spans'[me].inFreeList
      /\ ~ spans'[me].isLarge
      /\ \A t \in DOMAIN spans : Recorded(t) => Recorded(t)'
      /\ \A t \in DOMAIN spans : PagesOf(t)' = PagesOf(t)
  BY <1>1, FlagFacts
<1>4. /\ Binned' = Binned \cup {me} /\ BinsExact' /\ Counted'
      /\ freeSpans' \in [Sizes -> SUBSET Pages] /\ cachedFreePages' \in Nat
  <2>1. PICK k : k = spans[me].numPages
    OBVIOUS
  <2>2. PICK s : s = me
    OBVIOUS
  <2>3. /\ k \in Sizes /\ s \in Pages /\ freeSpans' = [freeSpans EXCEPT ![k] = @ \cup {s}]
        /\ cachedFreePages' = cachedFreePages + k
        /\ Run(s, k) = PagesOf(me)
    BY <1>1, <1>3, <2>1, <2>2, SpanAt DEF PagesOf
  <2>4. \A t \in Binned : t \in DOMAIN spans' /\ spans'[t] = spans[t]
    BY <1>3, PlacedAt DEF Placed
  <2>5. \A t \in Binned : PagesOf(t) \cap Run(s, k) = {}
    BY <1>3, <2>3, PlacedAt DEF Placed
  <2>6. /\ s \notin Binned /\ s \in DOMAIN spans' /\ spans'[s].numPages = k /\ spans'[s].inFreeList
        /\ ~ spans'[s].isLarge /\ Run(s, k) \subseteq Pages
    BY <1>3, <2>1, <2>2, <2>3 DEF Placed
  <2>7. /\ Binned' = Binned \cup {s} /\ BinsExact' /\ Counted'
        /\ freeSpans' \in [Sizes -> SUBSET Pages] /\ cachedFreePages' \in Nat
    BY <1>3, <2>3, <2>4, <2>5, <2>6, BinAdded
  <2> QED BY <2>2, <2>7
<1>5. Placed' = Placed \cup {me} /\ Mine' = {}
  BY <1>1, <1>2, <1>4 DEF Placed, Mine
<1>6. StepTypeOK'
  BY <1>1, <1>2, <1>3, <1>4 DEF StepInv, StepTypeOK, TypeOK
<1>7. HeldExact' /\ AllocsApart'
  BY <1>1, <1>3 DEF StepInv, HeldExact, AllocsApart, Placed
<1>8. Apart'
  BY <1>3, <1>5, PlacedAt DEF Apart
<1>9. PlacedMapped'
  BY <1>1, <1>3, <1>5, PlacedAt DEF PlacedMapped, MapsTo
<1>10. MapSound'
  BY <1>1, <1>3 DEF StepInv, MapSound, Recorded
<1>11. OpExact'
  BY <1>2 DEF OpExact
<1> QED BY <1>4, <1>6, <1>7, <1>8, <1>9, <1>10, <1>11 DEF StepInv

(* A span whose bin has no room keeps its flag and is lost.                *)
LEMMA PlaceThrowsInv ==
  ASSUME StepInv, PlaceThrows
  PROVE  StepInv'
<1>1. /\ op.at = "place" /\ spans' = [spans EXCEPT ![me].inFreeList = TRUE] /\ Throw
      /\ UNCHANGED <<freeSpans, pageMap, systemAllocs, cachedFreePages, osPages>>
  BY DEF PlaceThrows
<1>2. /\ me \notin Placed
      /\ DOMAIN spans' = DOMAIN spans /\ \A t \in DOMAIN spans : t # me => spans'[t] = spans[t]
      /\ spans' \in [DOMAIN spans -> SpanRecord]
      /\ \A t \in DOMAIN spans : Recorded(t) => Recorded(t)'
      /\ \A t \in DOMAIN spans : PagesOf(t)' = PagesOf(t)
  BY <1>1, FlagFacts
<1>3. \A t \in Placed : t \in DOMAIN spans' /\ spans'[t] = spans[t] /\ MapsTo(PagesOf(t), t)'
  BY <1>1, <1>2, PlacedAt DEF MapsTo
<1>4. MapSound'
  BY <1>1, <1>2 DEF StepInv, MapSound, Recorded
<1> QED BY <1>1, <1>2, <1>3, <1>4, ThrownInv DEF StepInv, StepTypeOK, TypeOK

(* Nothing leads to the whole mapping that is to go.                       *)
LEMMA UnregisterInv ==
  ASSUME StepInv, Unregister
  PROVE  StepInv'
<1>1. /\ op.at = "unregister" /\ pageMap' = unregisterPages(pageMap, me, spans[me].numPages)
      /\ MapStep("unregister", unregisterPages(pageMap, me, spans[me].numPages), "release")
      /\ op' = [op EXCEPT !.at = "release"]
      /\ UNCHANGED <<spans, systemAllocs, held>>
  BY DEF Unregister, Unregistered, MapStep, Goto
<1>2. op'.at = "release" /\ me' = me
  BY <1>1, OpAt DEF OpRecord, me
<1>3. /\ Loose(me) /\ MapsTo(PagesOf(me), me) /\ OwnsOrigin(me) /\ me \in DOMAIN spans
      /\ Mine = PagesOf(me)
  BY <1>1 DEF StepInv, OpExact, Loose, Mine
<1>4. /\ DOMAIN pageMap' = DOMAIN pageMap \ PagesOf(me)
      /\ \A p \in DOMAIN pageMap' : pageMap'[p] = pageMap[p]
      /\ pageMap' = [p \in DOMAIN pageMap \ PagesOf(me) |-> pageMap[p]]
  BY <1>1 DEF unregisterPages, PagesOf
<1>5. DOMAIN pageMap' \subseteq Pages /\ pageMap' \in [DOMAIN pageMap' -> Pages]
  BY <1>4 DEF StepInv, StepTypeOK, TypeOK
<1>6. \A t : PagesOf(t)' = PagesOf(t) /\ (Recorded(t)' <=> Recorded(t))
  BY <1>1 DEF PagesOf, Recorded, End
<1>7. \A t \in Placed : MapsTo(PagesOf(t), t)'
  <2>1. \A t \in Placed : PagesOf(t) \cap PagesOf(me) = {} /\ MapsTo(PagesOf(t), t)
    BY <1>1, <1>3, PlacedAt
  <2> QED BY <1>4, <1>6, <2>1 DEF MapsTo
<1>8. MapSound'
  <2>1. ASSUME NEW p \in DOMAIN pageMap, p \notin PagesOf(me)
        PROVE  /\ p \in PagesOf(pageMap[p]) /\ pageMap[p] \in DOMAIN pageMap'
               /\ pageMap[pageMap[p]] = pageMap[p] /\ Recorded(pageMap[p])
    <3>1. /\ p \in PagesOf(pageMap[p]) /\ pageMap[p] \in DOMAIN pageMap
          /\ pageMap[pageMap[p]] = pageMap[p] /\ Recorded(pageMap[p])
      BY DEF StepInv, MapSound
    <3>2. pageMap[p] \notin PagesOf(me)
      BY <1>3, <2>1, <3>1 DEF MapsTo
    <3> QED BY <1>4, <3>1, <3>2
  <2> DEFINE q == pageMap'
  <2>2. \A p \in DOMAIN q : /\ p \in PagesOf(q[p]) /\ q[p] \in DOMAIN q /\ q[q[p]] = q[p]
                            /\ Recorded(q[p])
    BY <1>4, <2>1
  <2> QED BY <1>1, <2>2 DEF MapSound, PagesOf, Recorded, End
<1>9. PagesOf(me)' = PagesOf(me) /\ Mine' = Mine
  BY <1>1, <1>2, <1>3 DEF PagesOf, Mine
<1>10. OpExact'
  <2>1. Recorded(me)
    BY <1>3, SpanAt DEF MapsTo, StepInv, MapSound
  <2>2. Recorded(me)' /\ Loose(me)' /\ OwnsOrigin(me)' /\ PagesOf(me)' \cap DOMAIN pageMap' = {}
    BY <1>1, <1>2, <1>3, <1>4, <1>9, <2>1 DEF Recorded, End, Loose, OwnsOrigin
  <2> QED BY <1>2, <2>2 DEF OpExact
<1> QED BY <1>1, <1>5, <1>7, <1>8, <1>9, <1>10, MapStepInv DEF Phases

(* The whole mapping of the operation goes; every page in the map belongs  *)
(* to another one.                                                         *)
LEMMA ReleaseInv ==
  ASSUME StepInv, Release
  PROVE  StepInv'
<1> DEFINE o == spans[me].originAddr
           n == spans[me].originPages
<1>1. /\ op.at = "release" /\ spans' = Without({me}) /\ op' = Idle
      /\ systemAllocs' = {a \in systemAllocs : a[1] # o}
      /\ osPages' = osPages \ Run(o, n)
      /\ UNCHANGED <<freeSpans, pageMap, cachedFreePages, running, held, thrown>>
  BY DEF Release, Unlock
<1>2. op' \in OpRecord /\ op'.at = "idle" /\ running
  BY <1>1, OpAt DEF Idle, OpRecord, Phases
<1>3. /\ me \in DOMAIN spans /\ PagesOf(me) \cap DOMAIN pageMap = {} /\ Mine = PagesOf(me)
      /\ <<o, n>> \in systemAllocs /\ PagesOf(me) = Run(o, n)
      /\ o \in Nat /\ n \in Nat \ {0} /\ me \in PagesOf(me)
  <2>1. /\ me \in DOMAIN spans /\ PagesOf(me) \cap DOMAIN pageMap = {} /\ Recorded(me)
        /\ Mine = PagesOf(me) /\ OwnsOrigin(me)
    BY <1>1 DEF StepInv, OpExact, Loose, Mine
  <2> QED BY <2>1, SpanAt DEF Recorded, OwnsOrigin, PagesOf
<1> HIDE DEF o, n
<1>4. me \notin Placed /\ \A p \in DOMAIN pageMap : pageMap[p] # me
  <2>1. me \notin Placed
    BY <1>3, NotPlaced
  <2> QED BY <1>3, <2>1 DEF StepInv, MapSound
<1>5. /\ DOMAIN spans' = DOMAIN spans \ {me} /\ \A t \in DOMAIN spans : t # me => spans'[t] = spans[t]
      /\ spans' = [t \in DOMAIN spans \ {me} |-> spans[t]]
  BY <1>1 DEF Without
<1>6. \A t \in Placed : t # me /\ t \in DOMAIN spans' /\ spans'[t] = spans[t]
  BY <1>4, <1>5, PlacedAt
<1>7. Binned' = Binned /\ BinsExact' /\ Counted'
  BY <1>1, <1>6, BinsKept DEF Placed
<1>8. Placed' = Placed /\ Mine' = {}
  BY <1>1, <1>2, <1>7 DEF Placed, Mine
<1>9. \A t \in DOMAIN spans : t # me => PagesOf(t)' = PagesOf(t) /\ End(t)' = End(t)
  BY <1>5 DEF PagesOf, End
<1>10. StepTypeOK'
  BY <1>1, <1>2, <1>5 DEF StepInv, StepTypeOK, TypeOK
<1>11. HeldExact'
  BY <1>1, <1>6 DEF StepInv, HeldExact, Placed
<1>12. \A a \in systemAllocs : a[1] = o => a = <<o, n>>
  <2>1. ASSUME NEW a \in systemAllocs, a[1] = o
        PROVE  a = <<o, n>>
    <3>1. PICK u \in Pages, v \in Sizes : a = <<u, v>>
      BY DEF StepInv, StepTypeOK, TypeOK
    <3>2. u = o /\ v \in Nat \ {0}
      BY <2>1, <3>1, PageCacheAssumption DEF Sizes
    <3>3. o \in Run(u, v) /\ o \in Run(o, n)
      BY <1>3, <3>2 DEF Run
    <3> QED BY <1>3, <3>1, <3>3 DEF StepInv, AllocsApart
  <2> QED BY <2>1
<1>13. AllocsApart'
  <2>1. \A a \in systemAllocs' : a \in systemAllocs /\ a # <<o, n>>
    BY <1>1
  <2>2. \A a \in systemAllocs' : Run(a[1], a[2]) \subseteq osPages /\ Run(a[1], a[2]) \cap Run(o, n) = {}
    BY <1>3, <2>1 DEF StepInv, AllocsApart
  <2> QED BY <1>1, <2>1, <2>2 DEF StepInv, AllocsApart
<1>14. Apart' /\ PlacedMapped'
  BY <1>1, <1>2, <1>6, <1>8, <1>9, PlacedAt DEF Apart, PlacedMapped, MapsTo
<1>15. MapSound'
  <2>1. ASSUME NEW p \in DOMAIN pageMap
        PROVE  /\ pageMap[p] \in DOMAIN spans /\ pageMap[p] # me
               /\ spans[pageMap[p]].originAddr # o
    <3>1. /\ pageMap[p] \in DOMAIN spans /\ pageMap[p] # me
          /\ <<spans[pageMap[p]].originAddr, spans[pageMap[p]].originPages>> \in systemAllocs
      BY <1>4 DEF StepInv, MapSound, Recorded
    <3>2. p \in Run(spans[pageMap[p]].originAddr, spans[pageMap[p]].originPages)
      BY MappedPages
    <3>3. spans[pageMap[p]].originAddr = o => p \in Run(o, n)
      BY <1>12, <3>1, <3>2
    <3> QED BY <1>3, <3>1, <3>3
  <2>2. ASSUME NEW p \in DOMAIN pageMap
        PROVE  Recorded(pageMap[p])'
    <3>1. PICK t : t = pageMap[p]
      OBVIOUS
    <3>2. /\ t \in DOMAIN spans' /\ spans'[t] = spans[t] /\ Recorded(t) /\ End(t)' = End(t)
          /\ spans[t].originAddr # o
      BY <1>5, <1>9, <2>1, <3>1 DEF StepInv, MapSound
    <3>3. <<spans[t].originAddr, spans[t].originPages>> \in systemAllocs'
      BY <1>1, <3>2 DEF Recorded
    <3>4. Recorded(t)'
      BY <3>2, <3>3 DEF Recorded
    <3> QED BY <1>1, <3>1, <3>4 DEF Recorded, End
  <2> QED BY <1>1, <1>9, <2>1, <2>2 DEF StepInv, MapSound
<1>16. OpExact'
  BY <1>2 DEF OpExact
<1> QED BY <1>7, <1>10, <1>11, <1>13, <1>14, <1>15, <1>16 DEF StepInv

(* The destructor leaves no span in the map or in a bin.                   *)
LEMMA StepDestroyInv ==
  ASSUME StepInv, StepDestroy
  PROVE  StepInv'
<1>1. /\ running' = FALSE /\ op = Idle /\ op' = op /\ held' = {} /\ thrown' = thrown
      /\ spans' = Without({pageMap[p] : p \in DOMAIN pageMap})
      /\ pageMap' = EmptyMap /\ freeSpans' = [k \in Sizes |-> {}]
      /\ osPages' \subseteq osPages /\ systemAllocs' = {} /\ cachedFreePages' = cachedFreePages
  BY DEF StepDestroy, Destroy
<1>2. Binned' = {} /\ Placed' = {} /\ Mine' = {} /\ op'.at = "idle"
  BY <1>1 DEF Binned, Placed, Mine, Idle
<1>3. DOMAIN pageMap' = {}
  BY <1>1 DEF EmptyMap
<1>4. StepTypeOK'
  <2>1. DOMAIN spans' \subseteq DOMAIN spans /\ spans' \in [DOMAIN spans' -> SpanRecord]
    BY <1>1 DEF Without, StepInv, StepTypeOK, TypeOK
  <2>2. freeSpans' \in [Sizes -> SUBSET Pages] /\ pageMap' \in [DOMAIN pageMap' -> Pages]
    BY <1>1 DEF EmptyMap
  <2> QED BY <1>1, <1>3, <2>1, <2>2 DEF StepInv, StepTypeOK, TypeOK
<1>5. BinsExact' /\ HeldExact' /\ Apart' /\ PlacedMapped' /\ MapSound' /\ AllocsApart' /\ Counted'
  BY <1>1, <1>2, <1>3 DEF BinsExact, HeldExact, Apart, PlacedMapped, MapSound, AllocsApart, Counted
<1>6. OpExact'
  BY <1>2 DEF OpExact
<1> QED BY <1>4, <1>5, <1>6 DEF StepInv

(* The new cache is empty.                                                 *)
LEMMA InitStepInv ==
  ASSUME StepInit
  PROVE  StepInv
<1>1. /\ op = Idle /\ op.at = "idle" /\ held = {} /\ thrown = FALSE /\ running = TRUE
      /\ spans = EmptyMap /\ pageMap = EmptyMap /\ freeSpans = [k \in Sizes |-> {}]
      /\ systemAllocs = {} /\ cachedFreePages = 0 /\ osPages = {}
  BY DEF StepInit, Init, Idle
<1>2. Binned = {} /\ Placed = {} /\ Mine = {} /\ DOMAIN spans = {} /\ DOMAIN pageMap = {}
  BY <1>1 DEF Binned, Placed, Mine, EmptyMap
<1>3. op \in OpRecord
  BY <1>1 DEF Idle, OpRecord, Phases
<1>4. StepTypeOK
  <2>1. /\ freeSpans \in [Sizes -> SUBSET Pages] /\ pageMap \in [DOMAIN pageMap -> Pages]
        /\ spans \in [DOMAIN spans -> SpanRecord]
    BY <1>1 DEF EmptyMap
  <2> QED BY <1>1, <1>2, <1>3, <2>1 DEF StepTypeOK, TypeOK
<1>5. Counted
  <2>1. BinnedPages = {}
    BY <1>2 DEF BinnedPages
  <2> QED BY <1>1, <2>1, FS_EmptySet DEF Counted
<1>6. BinsExact /\ HeldExact /\ Apart /\ PlacedMapped /\ MapSound /\ AllocsApart
  BY <1>1, <1>2 DEF BinsExact, HeldExact, Apart, PlacedMapped, MapSound, AllocsApart
<1>7. OpExact
  BY <1>1 DEF OpExact
<1> QED BY <1>4, <1>5, <1>6, <1>7 DEF StepInv

-----------------------------------------------------------------------------
(* Every step keeps the invariant.                                         *)
LEMMA StepInvKept ==
  ASSUME StepInv, [StepNext]_stepVars
  PROVE  StepInv'
<1>1. CASE \E n \in 0 .. NumPages, large \in BOOLEAN :
             LET pages == IF n = 0 THEN 1 ELSE n IN Take(pages, large) \/ Map(pages, large)
  <2>1. PICK n \in 0 .. NumPages, large \in BOOLEAN :
          Take(IF n = 0 THEN 1 ELSE n, large) \/ Map(IF n = 0 THEN 1 ELSE n, large)
    BY <1>1
  <2>2. (IF n = 0 THEN 1 ELSE n) \in Nat \ {0}
    BY PageCacheAssumption
  <2> QED BY <2>1, <2>2, TakeInv, MapInv
<1>2. CASE Split \/ SplitThrows \/ MapRest \/ MapSpan \/ Hand
  BY <1>2, SplitInv, SplitThrowsInv, MapRestInv, MapSpanInv, HandInv
<1>3. CASE Record \/ NewSpan \/ Register \/ MapThrows \/ RegisterThrows
  BY <1>3, RecordInv, NewSpanInv, RegisterInv, MapThrowsInv, RegisterThrowsInv
<1>4. CASE \E s \in held : GiveBack(s)
  BY <1>4, GiveBackInv
<1>5. CASE LookNext \/ RedirectNext \/ DeleteNext
  BY <1>5, LookNextInv, RedirectNextInv, DeleteNextInv
<1>6. CASE LookPrev \/ RedirectPrev \/ DeletePrev
  BY <1>6, LookPrevInv, RedirectPrevInv, DeletePrevInv
<1>7. CASE Place \/ PlaceThrows \/ Unregister \/ Release
  BY <1>7, PlaceInv, PlaceThrowsInv, UnregisterInv, ReleaseInv
<1>8. CASE PlaceOver
  BY <1>8, GotoInv DEF PlaceOver, OverLimit
<1>9. CASE StepDestroy
  BY <1>9, StepDestroyInv
<1>10. CASE UNCHANGED stepVars
  <2>1. UNCHANGED <<spans, freeSpans, pageMap, systemAllocs, cachedFreePages, osPages, running,
                    op, held, before, thrown>>
    BY <1>10 DEF stepVars
  <2>2. /\ Binned' = Binned /\ Placed' = Placed /\ Mine' = Mine /\ me' = me
        /\ \A t : PagesOf(t)' = PagesOf(t) /\ End(t)' = End(t)
    BY <2>1 DEF Binned, Placed, Mine, me, PagesOf, End
  <2>3. StepTypeOK' /\ BinsExact' /\ HeldExact' /\ Apart' /\ PlacedMapped' /\ MapSound' /\ AllocsApart'
    BY <2>1, <2>2 DEF StepInv, StepTypeOK, TypeOK, BinsExact, HeldExact, Apart, PlacedMapped, MapsTo,
                      MapSound, Recorded, AllocsApart, Rest
  <2>4. Counted'
    BY <2>1, BinsKept, PlacedAt
  <2>5. OpExact'
    BY <2>1, <2>2 DEF StepInv, OpExact, Loose, MapsTo, SameMapping, FreshRun, Recorded, OwnsOrigin,
                      Rest, RestSize
  <2> QED BY <2>3, <2>4, <2>5 DEF StepInv
<1> QED BY <1>1, <1>2, <1>3, <1>4, <1>5, <1>6, <1>7, <1>8, <1>9, <1>10 DEF StepNext

(* At every step of every operation, also after an exception, the bins,    *)
(* the page map and the spans in use agree as StepInv says.                *)
THEOREM StepInvHolds == StepSpec => []StepInv
<1>1. StepInit => StepInv
  BY InitStepInv
<1>2. StepInv /\ [StepNext]_stepVars => StepInv'
  BY StepInvKept
<1> QED BY <1>1, <1>2, PTL DEF StepSpec

-----------------------------------------------------------------------------
(* A lookup of a page in use finds its span at every step of every other   *)
(* operation (findSpan takes only pageMapMutex_), and no lookup finds a    *)
(* deleted Span object or a page that is not ours.                         *)
THEOREM LookupsSoundCorrect == StepSpec => []LookupsSound
<1>1. StepInv => LookupsSound
  <2> SUFFICES ASSUME StepInv PROVE LookupsSound
    OBVIOUS
  <2>1. ASSUME NEW s \in held
        PROVE  s \in DOMAIN spans /\ \A p \in PagesOf(s) : p \in DOMAIN pageMap /\ pageMap[p] = s
    <3>1. s \in DOMAIN spans /\ s \notin Binned /\ s \in Placed
      BY PlacedAt DEF Placed
    <3>2. op.at = "mapRest" => Rest \in Binned
      BY DEF StepInv, OpExact
    <3> QED BY <3>1, <3>2 DEF StepInv, PlacedMapped, MapsTo
  <2>2. ASSUME NEW p \in DOMAIN pageMap
        PROVE  /\ pageMap[p] \in DOMAIN spans /\ p \in osPages
               /\ \E a \in systemAllocs : p \in Run(a[1], a[2])
    <3>1. pageMap[p] \in DOMAIN spans
      BY DEF StepInv, MapSound, Recorded
    <3>2. PICK a : a = <<spans[pageMap[p]].originAddr, spans[pageMap[p]].originPages>>
      OBVIOUS
    <3>3. a \in systemAllocs /\ p \in Run(a[1], a[2])
      BY <3>2, MappedPages
    <3> QED BY <3>1, <3>3, MappedPages
  <2> QED BY <2>1, <2>2 DEF LookupsSound
<1> QED BY <1>1, StepInvHolds, PTL

(* The bins are sound after an exception too, and cachedFreePages_ counts  *)
(* their pages at every step.                                              *)
THEOREM BinsSoundCorrect == StepSpec => []BinsSound
<1>1. StepInv => BinsSound
  <2> SUFFICES ASSUME StepInv PROVE BinsSound
    OBVIOUS
  <2>1. \A s \in Binned, t \in Binned \cup held : s # t => PagesOf(s) \cap PagesOf(t) = {}
    BY PlacedAt DEF Placed
  <2> QED BY <2>1 DEF BinsSound, StepInv, BinsExact, Counted, BinnedPages
<1> QED BY <1>1, StepInvHolds, PTL

(* Operations on other spans never write a span that is in use.            *)
THEOREM HeldUntouchedCorrect == StepSpec => HeldUntouched
<1>1. ASSUME StepInv, [StepNext]_stepVars
      PROVE  [\A s \in held \cap held' : s \in DOMAIN spans' /\ spans'[s] = spans[s]]_stepVars
  <2> SUFFICES ASSUME StepNext, NEW s \in held, s \in held'
               PROVE  s \in DOMAIN spans' /\ spans'[s] = spans[s]
    BY <1>1
  <2>1. /\ s \in DOMAIN spans /\ s \in Placed /\ s \notin Binned /\ s \notin Mine
    BY <1>1, PlacedAt, SpanAt DEF Placed
  <2>2. (me \in DOMAIN spans /\ Mine = PagesOf(me)) => s # me
    BY <1>1, <2>1, SpanAt
  <2>3. UNCHANGED spans => s \in DOMAIN spans' /\ spans'[s] = spans[s]
    BY <2>1
  <2>4. CASE \E n \in 0 .. NumPages, large \in BOOLEAN :
               LET pages == IF n = 0 THEN 1 ELSE n IN Take(pages, large) \/ Map(pages, large)
    <3>1. PICK n \in 0 .. NumPages, large \in BOOLEAN :
            Take(IF n = 0 THEN 1 ELSE n, large) \/ Map(IF n = 0 THEN 1 ELSE n, large)
      BY <2>4
    <3>2. UNCHANGED spans \/ \E k \in Sizes : \E x \in freeSpans[k] :
            spans' = [spans EXCEPT ![x].inFreeList = FALSE]
      BY <3>1 DEF Take, Map, lowerBound
    <3>3. \A k \in Sizes : \A x \in freeSpans[k] : x # s
      BY <1>1, <2>1, PlacedAt
    <3> QED BY <2>1, <2>3, <3>2, <3>3
  <2>5. CASE Split \/ SplitThrows
    <3>1. op.at = "split" /\ spans' \in {spans, WithRest}
      BY <2>5 DEF Split, SplitThrows
    <3>2. Rest # s
      BY <1>1, <2>1, <3>1, SplitFacts
    <3> QED BY <2>1, <3>1, <3>2 DEF WithRest
  <2>6. CASE MapSpan \/ Hand
    <3>1. /\ op.at \in {"mapSpan", "hand"} /\ DOMAIN spans' = DOMAIN spans
          /\ \A x \in DOMAIN spans : x # me => spans'[x] = spans[x]
      BY <2>6 DEF MapSpan, Hand
    <3>2. s # me
      <4>1. CASE op.at = "mapSpan"
        <5>1. me \in Nat /\ op.size \in Nat /\ 0 < op.size /\ Mine = Run(me, op.size)
          BY <1>1, <4>1, OpAt DEF StepInv, OpExact, Mine
        <5>2. me \in Mine
          BY <5>1 DEF Run
        <5> QED BY <2>1, <5>2
      <4>2. CASE op.at = "hand"
        BY <1>1, <2>2, <4>2 DEF StepInv, OpExact, Loose, Mine
      <4> QED BY <3>1, <4>1, <4>2
    <3> QED BY <2>1, <3>1, <3>2
  <2>7. CASE NewSpan
    <3>1. op.at = "newSpan" /\ \A x \in DOMAIN spans : x # me => x \in DOMAIN spans' /\ spans'[x] = spans[x]
      BY <2>7 DEF NewSpan
    <3>2. s # me
      <4>1. me \in Nat /\ op.size \in Nat /\ 0 < op.size /\ Mine = Run(me, op.size)
        BY <1>1, <3>1, OpAt DEF StepInv, OpExact, FreshRun, Mine
      <4>2. me \in Mine
        BY <4>1 DEF Run
      <4> QED BY <2>1, <4>2
    <3> QED BY <2>1, <3>1, <3>2
  <2>8. CASE \E t \in held : GiveBack(t)
    <3>1. PICK t \in held : GiveBack(t)
      BY <2>8
    <3>2. t # s /\ DOMAIN spans' = DOMAIN spans
          /\ spans'[s] = [spans[s] EXCEPT !.isLarge = spans[s].isLarge /\ s # t]
      BY <2>1, <3>1 DEF GiveBack, Cleared
    <3>3. (spans[s].isLarge /\ s # t) = spans[s].isLarge /\ spans[s] \in SpanRecord
      BY <1>1, <2>1, <3>2, SpanAt DEF SpanRecord
    <3>4. spans'[s] = [spans[s] EXCEPT !.isLarge = spans[s].isLarge]
      BY <3>2, <3>3
    <3> QED BY <2>1, <3>2, <3>3, <3>4 DEF SpanRecord
  <2>9. CASE LookNext
    <3>1. CASE ~ NextMergeable(me)
      BY <2>3, <2>9, <3>1 DEF LookNext, cacheVars
    <3>2. CASE NextMergeable(me)
      <4>1. PICK x : x = End(me)
        OBVIOUS
      <4>2. /\ Absorb(x, me, x, "redirectNext") /\ op.at = "next"
            /\ x \in DOMAIN pageMap /\ pageMap[x] = x /\ x # me /\ spans[x].inFreeList
            /\ spans[x].originAddr = spans[me].originAddr /\ Removable(x)
        BY <2>9, <3>2, <4>1 DEF LookNext, NextMergeable
      <4>3. me \in DOMAIN spans /\ x \in DOMAIN spans /\ running /\ Mine = PagesOf(me)
        BY <1>1, <4>2, OpAt DEF StepInv, OpExact, Loose, MapSound, Recorded, Mine
      <4>4. \A t \in DOMAIN spans : t \notin {x, me} => spans'[t] = spans[t]
        BY <1>1, <4>1, <4>2, <4>3, AbsorbFacts DEF Phases
      <4>5. x \in Binned /\ DOMAIN spans' = DOMAIN spans
        BY <1>1, <4>1, <4>2, <4>3, AbsorbFacts DEF Phases
      <4> QED BY <2>1, <2>2, <4>3, <4>4, <4>5
    <3> QED BY <3>1, <3>2
  <2>10. CASE LookPrev
    <3>1. CASE ~ PrevMergeable(me)
      BY <2>3, <2>10, <3>1 DEF LookPrev, cacheVars
    <3>2. CASE PrevMergeable(me)
      <4>1. PICK x : x = pageMap[me - 1]
        OBVIOUS
      <4>2. /\ Absorb(x, x, me, "redirectPrev") /\ op.at = "prev"
            /\ (me - 1) \in DOMAIN pageMap /\ x # me /\ spans[x].inFreeList
            /\ spans[x].originAddr = spans[me].originAddr /\ Removable(x) /\ End(x) = me
        BY <2>10, <3>2, <4>1 DEF LookPrev, PrevMergeable
      <4>3. me \in DOMAIN spans /\ x \in DOMAIN spans /\ running /\ Mine = PagesOf(me)
        BY <1>1, <4>1, <4>2, OpAt DEF StepInv, OpExact, Loose, MapSound, Recorded, Mine
      <4>4. \A t \in DOMAIN spans : t \notin {x, me} => spans'[t] = spans[t]
        BY <1>1, <4>1, <4>2, <4>3, AbsorbFacts DEF Phases
      <4>5. x \in Binned /\ DOMAIN spans' = DOMAIN spans
        BY <1>1, <4>1, <4>2, <4>3, AbsorbFacts DEF Phases
      <4> QED BY <2>1, <2>2, <4>3, <4>4, <4>5
    <3> QED BY <3>1, <3>2
  <2>11. CASE DeleteNext
    <3>1. op.at = "deleteNext" /\ spans' = Without({op.other})
      BY <2>11 DEF DeleteNext
    <3>2. s # op.other
      BY <1>1, <2>1, <3>1 DEF StepInv, OpExact, Mine
    <3> QED BY <2>1, <3>1, <3>2 DEF Without
  <2>12. CASE DeletePrev
    <3>1. op.at = "deletePrev" /\ spans' = Without({me})
      BY <2>12 DEF DeletePrev
    <3>2. s # me
      BY <1>1, <2>1, <3>1 DEF StepInv, OpExact, Mine
    <3> QED BY <2>1, <3>1, <3>2 DEF Without
  <2>13. CASE Place \/ PlaceThrows
    <3>1. op.at = "place" /\ spans' = [spans EXCEPT ![me].inFreeList = TRUE]
      BY <2>13 DEF Place, PlaceThrows
    <3>2. s # me
      BY <1>1, <2>1, <3>1, FlagFacts
    <3> QED BY <2>1, <3>1, <3>2
  <2>14. CASE Release
    <3>1. op.at = "release" /\ spans' = Without({me})
      BY <2>14 DEF Release
    <3>2. s # me
      BY <1>1, <2>2, <3>1 DEF StepInv, OpExact, Loose, Mine
    <3> QED BY <2>1, <3>1, <3>2 DEF Without
  <2>15. CASE StepDestroy
    BY <2>15 DEF StepDestroy
  <2>16. CASE MapRest \/ Record \/ Register \/ MapThrows \/ RegisterThrows \/ RedirectNext
              \/ RedirectPrev \/ PlaceOver \/ Unregister
    BY <2>3, <2>16 DEF MapRest, MapStep, Record, Register, MapThrows, RegisterThrows, RedirectNext,
                       RedirectPrev, PlaceOver, cacheVars, Unregister
  <2> QED BY <2>4, <2>5, <2>6, <2>7, <2>8, <2>9, <2>10, <2>11, <2>12, <2>13, <2>14, <2>15, <2>16
          DEF StepNext
<1> QED BY <1>1, StepInvHolds, PTL DEF StepSpec, HeldUntouched

-----------------------------------------------------------------------------
(* The refinement.  Until something has thrown, Underway says how far the  *)
(* operation has brought the cache from what it was when it began:         *)
(* Committed is that earlier cache for as long as the operation lasts, and *)
(* Atomic's operators are evaluated in it.                                 *)

SameRuns == systemAllocs = Committed.systemAllocs /\ osPages = Committed.osPages
SameMap  == pageMap = Committed.pageMap
SameBins == freeSpans = Committed.freeSpans /\ cachedFreePages = Committed.cachedFreePages

(* allocateSpan finds a span of k pages.                                   *)
FromBin(k) ==
  /\ k \in Atomic!lowerBound(op.size) /\ me \in Committed.freeSpans[k]
  /\ me \in DOMAIN Committed.spans /\ Committed.spans[me].numPages = k
  /\ op.size \in Sizes /\ SameRuns

Taken(k) ==
  /\ spans = [Committed.spans EXCEPT ![me].inFreeList = FALSE]
  /\ freeSpans = [Committed.freeSpans EXCEPT ![k] = @ \ {me}]
  /\ cachedFreePages = Committed.cachedFreePages - k
  /\ SameMap

(* The remainder is cut off; the span itself says it has n pages.          *)
CutOff(k, n) ==
  /\ k > op.size
  /\ spans = [x \in DOMAIN Committed.spans \cup {Rest} |->
                CASE x = me   -> [Committed.spans[me] EXCEPT !.numPages = n, !.inFreeList = FALSE]
                  [] x = Rest -> [Committed.spans[me] EXCEPT !.numPages = k - op.size,
                                                             !.inFreeList = TRUE, !.isLarge = FALSE]
                  [] OTHER    -> Committed.spans[x]]
  /\ freeSpans = [j \in Sizes |-> (Committed.freeSpans[j] \ (IF j = k THEN {me} ELSE {}))
                                    \cup (IF j = k - op.size THEN {Rest} ELSE {})]
  /\ cachedFreePages = Committed.cachedFreePages - k + (k - op.size)

RestMapped(k) == registerPages(Committed.pageMap, Rest, k - op.size)

(* allocateSpan asks the operating system.                                 *)
FromSystem ==
  /\ \E n \in Sizes : op.size \in n .. (n + Granularity - 1) /\ Atomic!lowerBound(n) = {}
  /\ op.size % Granularity = 0
  /\ Run(me, op.size) \subseteq Pages \ Committed.osPages
  /\ osPages = Committed.osPages \cup Run(me, op.size)
  /\ SameBins

Noted == systemAllocs = Committed.systemAllocs \cup {<<me, op.size>>}

WithNew ==
  spans = [x \in DOMAIN Committed.spans \cup {me} |->
             IF x = me THEN [numPages |-> op.size, originAddr |-> me, originPages |-> op.size,
                             inFreeList |-> FALSE, isLarge |-> FALSE]
             ELSE Committed.spans[x]]

(* deallocateSpan(s) has not looked at the neighbours.                     *)
Freed(s) == s \in DOMAIN Committed.spans /\ ~ Committed.spans[s].inFreeList /\ SameRuns

Alone(s) ==
  /\ Freed(s) /\ SameBins
  /\ spans = [Committed.spans EXCEPT ![s].isLarge = FALSE]

(* The pages outside those from h to e lead where they led.                *)
MapOutside(h, e) == \A p \in DOMAIN pageMap : p \notin h .. (e - 1) => pageMap[p] = Committed.pageMap[p]
SamePages == DOMAIN pageMap = DOMAIN Committed.pageMap

(* deallocateSpan(s) has dealt with the span that follows.                 *)
NextOf(s) == IF Atomic!NextMergeable(s) THEN {Atomic!End(s)} ELSE {}

NextDone(s, gone) ==
  /\ Freed(s) /\ ~ Atomic!ReturnDirect(s) /\ NextOf(s) \subseteq DOMAIN Committed.spans
  /\ freeSpans = [k \in Sizes |-> Committed.freeSpans[k] \ {x \in NextOf(s) : Committed.spans[x].numPages = k}]
  /\ cachedFreePages = Committed.cachedFreePages - (Atomic!MergedEnd(s) - Atomic!End(s))
  /\ DOMAIN spans = DOMAIN Committed.spans \ gone
  /\ spans[s] = [Committed.spans[s] EXCEPT !.numPages = Atomic!MergedEnd(s) - s, !.isLarge = FALSE]
  /\ \A x \in DOMAIN spans \ ({s} \cup NextOf(s)) : spans[x] = Committed.spans[x]
  /\ MapOutside(s, Atomic!MergedEnd(s))

(* deallocateSpan(s) has dealt with both neighbours.                       *)
BothDone(s, gone) ==
  /\ Freed(s) /\ ~ Atomic!ReturnDirect(s) /\ Atomic!Absorbed(s) \subseteq DOMAIN Committed.spans
  /\ freeSpans = Atomic!FreeSpansAfterMerge(s)
  /\ cachedFreePages = Atomic!CountAfterMerge(s)
  /\ DOMAIN spans = DOMAIN Committed.spans \ gone
  /\ spans[Atomic!MergedStart(s)] =
       [Committed.spans[Atomic!MergedStart(s)] EXCEPT !.numPages = Atomic!MergedSize(s),
                                                      !.inFreeList = FALSE, !.isLarge = FALSE]
  /\ \A x \in DOMAIN spans \ ({s} \cup Atomic!Absorbed(s)) : spans[x] = Committed.spans[x]
  /\ spans[Atomic!MergedStart(s)].originAddr = Committed.spans[s].originAddr
  /\ spans[Atomic!MergedStart(s)].originPages = Committed.spans[s].originPages
  /\ MapOutside(Atomic!MergedStart(s), Atomic!MergedEnd(s))

Merged(s) == me = Atomic!MergedStart(s) /\ BothDone(s, ({s} \cup Atomic!Absorbed(s)) \ {me})

Underway ==
  /\ Atomic!TypeOK
  /\ op.at = "split" => SameMap /\ \E k \in Sizes : FromBin(k) /\ k > op.size /\ Taken(k)
  /\ op.at = "mapRest" => SameMap /\ \E k \in Sizes : FromBin(k) /\ CutOff(k, k)
  /\ op.at = "mapSpan" => \E k \in Sizes : FromBin(k) /\ CutOff(k, k) /\ pageMap = RestMapped(k)
  /\ op.at = "hand" =>
       \/ FromBin(op.size) /\ Taken(op.size)
       \/ \E k \in Sizes :
            /\ FromBin(k) /\ CutOff(k, op.size)
            /\ pageMap = registerPages(RestMapped(k), me, op.size)
       \/ FromSystem /\ Noted /\ WithNew /\ pageMap = registerPages(Committed.pageMap, me, op.size)
  /\ op.at = "record" =>
       FromSystem /\ SameMap /\ spans = Committed.spans /\ systemAllocs = Committed.systemAllocs
  /\ op.at = "newSpan" => FromSystem /\ SameMap /\ spans = Committed.spans /\ Noted
  /\ op.at = "register" => FromSystem /\ SameMap /\ WithNew /\ Noted
  /\ op.at = "next" => Alone(me) /\ ~ Atomic!ReturnDirect(me) /\ SameMap
  /\ op.at \in {"redirectNext", "deleteNext"} =>
       NextDone(me, {}) /\ SamePages /\ Atomic!NextMergeable(me) /\ op.other = Atomic!End(me)
  /\ op.at = "prev" => NextDone(me, NextOf(me)) /\ SamePages
  /\ op.at \in {"redirectPrev", "deletePrev"} =>
       /\ BothDone(me, NextOf(me)) /\ SamePages
       /\ Atomic!PrevMergeable(me) /\ op.other = Atomic!MergedStart(me)
  /\ op.at = "place" => SamePages /\ \E s \in DOMAIN Committed.spans : Merged(s)
  /\ op.at = "unregister" =>
       /\ SamePages
       /\ \/ Alone(me) /\ Atomic!ReturnDirect(me) /\ SameMap
          \/ \E s \in DOMAIN Committed.spans : Merged(s) /\ Atomic!OverBudget(s)
  /\ op.at = "release" =>
       /\ DOMAIN pageMap = DOMAIN Committed.pageMap \ PagesOf(me)
       /\ \/ Alone(me) /\ Atomic!ReturnDirect(me) /\ MapOutside(me, End(me))
          \/ \E s \in DOMAIN Committed.spans : Merged(s) /\ Atomic!OverBudget(s)

(* Committed while nobody is inside an operation, and during one.          *)
LEMMA CommittedIdle ==
  ASSUME op = Idle
  PROVE  /\ Committed = Now
         /\ Committed.spans = spans /\ Committed.freeSpans = freeSpans
         /\ Committed.pageMap = pageMap /\ Committed.systemAllocs = systemAllocs
         /\ Committed.cachedFreePages = cachedFreePages /\ Committed.osPages = osPages
BY DEF Committed, Now

(* Inside an operation the earlier cache is the one remembered.            *)
LEMMA CommittedBusy ==
  ASSUME op.at # "idle"
  PROVE  Committed = before
BY DEF Committed, Idle

(* A step inside an operation leaves what the operation began with.        *)
LEMMA CommittedKept ==
  ASSUME op.at # "idle", op'.at # "idle", before' = before, running' = running
  PROVE  /\ Committed' = Committed
         /\ \A n : Atomic!lowerBound(n)' = Atomic!lowerBound(n)
         /\ \A s : /\ Atomic!ReturnDirect(s)' <=> Atomic!ReturnDirect(s)
                   /\ Atomic!NextMergeable(s)' <=> Atomic!NextMergeable(s)
                   /\ Atomic!PrevMergeable(s)' <=> Atomic!PrevMergeable(s)
                   /\ Atomic!OverBudget(s)' <=> Atomic!OverBudget(s)
                   /\ Atomic!End(s)' = Atomic!End(s) /\ NextOf(s)' = NextOf(s)
                   /\ Atomic!MergedStart(s)' = Atomic!MergedStart(s)
                   /\ Atomic!MergedEnd(s)' = Atomic!MergedEnd(s)
                   /\ Atomic!MergedSize(s)' = Atomic!MergedSize(s)
                   /\ Atomic!Absorbed(s)' = Atomic!Absorbed(s)
                   /\ Atomic!FreeSpansAfterMerge(s)' = Atomic!FreeSpansAfterMerge(s)
                   /\ Atomic!CountAfterMerge(s)' = Atomic!CountAfterMerge(s)
         /\ Atomic!TypeOK' <=> Atomic!TypeOK
<1>1. Committed' = Committed
  BY DEF Committed, Idle
<1>2. \A n : Atomic!lowerBound(n)' = Atomic!lowerBound(n)
  BY <1>1 DEF Atomic!lowerBound
<1>3. \A s : /\ Atomic!End(s)' = Atomic!End(s)
             /\ Atomic!OwnsOrigin(s)' <=> Atomic!OwnsOrigin(s)
             /\ Atomic!Removable(s)' <=> Atomic!Removable(s)
  BY <1>1 DEF Atomic!End, Atomic!OwnsOrigin, Atomic!Removable
<1>4. \A s : /\ Atomic!ReturnDirect(s)' <=> Atomic!ReturnDirect(s)
             /\ Atomic!NextMergeable(s)' <=> Atomic!NextMergeable(s)
             /\ Atomic!PrevMergeable(s)' <=> Atomic!PrevMergeable(s)
  BY <1>1, <1>3 DEF Atomic!ReturnDirect, Atomic!NextMergeable, Atomic!PrevMergeable
<1>5. \A s : /\ Atomic!MergedStart(s)' = Atomic!MergedStart(s)
             /\ Atomic!MergedEnd(s)' = Atomic!MergedEnd(s)
             /\ Atomic!Absorbed(s)' = Atomic!Absorbed(s) /\ NextOf(s)' = NextOf(s)
  BY <1>1, <1>3, <1>4 DEF Atomic!MergedStart, Atomic!MergedEnd, Atomic!Absorbed, NextOf
<1>6. \A s : Atomic!MergedSize(s)' = Atomic!MergedSize(s)
  BY <1>5 DEF Atomic!MergedSize
<1>7. \A s : /\ Atomic!FreeSpansAfterMerge(s)' = Atomic!FreeSpansAfterMerge(s)
             /\ Atomic!CountAfterMerge(s)' = Atomic!CountAfterMerge(s)
  BY <1>1, <1>5, <1>6 DEF Atomic!FreeSpansAfterMerge, Atomic!CountAfterMerge
<1>8. \A s : Atomic!OverBudget(s)' <=> Atomic!OverBudget(s)
  BY <1>1, <1>5, <1>6, <1>7 DEF Atomic!OverBudget
<1>9. Atomic!TypeOK' <=> Atomic!TypeOK
  BY <1>1 DEF Atomic!TypeOK, Atomic!SpanRecord, Atomic!Pages, Atomic!Sizes
<1> QED BY <1>1, <1>2, <1>4, <1>3, <1>5, <1>6, <1>7, <1>8, <1>9

(* An operation begins with the cache as it is.                            *)
LEMMA LockFacts ==
  ASSUME StepInv, NEW start, Lock(start), start.at # "idle", running' = running
  PROVE  /\ Committed' = Committed
         /\ Committed'.spans = spans /\ Committed'.freeSpans = freeSpans
         /\ Committed'.pageMap = pageMap /\ Committed'.systemAllocs = systemAllocs
         /\ Committed'.cachedFreePages = cachedFreePages /\ Committed'.osPages = osPages
         /\ Atomic!TypeOK' /\ \A n : Atomic!lowerBound(n)' = lowerBound(n)
<1>1. op = Idle /\ op' = start /\ before' = Now /\ op' # Idle
  BY DEF Lock, Idle
<1>2. /\ Committed' = Committed
      /\ Committed'.spans = spans /\ Committed'.freeSpans = freeSpans
      /\ Committed'.pageMap = pageMap /\ Committed'.systemAllocs = systemAllocs
      /\ Committed'.cachedFreePages = cachedFreePages /\ Committed'.osPages = osPages
  BY <1>1 DEF Committed, Now
<1>3. Atomic!TypeOK'
  BY <1>2 DEF StepInv, StepTypeOK, TypeOK, Atomic!TypeOK, Atomic!SpanRecord, Atomic!Pages, Atomic!Sizes,
              SpanRecord, Pages, Sizes
<1>4. \A n : Atomic!lowerBound(n)' = lowerBound(n)
  BY <1>2 DEF Atomic!lowerBound, lowerBound, Atomic!Sizes, Sizes
<1> QED BY <1>2, <1>3, <1>4

-----------------------------------------------------------------------------
(* How each step of allocateSpan takes the relation on.                    *)

(* The span has left its bin.                                              *)
LEMMA TakeUnderway ==
  ASSUME StepInv, NEW n \in Nat \ {0}, NEW large \in BOOLEAN, Take(n, large)
  PROVE  Underway' /\ Committed' = Committed
<1>1. PICK k \in Sizes, s \in Pages :
        /\ k \in lowerBound(n) /\ s \in freeSpans[k]
        /\ Lock([Idle EXCEPT !.at = IF k > n THEN "split" ELSE "hand",
                             !.span = s, !.size = n, !.large = large])
        /\ freeSpans' = [freeSpans EXCEPT ![k] = @ \ {s}]
        /\ cachedFreePages' = cachedFreePages - k
        /\ spans' = [spans EXCEPT ![s].inFreeList = FALSE]
        /\ UNCHANGED <<pageMap, systemAllocs, osPages, running, held>>
  <2>1. lowerBound(n) \subseteq Sizes /\ \A k \in Sizes : freeSpans[k] \subseteq Pages
    BY DEF lowerBound, StepInv, StepTypeOK, TypeOK
  <2> QED BY <2>1 DEF Take
<1>2. /\ op'.at = (IF k > n THEN "split" ELSE "hand") /\ me' = s /\ op'.size = n
  BY <1>1 DEF Lock, Idle, me
<1>3. s \in DOMAIN spans /\ spans[s].numPages = k
  BY <1>1 DEF StepInv, BinsExact
<1>4. k >= n /\ k \in Nat /\ n \in Sizes
  BY <1>1, PageCacheAssumption DEF lowerBound, Sizes
<1>5. /\ Committed' = Committed
      /\ Committed'.spans = spans /\ Committed'.freeSpans = freeSpans
      /\ Committed'.pageMap = pageMap /\ Committed'.systemAllocs = systemAllocs
      /\ Committed'.cachedFreePages = cachedFreePages /\ Committed'.osPages = osPages
      /\ Atomic!TypeOK' /\ \A j : Atomic!lowerBound(j)' = lowerBound(j)
  <2>1. PICK start : start = [Idle EXCEPT !.at = IF k > n THEN "split" ELSE "hand",
                                          !.span = s, !.size = n, !.large = large]
    OBVIOUS
  <2>2. start.at # "idle" /\ Lock(start)
    BY <1>1, <2>1 DEF Idle
  <2> QED BY <1>1, <2>2, LockFacts
<1>6. Atomic!lowerBound(op.size)' = lowerBound(n)
  BY <1>2, <1>5
<1>7. FromBin(k)'
  BY <1>1, <1>2, <1>3, <1>4, <1>5, <1>6 DEF FromBin, SameRuns
<1>8. Taken(k)' /\ SameMap'
  BY <1>1, <1>2, <1>5 DEF Taken, SameMap
<1>9. CASE k > n
  BY <1>2, <1>5, <1>7, <1>8, <1>9 DEF Underway
<1>10. CASE ~ (k > n)
  <2>1. k = op'.size /\ op'.at = "hand"
    BY <1>2, <1>4, <1>10
  <2>2. FromBin(op.size)' /\ Taken(op.size)'
    BY <1>7, <1>8, <2>1
  <2> QED BY <1>5, <2>1, <2>2 DEF Underway
<1> QED BY <1>9, <1>10

(* Inside an operation: what Underway speaks of and does not change.       *)
LEMMA StepOn ==
  ASSUME StepInv, op.at # "idle", NEW to \in Phases, to # "idle", Goto(to), running' = running
  PROVE  /\ op'.at = to /\ me' = me /\ op'.size = op.size /\ op'.other = op.other /\ op'.large = op.large
         /\ Committed' = Committed /\ before' = before /\ op'.at # "idle"
<1>1. /\ op'.at = to /\ me' = me /\ op'.size = op.size /\ op'.other = op.other /\ op'.large = op.large
      /\ before' = before
  BY OpAt DEF Goto, OpRecord, me
<1> QED BY <1>1, CommittedKept

(* The remainder is cut off and counted.                                   *)
LEMMA SplitUnderway ==
  ASSUME StepInv, Underway, Split
  PROVE  Underway' /\ Committed' = Committed
<1>1. /\ op.at = "split" /\ spans' = WithRest
      /\ freeSpans' = [freeSpans EXCEPT ![RestSize] = @ \cup {Rest}]
      /\ cachedFreePages' = cachedFreePages + RestSize
      /\ Goto("mapRest")
      /\ UNCHANGED <<pageMap, systemAllocs, osPages, running, held, thrown>>
  BY DEF Split, RestBin, Goto
<1>2. /\ op'.at = "mapRest" /\ me' = me /\ op'.size = op.size
      /\ Committed' = Committed /\ before' = before
  BY <1>1, StepOn DEF Phases
<1>3. PICK k \in Sizes : FromBin(k) /\ k > op.size /\ Taken(k)
  BY <1>1 DEF Underway
<1>4. \A n : Atomic!lowerBound(n)' = Atomic!lowerBound(n)
  BY <1>1, <1>2, CommittedKept
<1>5. Atomic!TypeOK /\ Atomic!TypeOK'
  BY <1>1, <1>2, CommittedKept DEF Underway
<1>6. FromBin(k)' /\ SameMap'
  BY <1>1, <1>2, <1>3, <1>4 DEF FromBin, SameRuns, SameMap, Taken
<1>7. /\ Committed.spans \in [DOMAIN Committed.spans -> SpanRecord] /\ me \in DOMAIN Committed.spans
      /\ Committed.freeSpans \in [Sizes -> SUBSET Pages] /\ Committed.cachedFreePages \in Nat
      /\ Committed.spans[me].numPages = k
  BY <1>3, <1>5 DEF Atomic!TypeOK, Atomic!SpanRecord, Atomic!Pages, Atomic!Sizes, SpanRecord, Pages, Sizes,
                    FromBin
<1>8. /\ k \in Nat /\ op.size \in Nat /\ Rest' = Rest /\ RestSize = k - op.size /\ Rest # me
  BY <1>1, <1>2, <1>3, <1>7, SplitFacts, PageCacheAssumption DEF Taken, RestSize, Rest, Sizes, SpanRecord
<1>9. spans' = [x \in DOMAIN Committed.spans \cup {Rest} |->
                CASE x = me   -> [Committed.spans[me] EXCEPT !.numPages = k, !.inFreeList = FALSE]
                  [] x = Rest -> [Committed.spans[me] EXCEPT !.numPages = k - op.size,
                                                             !.inFreeList = TRUE, !.isLarge = FALSE]
                  [] OTHER    -> Committed.spans[x]]
  <2>1. spans[me] = [Committed.spans[me] EXCEPT !.inFreeList = FALSE]
    BY <1>3, <1>7 DEF Taken
  <2>2. /\ DOMAIN spans = DOMAIN Committed.spans
        /\ \A x \in DOMAIN Committed.spans : x # me => spans[x] = Committed.spans[x]
    BY <1>3 DEF Taken
  <2>3. Committed.spans[me] \in SpanRecord
    BY <1>7
  <2>4. [Committed.spans[me] EXCEPT !.numPages = k, !.inFreeList = FALSE]
          = [Committed.spans[me] EXCEPT !.inFreeList = FALSE]
    BY <1>7, <2>3 DEF SpanRecord
  <2>5. [spans[me] EXCEPT !.numPages = RestSize, !.inFreeList = TRUE, !.isLarge = FALSE]
          = [Committed.spans[me] EXCEPT !.numPages = k - op.size, !.inFreeList = TRUE, !.isLarge = FALSE]
    BY <1>8, <2>1, <2>3 DEF SpanRecord
  <2>6. WithRest = [x \in DOMAIN spans \cup {Rest} |->
                      IF x = Rest THEN [Committed.spans[me] EXCEPT !.numPages = k - op.size,
                                                       !.inFreeList = TRUE, !.isLarge = FALSE]
                      ELSE spans[x]]
    BY <2>5 DEF WithRest
  <2> QED BY <1>1, <1>8, <2>1, <2>2, <2>4, <2>6
<1>10. freeSpans' = [j \in Sizes |-> (Committed.freeSpans[j] \ (IF j = k THEN {me} ELSE {}))
                                    \cup (IF j = k - op.size THEN {Rest} ELSE {})]
  BY <1>1, <1>3, <1>7, <1>8 DEF Taken
<1>11. cachedFreePages' = Committed.cachedFreePages - k + (k - op.size)
  BY <1>1, <1>3, <1>8 DEF Taken
<1>12. CutOff(k, k)'
  BY <1>2, <1>3, <1>8, <1>9, <1>10, <1>11 DEF CutOff
<1> QED BY <1>2, <1>5, <1>6, <1>12 DEF Underway

(* The map knows the remainder.                                            *)
LEMMA MapRestUnderway ==
  ASSUME StepInv, Underway, MapRest
  PROVE  Underway' /\ Committed' = Committed
<1>1. /\ op.at = "mapRest" /\ pageMap' = registerPages(pageMap, Rest, RestSize) /\ Goto("mapSpan")
      /\ UNCHANGED <<spans, freeSpans, systemAllocs, cachedFreePages, osPages, running, held>>
  BY DEF MapRest, MapStep
<1>2. /\ op'.at = "mapSpan" /\ me' = me /\ op'.size = op.size
      /\ Committed' = Committed /\ before' = before
  BY <1>1, StepOn DEF Phases
<1>3. PICK k \in Sizes : SameMap /\ FromBin(k) /\ CutOff(k, k)
  BY <1>1 DEF Underway
<1>4. Atomic!TypeOK' /\ \A n : Atomic!lowerBound(n)' = Atomic!lowerBound(n)
  BY <1>1, <1>2, CommittedKept DEF Underway
<1>5. FromBin(k)' /\ CutOff(k, k)' /\ Rest' = Rest
  BY <1>1, <1>2, <1>3, <1>4 DEF FromBin, SameRuns, CutOff, Rest
<1>6. RestSize = k - op.size
  <2>1. Rest # me /\ me \in DOMAIN Committed.spans
    BY <1>1, <1>3, OpAt DEF StepInv, OpExact, Rest, FromBin
  <2>2. spans[me].numPages = k
    <3>1. spans[me] = [Committed.spans[me] EXCEPT !.numPages = k, !.inFreeList = FALSE]
      BY <1>3, <2>1 DEF CutOff
    <3>2. Committed.spans[me] \in SpanRecord
      BY <2>1 DEF Underway, Atomic!TypeOK, Atomic!SpanRecord, Atomic!Pages, Atomic!Sizes,
                  SpanRecord, Pages, Sizes
    <3> QED BY <3>1, <3>2 DEF SpanRecord
  <2> QED BY <2>2 DEF RestSize
<1>7. pageMap' = RestMapped(k)'
  BY <1>1, <1>2, <1>3, <1>5, <1>6 DEF RestMapped, registerPages, SameMap
<1> QED BY <1>2, <1>4, <1>5, <1>7 DEF Underway

(* The span has its final size.                                            *)
LEMMA MapSpanUnderway ==
  ASSUME StepInv, Underway, MapSpan
  PROVE  Underway' /\ Committed' = Committed
<1>1. /\ op.at = "mapSpan" /\ spans' = [spans EXCEPT ![me].numPages = op.size]
      /\ pageMap' = registerPages(pageMap, me, op.size)
      /\ Goto("hand")
      /\ UNCHANGED <<freeSpans, systemAllocs, cachedFreePages, osPages, running, held>>
  BY DEF MapSpan
<1>2. /\ op'.at = "hand" /\ me' = me /\ op'.size = op.size
      /\ Committed' = Committed /\ before' = before
  BY <1>1, StepOn DEF Phases
<1>3. PICK k \in Sizes : FromBin(k) /\ CutOff(k, k) /\ pageMap = RestMapped(k)
  BY <1>1 DEF Underway
<1>4. Atomic!TypeOK' /\ \A n : Atomic!lowerBound(n)' = Atomic!lowerBound(n)
  BY <1>1, <1>2, CommittedKept DEF Underway
<1>5. FromBin(k)' /\ Rest' = Rest /\ RestMapped(k)' = RestMapped(k)
  BY <1>1, <1>2, <1>3, <1>4 DEF FromBin, SameRuns, Rest, RestMapped
<1>6. pageMap' = registerPages(RestMapped(k), me, op.size)'
  BY <1>1, <1>2, <1>3, <1>5 DEF registerPages
<1>7. spans' = [x \in DOMAIN Committed.spans \cup {Rest} |->
                CASE x = me   -> [Committed.spans[me] EXCEPT !.numPages = op.size, !.inFreeList = FALSE]
                  [] x = Rest -> [Committed.spans[me] EXCEPT !.numPages = k - op.size,
                                                             !.inFreeList = TRUE, !.isLarge = FALSE]
                  [] OTHER    -> Committed.spans[x]]
  <2>1. me \in DOMAIN Committed.spans /\ Rest # me
    BY <1>1, <1>3, OpAt DEF FromBin, StepInv, OpExact, Rest
  <2>2. Committed.spans[me] \in SpanRecord
    BY <2>1 DEF Underway, Atomic!TypeOK, Atomic!SpanRecord, Atomic!Pages, Atomic!Sizes,
                SpanRecord, Pages, Sizes
  <2>3. spans[me] = [Committed.spans[me] EXCEPT !.numPages = k, !.inFreeList = FALSE]
    BY <1>3, <2>1 DEF CutOff
  <2>4. [spans[me] EXCEPT !.numPages = op.size]
          = [Committed.spans[me] EXCEPT !.numPages = op.size, !.inFreeList = FALSE]
    BY <2>2, <2>3 DEF SpanRecord
  <2>5. /\ DOMAIN spans = DOMAIN Committed.spans \cup {Rest}
        /\ spans' = [x \in DOMAIN spans |-> IF x = me THEN [spans[me] EXCEPT !.numPages = op.size] ELSE spans[x]]
    <3>1. DOMAIN spans = DOMAIN Committed.spans \cup {Rest}
      BY <1>3 DEF CutOff
    <3> QED BY <1>1, <3>1, <2>1
  <2> QED BY <1>3, <2>1, <2>4, <2>5 DEF CutOff
<1>8. CutOff(k, op.size)'
  <2>1. /\ k > op.size /\ cachedFreePages = Committed.cachedFreePages - k + (k - op.size)
        /\ freeSpans = [j \in Sizes |-> (Committed.freeSpans[j] \ (IF j = k THEN {me} ELSE {}))
                                         \cup (IF j = k - op.size THEN {Rest} ELSE {})]
    BY <1>3 DEF CutOff
  <2>2. /\ k > op'.size /\ cachedFreePages' = Committed'.cachedFreePages - k + (k - op'.size)
        /\ freeSpans' = [j \in Sizes |-> (Committed'.freeSpans[j] \ (IF j = k THEN {me'} ELSE {}))
                                          \cup (IF j = k - op'.size THEN {Rest'} ELSE {})]
    <3>1. freeSpans' = freeSpans /\ cachedFreePages' = cachedFreePages
      BY <1>1
    <3> QED BY <1>2, <1>5, <2>1, <3>1
  <2>3. spans' = [x \in DOMAIN Committed'.spans \cup {Rest'} |->
                   CASE x = me'   -> [Committed'.spans[me'] EXCEPT !.numPages = op'.size, !.inFreeList = FALSE]
                     [] x = Rest' -> [Committed'.spans[me'] EXCEPT !.numPages = k - op'.size,
                                                                   !.inFreeList = TRUE, !.isLarge = FALSE]
                     [] OTHER     -> Committed'.spans[x]]
    BY <1>2, <1>5, <1>7
  <2> QED BY <2>2, <2>3, Zenon DEF CutOff
<1> QED BY <1>2, <1>4, <1>5, <1>6, <1>8 DEF Underway

(* The operating system has mapped a run.                                  *)
LEMMA MapUnderway ==
  ASSUME StepInv, NEW n \in 1 .. (NumPages + 1), NEW large \in BOOLEAN, n <= NumPages \/ n = 1, Map(n, large)
  PROVE  Underway' /\ Committed' = Committed
<1>1. PICK m \in n .. (n + Granularity - 1), s \in Pages :
        /\ lowerBound(n) = {} /\ m % Granularity = 0
        /\ Run(s, m) \subseteq Pages \ osPages
        /\ Lock([Idle EXCEPT !.at = "record", !.span = s, !.size = m, !.large = large])
        /\ osPages' = osPages \cup Run(s, m)
        /\ UNCHANGED <<spans, freeSpans, pageMap, systemAllocs, cachedFreePages, running, held>>
  BY DEF Map
<1>2. op'.at = "record" /\ me' = s /\ op'.size = m /\ n \in Sizes
  BY <1>1, PageCacheAssumption DEF Lock, Idle, me, Sizes, Pages
<1>3. PICK start : start = [Idle EXCEPT !.at = "record", !.span = s, !.size = m, !.large = large]
  OBVIOUS
<1>4. start.at # "idle" /\ Lock(start)
  BY <1>1, <1>3 DEF Idle
<1>5. /\ Committed' = Committed
      /\ Committed'.spans = spans /\ Committed'.freeSpans = freeSpans
      /\ Committed'.pageMap = pageMap /\ Committed'.systemAllocs = systemAllocs
      /\ Committed'.cachedFreePages = cachedFreePages /\ Committed'.osPages = osPages
      /\ Atomic!TypeOK' /\ \A j : Atomic!lowerBound(j)' = lowerBound(j)
  BY <1>1, <1>4, LockFacts
<1>6. FromSystem'
  BY <1>1, <1>2, <1>5 DEF FromSystem, SameBins, Run
<1> QED BY <1>1, <1>2, <1>5, <1>6 DEF Underway, SameMap

(* The run is recorded.                                                    *)
LEMMA RecordUnderway ==
  ASSUME StepInv, Underway, Record
  PROVE  Underway' /\ Committed' = Committed
<1>1. /\ op.at = "record" /\ systemAllocs' = systemAllocs \cup {<<me, op.size>>} /\ Goto("newSpan")
      /\ UNCHANGED <<spans, freeSpans, pageMap, cachedFreePages, osPages, running, held>>
  BY DEF Record
<1>2. /\ op'.at = "newSpan" /\ me' = me /\ op'.size = op.size
      /\ Committed' = Committed /\ before' = before
  BY <1>1, StepOn DEF Phases
<1>3. Atomic!TypeOK' /\ \A n : Atomic!lowerBound(n)' = Atomic!lowerBound(n)
  BY <1>1, <1>2, CommittedKept DEF Underway
<1>4. FromSystem'
  BY <1>1, <1>2, <1>3 DEF Underway, FromSystem, SameBins, Run
<1> QED BY <1>1, <1>2, <1>3, <1>4 DEF Underway, Noted, SameMap

(* The run has a Span object.                                              *)
LEMMA NewSpanUnderway ==
  ASSUME StepInv, Underway, NewSpan
  PROVE  Underway' /\ Committed' = Committed
<1>1. /\ op.at = "newSpan" /\ Goto("register")
      /\ spans' = [x \in DOMAIN spans \cup {me} |->
                 IF x = me THEN [numPages |-> op.size, originAddr |-> me,
                                 originPages |-> op.size, inFreeList |-> FALSE,
                                 isLarge |-> FALSE]
                 ELSE spans[x]]
      /\ UNCHANGED <<freeSpans, pageMap, systemAllocs, cachedFreePages, osPages, running, held>>
  BY DEF NewSpan
<1>2. /\ op'.at = "register" /\ me' = me /\ op'.size = op.size
      /\ Committed' = Committed /\ before' = before
  BY <1>1, StepOn DEF Phases
<1>3. Atomic!TypeOK' /\ \A n : Atomic!lowerBound(n)' = Atomic!lowerBound(n)
  BY <1>1, <1>2, CommittedKept DEF Underway
<1>4. FromSystem' /\ WithNew' /\ Noted' /\ SameMap'
  BY <1>1, <1>2, <1>3 DEF Underway, FromSystem, SameBins, Run, WithNew, Noted, SameMap
<1> QED BY <1>2, <1>3, <1>4 DEF Underway

(* The map knows the run.                                                  *)
LEMMA RegisterUnderway ==
  ASSUME StepInv, Underway, Register
  PROVE  Underway' /\ Committed' = Committed
<1>1. /\ op.at = "register" /\ pageMap' = registerPages(pageMap, me, op.size) /\ Goto("hand")
      /\ UNCHANGED <<spans, freeSpans, systemAllocs, cachedFreePages, osPages, running, held>>
  BY DEF Register, MapStep
<1>2. /\ op'.at = "hand" /\ me' = me /\ op'.size = op.size
      /\ Committed' = Committed /\ before' = before
  BY <1>1, StepOn DEF Phases
<1>3. Atomic!TypeOK' /\ \A n : Atomic!lowerBound(n)' = Atomic!lowerBound(n)
  BY <1>1, <1>2, CommittedKept DEF Underway
<1>4. FromSystem' /\ WithNew' /\ Noted'
  BY <1>1, <1>2, <1>3 DEF Underway, FromSystem, SameBins, Run, WithNew, Noted
<1>5. pageMap' = registerPages(Committed.pageMap, me, op.size)'
  BY <1>1, <1>2 DEF Underway, SameMap, registerPages
<1> QED BY <1>2, <1>3, <1>4, <1>5 DEF Underway

-----------------------------------------------------------------------------
(* How each step of deallocateSpan takes the relation on.                  *)

(* Two Span objects with the same fields are the same record.              *)
LEMMA SameRecord ==
  ASSUME NEW r \in SpanRecord, NEW q \in SpanRecord,
         r.numPages = q.numPages, r.originAddr = q.originAddr, r.originPages = q.originPages,
         r.inFreeList = q.inFreeList, r.isLarge = q.isLarge
  PROVE  r = q
BY DEF SpanRecord

(* What the operation began with has its type.                             *)
LEMMA BeforeTyped ==
  ASSUME Underway
  PROVE  /\ DOMAIN Committed.spans \subseteq Pages
         /\ Committed.spans \in [DOMAIN Committed.spans -> SpanRecord]
         /\ Committed.freeSpans \in [Sizes -> SUBSET Pages]
         /\ Committed.pageMap \in [DOMAIN Committed.pageMap -> Pages]
         /\ Committed.cachedFreePages \in Nat
         /\ \A s \in DOMAIN Committed.spans :
              /\ s \in Nat /\ Committed.spans[s].numPages \in Nat \ {0}
              /\ Atomic!End(s) = s + Committed.spans[s].numPages
<1>1. /\ DOMAIN Committed.spans \subseteq Pages
      /\ Committed.spans \in [DOMAIN Committed.spans -> SpanRecord]
      /\ Committed.freeSpans \in [Sizes -> SUBSET Pages]
      /\ Committed.pageMap \in [DOMAIN Committed.pageMap -> Pages]
      /\ Committed.cachedFreePages \in Nat
  BY DEF Underway, Atomic!TypeOK, Atomic!SpanRecord, Atomic!Pages, Atomic!Sizes, SpanRecord, Pages, Sizes
<1>2. Pages \subseteq Nat /\ Sizes \subseteq Nat \ {0}
  BY PageCacheAssumption DEF Pages, Sizes
<1> QED BY <1>1, <1>2 DEF SpanRecord, Atomic!End

(* The flag of a large object is all that the span loses.                  *)
LEMMA ClearedIs ==
  ASSUME StepInv, NEW s \in DOMAIN spans,
         spans' = [x \in DOMAIN spans |-> [spans[x] EXCEPT !.isLarge = @ /\ x # s]]
  PROVE  spans' = [spans EXCEPT ![s].isLarge = FALSE]
<1>1. \A t \in DOMAIN spans : spans[t] \in SpanRecord /\ spans[t].isLarge \in BOOLEAN
  BY DEF StepInv, StepTypeOK, TypeOK, SpanRecord
<1>2. ASSUME NEW t \in DOMAIN spans
      PROVE  spans'[t] = [spans EXCEPT ![s].isLarge = FALSE][t]
  <2>1. PICK b : b = (spans[t].isLarge /\ t # s)
    OBVIOUS
  <2>2. spans'[t] = [spans[t] EXCEPT !.isLarge = b]
    BY <2>1
  <2>3. CASE t = s
    BY <2>1, <2>2, <2>3
  <2>4. CASE t # s
    <3>1. b = spans[t].isLarge
      BY <1>1, <2>1, <2>4
    <3>2. [spans[t] EXCEPT !.isLarge = b] = spans[t]
      BY <1>1, <3>1 DEF SpanRecord
    <3> QED BY <2>2, <2>4, <3>2
  <2> QED BY <2>3, <2>4
<1> QED BY <1>2

(* A span is given back; its flag of a large object is cleared.            *)
LEMMA GiveBackUnderway ==
  ASSUME StepInv, NEW s \in held, GiveBack(s)
  PROVE  Underway' /\ Committed' = Committed
<1>1. /\ Lock([Idle EXCEPT !.at = IF ReturnDirect(s) THEN "unregister" ELSE "next", !.span = s])
      /\ spans' = [x \in DOMAIN spans |-> [spans[x] EXCEPT !.isLarge = @ /\ x # s]]
      /\ UNCHANGED <<freeSpans, pageMap, systemAllocs, cachedFreePages, osPages, running>>
  BY DEF GiveBack, Cleared
<1>2. /\ op'.at = (IF ReturnDirect(s) THEN "unregister" ELSE "next") /\ me' = s
  BY <1>1 DEF Lock, Idle, me
<1>3. PICK start : start = [Idle EXCEPT !.at = IF ReturnDirect(s) THEN "unregister" ELSE "next", !.span = s]
  OBVIOUS
<1>4. start.at # "idle" /\ Lock(start)
  BY <1>1, <1>3 DEF Idle
<1>5. /\ Committed' = Committed
      /\ Committed'.spans = spans /\ Committed'.freeSpans = freeSpans
      /\ Committed'.pageMap = pageMap /\ Committed'.systemAllocs = systemAllocs
      /\ Committed'.cachedFreePages = cachedFreePages /\ Committed'.osPages = osPages
      /\ Atomic!TypeOK'
  BY <1>1, <1>4, LockFacts
<1>6. s \in DOMAIN spans /\ ~ spans[s].inFreeList
  BY PlacedAt
<1>7. Alone(s)' /\ SameMap' /\ SamePages'
  BY <1>1, <1>5, <1>6, ClearedIs DEF Alone, Freed, SameBins, SameRuns, SameMap, SamePages
<1>8. Atomic!ReturnDirect(s)' <=> ReturnDirect(s)
  BY <1>5 DEF Atomic!ReturnDirect, ReturnDirect, Atomic!OwnsOrigin, OwnsOrigin
<1> QED BY <1>2, <1>5, <1>7, <1>8 DEF Underway

(* Before any merge the neighbours are what they were.                     *)
LEMMA NextAsBefore ==
  ASSUME StepInv, Underway, op.at = "next"
  PROVE  /\ me \in DOMAIN spans /\ me \in DOMAIN Committed.spans /\ DOMAIN spans = DOMAIN Committed.spans
         /\ \A x \in DOMAIN spans : x # me => spans[x] = Committed.spans[x]
         /\ spans[me] = [Committed.spans[me] EXCEPT !.isLarge = FALSE]
         /\ \A x \in DOMAIN spans : /\ spans[x].numPages = Committed.spans[x].numPages
                                    /\ spans[x].originAddr = Committed.spans[x].originAddr
                                    /\ spans[x].inFreeList = Committed.spans[x].inFreeList
         /\ NextMergeable(me) <=> Atomic!NextMergeable(me)
         /\ \A x \in DOMAIN spans : End(x) = Atomic!End(x)
<1>1. /\ Alone(me) /\ SameMap
  BY DEF Underway
<1>2. /\ me \in DOMAIN Committed.spans /\ DOMAIN spans = DOMAIN Committed.spans
      /\ \A x \in DOMAIN spans : x # me => spans[x] = Committed.spans[x]
      /\ spans[me] = [Committed.spans[me] EXCEPT !.isLarge = FALSE]
  BY <1>1 DEF Alone, Freed
<1>3. \A x \in DOMAIN spans : /\ spans[x].numPages = Committed.spans[x].numPages
                              /\ spans[x].originAddr = Committed.spans[x].originAddr
                              /\ spans[x].inFreeList = Committed.spans[x].inFreeList
  BY <1>2, BeforeTyped DEF SpanRecord
<1>4. \A x \in DOMAIN spans : End(x) = Atomic!End(x)
  BY <1>3 DEF End, Atomic!End
<1>5. NextMergeable(me) <=> Atomic!NextMergeable(me)
  <2>1. \A p \in DOMAIN pageMap : pageMap[p] \in DOMAIN spans
    BY DEF StepInv, MapSound, Recorded
  <2>2. \A x \in DOMAIN spans : Removable(x) <=> Atomic!Removable(x)
    BY <1>1, <1>3 DEF Removable, Atomic!Removable, Alone, SameBins
  <2> QED BY <1>1, <1>2, <1>3, <1>4, <2>1, <2>2 DEF NextMergeable, Atomic!NextMergeable, SameMap
<1> QED BY <1>2, <1>3, <1>4, <1>5

(* The next span is absorbed exactly when PageCache absorbs it.            *)
LEMMA LookNextUnderway ==
  ASSUME StepInv, Underway, LookNext
  PROVE  Underway' /\ Committed' = Committed
<1>1. op.at = "next" /\ running
  BY OpAt DEF LookNext
<1>2. /\ me \in DOMAIN spans /\ me \in DOMAIN Committed.spans /\ DOMAIN spans = DOMAIN Committed.spans
      /\ \A x \in DOMAIN spans : x # me => spans[x] = Committed.spans[x]
      /\ spans[me] = [Committed.spans[me] EXCEPT !.isLarge = FALSE]
      /\ \A x \in DOMAIN spans : /\ spans[x].numPages = Committed.spans[x].numPages
                                 /\ spans[x].originAddr = Committed.spans[x].originAddr
                                 /\ spans[x].inFreeList = Committed.spans[x].inFreeList
      /\ NextMergeable(me) <=> Atomic!NextMergeable(me)
      /\ \A x \in DOMAIN spans : End(x) = Atomic!End(x)
  BY <1>1, NextAsBefore
<1>3. /\ Freed(me) /\ SameBins /\ SameRuns /\ ~ Atomic!ReturnDirect(me) /\ SameMap
      /\ spans = [Committed.spans EXCEPT ![me].isLarge = FALSE]
  BY <1>1 DEF Underway, Alone, Freed
<1>4. /\ Committed.spans[me] \in SpanRecord /\ Committed.freeSpans \in [Sizes -> SUBSET Pages]
      /\ Committed.cachedFreePages \in Nat
      /\ me \in Nat /\ Committed.spans[me].numPages \in Nat \ {0}
      /\ Atomic!End(me) = me + Committed.spans[me].numPages
  BY <1>2, BeforeTyped
<1>5. CASE ~ NextMergeable(me)
  <2>1. Goto("prev") /\ UNCHANGED <<cacheVars, held>>
    BY <1>5 DEF LookNext
  <2>2. /\ op'.at = "prev" /\ me' = me /\ Committed' = Committed /\ before' = before
        /\ UNCHANGED <<spans, freeSpans, pageMap, systemAllocs, cachedFreePages, osPages, running>>
    BY <1>1, <2>1, StepOn DEF Phases, cacheVars
  <2>3. /\ Atomic!TypeOK'
        /\ Atomic!ReturnDirect(me)' <=> Atomic!ReturnDirect(me)
        /\ NextOf(me)' = NextOf(me)
        /\ Atomic!MergedEnd(me)' = Atomic!MergedEnd(me) /\ Atomic!End(me)' = Atomic!End(me)
    BY <1>1, <2>2, CommittedKept DEF Underway
  <2>4. NextOf(me) = {} /\ Atomic!MergedEnd(me) = Atomic!End(me)
    BY <1>2, <1>5 DEF NextOf, Atomic!MergedEnd
  <2>5. spans[me] = [Committed.spans[me] EXCEPT !.numPages = Atomic!MergedEnd(me) - me, !.isLarge = FALSE]
    <3>1. Atomic!MergedEnd(me) - me = Committed.spans[me].numPages
      BY <1>4, <2>4
    <3> QED BY <1>2, <1>4, <3>1 DEF SpanRecord
  <2>6. freeSpans = [k \in Sizes |-> Committed.freeSpans[k] \ {x \in NextOf(me) : Committed.spans[x].numPages = k}]
    BY <1>3, <1>4, <2>4 DEF SameBins
  <2>7. cachedFreePages = Committed.cachedFreePages - (Atomic!MergedEnd(me) - Atomic!End(me))
    BY <1>3, <1>4, <2>4 DEF SameBins
  <2>8. NextDone(me, NextOf(me)) /\ SamePages
    BY <1>2, <1>3, <2>4, <2>5, <2>6, <2>7 DEF NextDone, MapOutside, SameMap, SamePages
  <2>9. NextDone(me, NextOf(me))' /\ SamePages'
    BY <2>2, <2>3, <2>8 DEF NextDone, MapOutside, SamePages, Freed, SameRuns
  <2> QED BY <2>2, <2>3, <2>9 DEF Underway
<1>6. CASE NextMergeable(me)
  <2>0. PICK x : x = End(me)
    OBVIOUS
  <2>1. Absorb(x, me, x, "redirectNext")
    BY <1>6, <2>0 DEF LookNext
  <2>2. /\ x \in DOMAIN pageMap /\ pageMap[x] = x /\ x # me /\ spans[x].inFreeList
        /\ spans[x].originAddr = spans[me].originAddr /\ Removable(x)
    BY <1>6, <2>0 DEF NextMergeable
  <2>3. x \in DOMAIN spans
    BY <2>2 DEF StepInv, MapSound, Recorded
  <2>4. "redirectNext" \in Phases
    BY DEF Phases
  <2>5. /\ DOMAIN spans' = DOMAIN spans /\ op' \in OpRecord
        /\ \A t \in DOMAIN spans : t \notin {x, me} => spans'[t] = spans[t]
        /\ ~ spans'[me].inFreeList
        /\ spans'[me].isLarge = spans[me].isLarge
        /\ spans'[me].originAddr = spans[me].originAddr
        /\ spans'[me].originPages = spans[me].originPages
        /\ spans'[me].numPages = spans[me].numPages + spans[x].numPages
        /\ op'.at = "redirectNext" /\ op'.other = x /\ me' = me /\ StepTypeOK'
    <3>1. /\ DOMAIN spans' = DOMAIN spans /\ op' \in OpRecord
          /\ \A t \in DOMAIN spans : t \notin {x, me} => spans'[t] = spans[t]
          /\ \A t \in {x, me} : /\ ~ spans'[t].inFreeList
                                /\ spans'[t].isLarge = spans[t].isLarge
                                /\ spans'[t].originAddr = spans[t].originAddr
                                /\ spans'[t].originPages = spans[t].originPages
          /\ spans'[me].numPages = spans[me].numPages + spans[x].numPages
          /\ op'.at = "redirectNext" /\ op'.other = x /\ me' = me /\ StepTypeOK'
      BY <1>1, <1>2, <2>0, <2>1, <2>2, <2>3, <2>4, AbsorbFacts
    <3> QED BY <3>1
  <2>6. /\ freeSpans' = [freeSpans EXCEPT ![spans[x].numPages] = @ \ {x}]
        /\ cachedFreePages' = cachedFreePages - spans[x].numPages
        /\ UNCHANGED <<pageMap, systemAllocs, osPages, running, before>>
    BY <2>1 DEF Absorb
  <2>7. Committed' = Committed
    BY <1>1, <2>5, <2>6, CommittedKept
  <2>8. /\ Atomic!TypeOK'
        /\ Atomic!ReturnDirect(me)' <=> Atomic!ReturnDirect(me)
        /\ Atomic!NextMergeable(me)' <=> Atomic!NextMergeable(me)
        /\ NextOf(me)' = NextOf(me)
        /\ Atomic!MergedEnd(me)' = Atomic!MergedEnd(me) /\ Atomic!End(me)' = Atomic!End(me)
    BY <1>1, <2>5, <2>6, CommittedKept DEF Underway
  <2>9. /\ Atomic!End(me) = x /\ NextOf(me) = {x} /\ Atomic!MergedEnd(me) = Atomic!End(x)
        /\ Atomic!NextMergeable(me)
    BY <1>2, <1>6, <2>0 DEF NextOf, Atomic!MergedEnd
  <2>10. /\ x \in Nat /\ Committed.spans[x].numPages \in Nat \ {0} /\ x = me + Committed.spans[me].numPages
         /\ Atomic!End(x) = x + Committed.spans[x].numPages
         /\ spans[x].numPages = Committed.spans[x].numPages
         /\ spans[me].numPages = Committed.spans[me].numPages
    BY <1>2, <1>4, <2>3, <2>9, BeforeTyped
  <2>11. spans'[me] = [Committed.spans[me] EXCEPT !.numPages = Atomic!MergedEnd(me) - me, !.isLarge = FALSE]
    <3>1. PICK r : r = [Committed.spans[me] EXCEPT !.numPages = Atomic!MergedEnd(me) - me, !.isLarge = FALSE]
      OBVIOUS
    <3>2. Atomic!MergedEnd(me) - me = spans'[me].numPages
      BY <1>4, <2>5, <2>9, <2>10
    <3>3. spans'[me] \in SpanRecord /\ spans'[me].inFreeList = FALSE
      BY <1>2, <2>5 DEF StepTypeOK, TypeOK, SpanRecord
    <3>4. Committed.spans[me].inFreeList = FALSE
      BY <1>3, <1>4 DEF Freed, SpanRecord
    <3>5. spans'[me].numPages \in Sizes
      BY <3>3 DEF SpanRecord
    <3>6. /\ r \in SpanRecord /\ r.numPages = spans'[me].numPages /\ r.isLarge = FALSE
          /\ r.inFreeList = FALSE /\ r.originAddr = Committed.spans[me].originAddr
          /\ r.originPages = Committed.spans[me].originPages
      BY <1>4, <3>1, <3>2, <3>4, <3>5 DEF SpanRecord
    <3>7. /\ spans[me].isLarge = FALSE /\ spans[me].originAddr = Committed.spans[me].originAddr
          /\ spans[me].originPages = Committed.spans[me].originPages
      BY <1>2, <1>4 DEF SpanRecord
    <3>8. r = spans'[me]
      BY <2>5, <3>3, <3>6, <3>7, SameRecord
    <3> QED BY <3>1, <3>8
  <2>12. freeSpans' = [k \in Sizes |-> Committed.freeSpans[k] \ {y \in NextOf(me) : Committed.spans[y].numPages = k}]
    BY <1>3, <1>4, <2>6, <2>9, <2>10 DEF SameBins
  <2>13. cachedFreePages' = Committed.cachedFreePages - (Atomic!MergedEnd(me) - Atomic!End(me))
    <3>1. cachedFreePages = Committed.cachedFreePages
      BY <1>3, <1>4 DEF SameBins
    <3>2. Atomic!MergedEnd(me) - Atomic!End(me) = Committed.spans[x].numPages
      BY <2>9, <2>10
    <3> QED BY <2>6, <2>10, <3>1, <3>2
  <2>14. /\ DOMAIN spans' = DOMAIN Committed.spans \ {}
         /\ \A t \in DOMAIN spans' \ ({me} \cup NextOf(me)) : spans'[t] = Committed.spans[t]
    BY <1>2, <2>5, <2>9
  <2>15. NextDone(me, {})' /\ SamePages'
    <3>1. Freed(me)' /\ ~ Atomic!ReturnDirect(me)' /\ SamePages'
      BY <1>3, <2>5, <2>6, <2>7, <2>8 DEF Freed, SameRuns, SamePages, SameMap
    <3>2. MapOutside(me, Atomic!MergedEnd(me))'
      BY <1>3, <2>6, <2>7 DEF MapOutside, SameMap
    <3>3. NextOf(me)' \subseteq DOMAIN Committed'.spans
      BY <1>2, <2>3, <2>7, <2>8, <2>9
    <3> QED BY <2>5, <2>7, <2>8, <2>11, <2>12, <2>13, <2>14, <3>1, <3>2, <3>3 DEF NextDone
  <2> QED BY <2>5, <2>7, <2>8, <2>9, <2>15 DEF Underway
<1> QED BY <1>5, <1>6

(* The map changes within the merged run only.                             *)
LEMMA RedirectNextUnderway ==
  ASSUME StepInv, Underway, RedirectNext
  PROVE  Underway' /\ Committed' = Committed
<1>1. /\ op.at = "redirectNext" /\ pageMap' = redirectPages(op.other, me) /\ Goto("deleteNext")
      /\ UNCHANGED <<spans, freeSpans, systemAllocs, cachedFreePages, osPages, running, held>>
  BY DEF RedirectNext, PagesAfterNext, MapStep
<1>2. /\ op'.at = "deleteNext" /\ me' = me /\ op'.other = op.other
      /\ Committed' = Committed /\ before' = before
  BY <1>1, StepOn DEF Phases
<1>3. /\ NextDone(me, {}) /\ SamePages /\ Atomic!NextMergeable(me) /\ op.other = Atomic!End(me)
  BY <1>1 DEF Underway
<1>4. /\ Atomic!TypeOK'
      /\ Atomic!ReturnDirect(me)' <=> Atomic!ReturnDirect(me)
      /\ Atomic!NextMergeable(me)' <=> Atomic!NextMergeable(me)
      /\ NextOf(me)' = NextOf(me)
      /\ Atomic!MergedEnd(me)' = Atomic!MergedEnd(me) /\ Atomic!End(me)' = Atomic!End(me)
  BY <1>1, <1>2, CommittedKept DEF Underway
<1>5. /\ me \in DOMAIN spans /\ op.other \in DOMAIN spans /\ me < op.other /\ End(op.other) = End(me)
      /\ MapsTo(PagesOf(op.other), op.other)
  BY <1>1 DEF StepInv, OpExact, Loose
<1>6. /\ me \in Nat /\ op.other \in Nat /\ End(me) = me + spans[me].numPages /\ End(me) \in Nat
      /\ PagesOf(op.other) = op.other .. (End(me) - 1)
  BY <1>5, SpanAt
<1>7. End(me) = Atomic!MergedEnd(me)
  <2>1. /\ Committed.spans[me] \in SpanRecord /\ me \in DOMAIN Committed.spans
    BY <1>3, BeforeTyped DEF NextDone, Freed
  <2>2. spans[me].numPages = Atomic!MergedEnd(me) - me
    BY <1>3, <2>1 DEF NextDone, SpanRecord
  <2>3. Atomic!MergedEnd(me) \in Int
    <3>1. op.other \in DOMAIN Committed.spans
      BY <1>3, <1>5 DEF NextDone
    <3> QED BY <1>3, <3>1, BeforeTyped DEF Atomic!MergedEnd
  <2> QED BY <1>6, <2>2, <2>3
<1>8. PagesOf(op.other) \subseteq me .. (Atomic!MergedEnd(me) - 1)
  BY <1>5, <1>6, <1>7
<1>9. /\ DOMAIN pageMap' = DOMAIN pageMap
      /\ \A p \in DOMAIN pageMap : p \notin PagesOf(op.other) => pageMap'[p] = pageMap[p]
  <2>1. PagesOf(op.other) \subseteq DOMAIN pageMap
    BY <1>5 DEF MapsTo
  <2> QED BY <1>1, <2>1 DEF redirectPages
<1>10. MapOutside(me, Atomic!MergedEnd(me))' /\ SamePages'
  BY <1>2, <1>3, <1>4, <1>8, <1>9 DEF MapOutside, SamePages, NextDone
<1>11. NextDone(me, {})'
  BY <1>1, <1>2, <1>3, <1>4, <1>10 DEF NextDone, Freed, SameRuns
<1> QED BY <1>2, <1>3, <1>4, <1>10, <1>11 DEF Underway

(* The next span is gone.                                                  *)
LEMMA DeleteNextUnderway ==
  ASSUME StepInv, Underway, DeleteNext
  PROVE  Underway' /\ Committed' = Committed
<1>1. /\ op.at = "deleteNext" /\ spans' = Without({op.other}) /\ Goto("prev")
      /\ UNCHANGED <<freeSpans, pageMap, systemAllocs, cachedFreePages, osPages, running, held>>
  BY DEF DeleteNext
<1>2. /\ op'.at = "prev" /\ me' = me
      /\ Committed' = Committed /\ before' = before
  BY <1>1, StepOn DEF Phases
<1>3. /\ NextDone(me, {}) /\ SamePages /\ Atomic!NextMergeable(me) /\ op.other = Atomic!End(me)
      /\ NextOf(me) = {op.other} /\ me # op.other
  BY <1>1 DEF Underway, NextOf, StepInv, OpExact
<1>4. /\ Atomic!TypeOK'
      /\ Atomic!ReturnDirect(me)' <=> Atomic!ReturnDirect(me)
      /\ NextOf(me)' = NextOf(me)
      /\ Atomic!MergedEnd(me)' = Atomic!MergedEnd(me) /\ Atomic!End(me)' = Atomic!End(me)
  BY <1>1, <1>2, CommittedKept DEF Underway
<1>5. /\ DOMAIN spans' = DOMAIN spans \ {op.other} /\ me \in DOMAIN spans
      /\ \A x \in DOMAIN spans' : spans'[x] = spans[x]
  BY <1>1 DEF Without, StepInv, OpExact, Loose
<1>6. /\ Freed(me)' /\ ~ Atomic!ReturnDirect(me)' /\ SamePages' /\ MapOutside(me, Atomic!MergedEnd(me))'
  BY <1>1, <1>2, <1>3, <1>4 DEF NextDone, Freed, SameRuns, SamePages, MapOutside
<1>7. /\ freeSpans' = [k \in Sizes |-> Committed.freeSpans[k] \ {x \in NextOf(me) : Committed.spans[x].numPages = k}]
      /\ cachedFreePages' = Committed.cachedFreePages - (Atomic!MergedEnd(me) - Atomic!End(me))
      /\ DOMAIN spans' = DOMAIN Committed.spans \ NextOf(me)
      /\ spans'[me] = [Committed.spans[me] EXCEPT !.numPages = Atomic!MergedEnd(me) - me, !.isLarge = FALSE]
      /\ \A x \in DOMAIN spans' \ ({me} \cup NextOf(me)) : spans'[x] = Committed.spans[x]
  BY <1>1, <1>3, <1>5 DEF NextDone
<1>8. NextDone(me, NextOf(me))'
  <2>1. NextOf(me)' \subseteq DOMAIN Committed'.spans
    BY <1>2, <1>3, <1>4 DEF NextDone
  <2> QED BY <1>2, <1>4, <1>6, <1>7, <2>1 DEF NextDone
<1> QED BY <1>2, <1>4, <1>6, <1>8 DEF Underway

(* The span that precedes is what it was, whatever became of the one that  *)
(* follows.                                                                *)
LEMMA PrevAsBefore ==
  ASSUME StepInv, Underway, op.at = "prev"
  PROVE  /\ me \in DOMAIN spans /\ me \in DOMAIN Committed.spans /\ me \notin NextOf(me)
         /\ me \in Nat /\ Atomic!MergedEnd(me) \in Nat /\ End(me) = Atomic!MergedEnd(me)
         /\ spans[me].numPages = Atomic!MergedEnd(me) - me
         /\ spans[me].inFreeList = FALSE /\ spans[me].isLarge = FALSE
         /\ spans[me].originAddr = Committed.spans[me].originAddr
         /\ spans[me].originPages = Committed.spans[me].originPages
         /\ Committed.spans[me] \in SpanRecord /\ Committed.spans[me].inFreeList = FALSE
         /\ (me - 1) \in DOMAIN pageMap =>
              /\ pageMap[me - 1] = Committed.pageMap[me - 1]
              /\ pageMap[me - 1] \in DOMAIN spans /\ pageMap[me - 1] < me
              /\ pageMap[me - 1] \notin NextOf(me)
              /\ spans[pageMap[me - 1]] = Committed.spans[pageMap[me - 1]]
         /\ PrevMergeable(me) <=> Atomic!PrevMergeable(me)
<1>1. NextDone(me, NextOf(me)) /\ SamePages
  BY DEF Underway
<1>2. me \in DOMAIN spans /\ me \in DOMAIN Committed.spans /\ Loose(me)
  BY <1>1 DEF NextDone, Freed, StepInv, OpExact, Loose
<1>3. /\ me \in Nat /\ Committed.spans[me] \in SpanRecord
      /\ Committed.spans[me].numPages \in Nat \ {0}
      /\ Atomic!End(me) = me + Committed.spans[me].numPages
      /\ End(me) \in Nat /\ End(me) = me + spans[me].numPages /\ spans[me].numPages \in Nat
      /\ spans[me] \in SpanRecord
  BY <1>2, BeforeTyped, SpanAt
<1>4. \A x \in NextOf(me) : x = Atomic!End(me) /\ x # me
  BY <1>3 DEF NextOf
<1>5. /\ spans[me] = [Committed.spans[me] EXCEPT !.numPages = Atomic!MergedEnd(me) - me, !.isLarge = FALSE]
      /\ Committed.spans[me].inFreeList = FALSE
  BY <1>1, <1>3 DEF NextDone, Freed, SpanRecord
<1>6. /\ spans[me].numPages = Atomic!MergedEnd(me) - me
      /\ spans[me].inFreeList = FALSE /\ spans[me].isLarge = FALSE
      /\ spans[me].originAddr = Committed.spans[me].originAddr
      /\ spans[me].originPages = Committed.spans[me].originPages
  BY <1>3, <1>5 DEF SpanRecord
<1>7. Atomic!MergedEnd(me) \in Nat /\ End(me) = Atomic!MergedEnd(me)
  <2>1. Atomic!MergedEnd(me) \in Nat
    <3>1. CASE Atomic!NextMergeable(me)
      <4>1. PICK x : x = Atomic!End(me)
        OBVIOUS
      <4>2. x \in DOMAIN Committed.spans /\ Atomic!MergedEnd(me) = Atomic!End(x)
        BY <1>1, <3>1, <4>1 DEF Atomic!MergedEnd, NextDone, NextOf
      <4> QED BY <4>2, BeforeTyped
    <3>2. CASE ~ Atomic!NextMergeable(me)
      BY <1>3, <3>2 DEF Atomic!MergedEnd
    <3> QED BY <3>1, <3>2
  <2> QED BY <1>3, <1>6, <2>1
<1>8. me \notin NextOf(me)
  BY <1>4
<1>9. ASSUME (me - 1) \in DOMAIN pageMap
      PROVE  /\ pageMap[me - 1] = Committed.pageMap[me - 1]
             /\ pageMap[me - 1] \in DOMAIN spans /\ pageMap[me - 1] < me
             /\ pageMap[me - 1] \notin NextOf(me)
             /\ spans[pageMap[me - 1]] = Committed.spans[pageMap[me - 1]]
  <2>1. pageMap[me - 1] = Committed.pageMap[me - 1]
    BY <1>1, <1>3, <1>9 DEF NextDone, MapOutside
  <2>2. PICK x : x = pageMap[me - 1]
    OBVIOUS
  <2>3. x \in DOMAIN spans /\ (me - 1) \in PagesOf(x)
    BY <1>9, <2>2 DEF StepInv, MapSound, Recorded
  <2>4. x \in Nat /\ x < me
    BY <1>3, <2>3, SpanAt
  <2>5. x \notin NextOf(me) /\ x # me
    BY <1>3, <1>4, <2>4
  <2>6. spans[x] = Committed.spans[x]
    BY <1>1, <2>3, <2>5 DEF NextDone
  <2> QED BY <2>1, <2>2, <2>3, <2>4, <2>5, <2>6
<1>10. PrevMergeable(me) <=> Atomic!PrevMergeable(me)
  <2>1. DOMAIN pageMap = DOMAIN Committed.pageMap
    BY <1>1 DEF SamePages
  <2>2. CASE (me - 1) \notin DOMAIN pageMap
    BY <2>1, <2>2 DEF PrevMergeable, Atomic!PrevMergeable
  <2>3. CASE (me - 1) \in DOMAIN pageMap
    <3>1. PICK x : x = pageMap[me - 1]
      OBVIOUS
    <3>2. /\ x = Committed.pageMap[me - 1] /\ x \in DOMAIN spans /\ x \notin NextOf(me)
          /\ spans[x] = Committed.spans[x]
      BY <1>9, <2>3, <3>1
    <3>3. Removable(x) <=> Atomic!Removable(x)
      <4>1. spans[x].numPages \in Sizes
        BY <3>2, SpanAt
      <4> QED BY <1>1, <3>2, <4>1 DEF Removable, Atomic!Removable, NextDone
    <3>4. End(x) = Atomic!End(x)
      BY <3>2 DEF End, Atomic!End
    <3> QED BY <1>6, <2>1, <3>1, <3>2, <3>3, <3>4 DEF PrevMergeable, Atomic!PrevMergeable
  <2> QED BY <2>2, <2>3
<1> QED BY <1>2, <1>3, <1>5, <1>6, <1>7, <1>8, <1>9, <1>10

(* The previous span absorbs exactly when PageCache says so.               *)
LEMMA LookPrevUnderway ==
  ASSUME StepInv, Underway, LookPrev
  PROVE  Underway' /\ Committed' = Committed
<1>1. op.at = "prev" /\ running
  BY OpAt DEF LookPrev
<1>2. /\ me \in DOMAIN spans /\ me \in DOMAIN Committed.spans /\ me \notin NextOf(me)
      /\ me \in Nat /\ Atomic!MergedEnd(me) \in Nat /\ End(me) = Atomic!MergedEnd(me)
      /\ spans[me].numPages = Atomic!MergedEnd(me) - me
      /\ spans[me].inFreeList = FALSE /\ spans[me].isLarge = FALSE
      /\ spans[me].originAddr = Committed.spans[me].originAddr
      /\ spans[me].originPages = Committed.spans[me].originPages
      /\ Committed.spans[me] \in SpanRecord /\ Committed.spans[me].inFreeList = FALSE
      /\ (me - 1) \in DOMAIN pageMap =>
           /\ pageMap[me - 1] = Committed.pageMap[me - 1]
           /\ pageMap[me - 1] \in DOMAIN spans /\ pageMap[me - 1] < me
           /\ pageMap[me - 1] \notin NextOf(me)
           /\ spans[pageMap[me - 1]] = Committed.spans[pageMap[me - 1]]
      /\ PrevMergeable(me) <=> Atomic!PrevMergeable(me)
  BY <1>1, PrevAsBefore
<1>3. NextDone(me, NextOf(me)) /\ SamePages
  BY <1>1 DEF Underway
<1>4. /\ Freed(me) /\ ~ Atomic!ReturnDirect(me) /\ NextOf(me) \subseteq DOMAIN Committed.spans
      /\ freeSpans = [k \in Sizes |-> Committed.freeSpans[k] \ {x \in NextOf(me) : Committed.spans[x].numPages = k}]
      /\ cachedFreePages = Committed.cachedFreePages - (Atomic!MergedEnd(me) - Atomic!End(me))
      /\ DOMAIN spans = DOMAIN Committed.spans \ NextOf(me)
      /\ \A x \in DOMAIN spans \ ({me} \cup NextOf(me)) : spans[x] = Committed.spans[x]
      /\ MapOutside(me, Atomic!MergedEnd(me))
  BY <1>3 DEF NextDone
<1>5. /\ Committed.freeSpans \in [Sizes -> SUBSET Pages] /\ Committed.cachedFreePages \in Nat
      /\ Committed.spans[me].numPages \in Nat \ {0}
      /\ Atomic!End(me) = me + Committed.spans[me].numPages
      /\ Atomic!Sizes = Sizes
  BY <1>2, BeforeTyped DEF Atomic!Sizes, Sizes
<1>6. CASE ~ PrevMergeable(me)
  <2>1. Goto("place") /\ UNCHANGED <<cacheVars, held>>
    BY <1>6 DEF LookPrev
  <2>2. /\ op'.at = "place" /\ me' = me /\ Committed' = Committed /\ before' = before
        /\ UNCHANGED <<spans, freeSpans, pageMap, systemAllocs, cachedFreePages, osPages, running>>
    BY <1>1, <2>1, StepOn DEF Phases, cacheVars
  <2>3. /\ Atomic!TypeOK'
        /\ Atomic!ReturnDirect(me)' <=> Atomic!ReturnDirect(me)
        /\ Atomic!MergedEnd(me)' = Atomic!MergedEnd(me)
        /\ Atomic!MergedStart(me)' = Atomic!MergedStart(me)
        /\ Atomic!MergedSize(me)' = Atomic!MergedSize(me)
        /\ Atomic!Absorbed(me)' = Atomic!Absorbed(me)
        /\ Atomic!FreeSpansAfterMerge(me)' = Atomic!FreeSpansAfterMerge(me)
        /\ Atomic!CountAfterMerge(me)' = Atomic!CountAfterMerge(me)
    BY <1>1, <2>2, CommittedKept DEF Underway
  <2>4. /\ Atomic!Absorbed(me) = NextOf(me) /\ Atomic!MergedStart(me) = me
        /\ Atomic!MergedSize(me) = Atomic!MergedEnd(me) - me
    BY <1>2, <1>6 DEF Atomic!Absorbed, NextOf, Atomic!MergedStart, Atomic!MergedSize
  <2>5. freeSpans = Atomic!FreeSpansAfterMerge(me)
    BY <1>4, <1>5, <2>4 DEF Atomic!FreeSpansAfterMerge
  <2>6. cachedFreePages = Atomic!CountAfterMerge(me)
    BY <1>2, <1>4, <1>5, <2>4 DEF Atomic!CountAfterMerge
  <2>7. spans[me] = [Committed.spans[me] EXCEPT !.numPages = Atomic!MergedSize(me),
                                                !.inFreeList = FALSE, !.isLarge = FALSE]
    <3>1. PICK r : r = [Committed.spans[me] EXCEPT !.numPages = Atomic!MergedSize(me),
                                                   !.inFreeList = FALSE, !.isLarge = FALSE]
      OBVIOUS
    <3>2. spans[me] \in SpanRecord /\ spans[me].numPages \in Sizes /\ spans[me].numPages = Atomic!MergedSize(me)
      BY <1>2, <2>4, SpanAt
    <3>3. /\ r \in SpanRecord /\ r.numPages = Atomic!MergedSize(me) /\ r.inFreeList = FALSE
          /\ r.isLarge = FALSE /\ r.originAddr = Committed.spans[me].originAddr
          /\ r.originPages = Committed.spans[me].originPages
      BY <1>2, <3>1, <3>2 DEF SpanRecord
    <3>4. r = spans[me]
      BY <1>2, <3>2, <3>3, SameRecord
    <3> QED BY <3>1, <3>4
  <2>8. ({me} \cup Atomic!Absorbed(me)) \ {me} = NextOf(me)
    BY <1>2, <2>4
  <2>9. Merged(me)
    BY <1>2, <1>4, <2>4, <2>5, <2>6, <2>7, <2>8 DEF Merged, BothDone
  <2>10. Merged(me)' /\ SamePages'
    <3>1. Freed(me)' /\ SamePages' /\ MapOutside(Atomic!MergedStart(me), Atomic!MergedEnd(me))'
      BY <1>3, <1>4, <2>2, <2>3, <2>4 DEF Freed, SameRuns, SamePages, MapOutside
    <3> QED BY <1>4, <2>2, <2>3, <2>9, <3>1 DEF Merged, BothDone
  <2>11. me \in DOMAIN Committed'.spans
    BY <1>2, <2>2
  <2> QED BY <2>2, <2>3, <2>10, <2>11 DEF Underway
<1>7. CASE PrevMergeable(me)
  <2>0. PICK x : x = pageMap[me - 1]
    OBVIOUS
  <2>1. Absorb(x, x, me, "redirectPrev")
    BY <1>7, <2>0 DEF LookPrev
  <2>2. /\ (me - 1) \in DOMAIN pageMap /\ x # me /\ spans[x].inFreeList
        /\ spans[x].originAddr = spans[me].originAddr /\ Removable(x) /\ End(x) = me
    BY <1>7, <2>0 DEF PrevMergeable
  <2>3. /\ x = Committed.pageMap[me - 1] /\ x \in DOMAIN spans /\ x < me /\ x \notin NextOf(me)
        /\ spans[x] = Committed.spans[x] /\ x \in DOMAIN Committed.spans
    BY <1>2, <1>4, <2>0, <2>2
  <2>4. "redirectPrev" \in Phases
    BY DEF Phases
  <2>5. /\ DOMAIN spans' = DOMAIN spans /\ op' \in OpRecord
        /\ \A t \in DOMAIN spans : t \notin {x, me} => spans'[t] = spans[t]
        /\ ~ spans'[x].inFreeList /\ ~ spans[x].isLarge
        /\ spans'[x].isLarge = spans[x].isLarge
        /\ spans'[x].originAddr = spans[x].originAddr
        /\ spans'[x].originPages = spans[x].originPages
        /\ spans'[x].numPages = spans[x].numPages + spans[me].numPages
        /\ op'.at = "redirectPrev" /\ op'.other = x /\ me' = me /\ StepTypeOK' /\ SameMapping(x, me)
    <3>1. /\ DOMAIN spans' = DOMAIN spans /\ op' \in OpRecord /\ ~ spans[x].isLarge
          /\ \A t \in DOMAIN spans : t \notin {x, me} => spans'[t] = spans[t]
          /\ \A t \in {x, me} : /\ ~ spans'[t].inFreeList
                                /\ spans'[t].isLarge = spans[t].isLarge
                                /\ spans'[t].originAddr = spans[t].originAddr
                                /\ spans'[t].originPages = spans[t].originPages
          /\ spans'[x].numPages = spans[x].numPages + spans[me].numPages
          /\ op'.at = "redirectPrev" /\ op'.other = x /\ me' = me /\ StepTypeOK' /\ SameMapping(x, me)
      BY <1>1, <1>2, <2>1, <2>2, <2>3, <2>4, AbsorbFacts
    <3> QED BY <3>1
  <2>6. /\ freeSpans' = [freeSpans EXCEPT ![spans[x].numPages] = @ \ {x}]
        /\ cachedFreePages' = cachedFreePages - spans[x].numPages
        /\ UNCHANGED <<pageMap, systemAllocs, osPages, running, before>>
    BY <2>1 DEF Absorb
  <2>7. Committed' = Committed
    BY <1>1, <2>5, <2>6, CommittedKept
  <2>8. /\ Atomic!TypeOK' /\ NextOf(me)' = NextOf(me)
        /\ Atomic!ReturnDirect(me)' <=> Atomic!ReturnDirect(me)
        /\ Atomic!PrevMergeable(me)' <=> Atomic!PrevMergeable(me)
        /\ Atomic!MergedEnd(me)' = Atomic!MergedEnd(me)
        /\ Atomic!MergedStart(me)' = Atomic!MergedStart(me)
        /\ Atomic!MergedSize(me)' = Atomic!MergedSize(me)
        /\ Atomic!Absorbed(me)' = Atomic!Absorbed(me)
        /\ Atomic!FreeSpansAfterMerge(me)' = Atomic!FreeSpansAfterMerge(me)
        /\ Atomic!CountAfterMerge(me)' = Atomic!CountAfterMerge(me)
    BY <1>1, <2>5, <2>6, CommittedKept DEF Underway
  <2>9. /\ Atomic!Absorbed(me) = NextOf(me) \cup {x} /\ Atomic!MergedStart(me) = x
        /\ Atomic!MergedSize(me) = Atomic!MergedEnd(me) - x /\ Atomic!PrevMergeable(me)
    BY <1>2, <1>7, <2>3 DEF Atomic!Absorbed, NextOf, Atomic!MergedStart, Atomic!MergedSize
  <2>10. /\ x \in Nat /\ spans[x].numPages \in Nat \ {0} /\ me = x + spans[x].numPages
         /\ spans[x].numPages \in Sizes /\ spans[x] \in SpanRecord
    BY <2>2, <2>3, SpanAt
  <2>11. spans'[x].numPages = Atomic!MergedSize(me)
    BY <1>2, <2>5, <2>9, <2>10
  <2>12. spans'[x] = [Committed.spans[x] EXCEPT !.numPages = Atomic!MergedSize(me),
                                                !.inFreeList = FALSE, !.isLarge = FALSE]
    <3>1. PICK r : r = [Committed.spans[x] EXCEPT !.numPages = Atomic!MergedSize(me),
                                                  !.inFreeList = FALSE, !.isLarge = FALSE]
      OBVIOUS
    <3>2. /\ spans'[x] \in SpanRecord /\ spans'[x].numPages \in Sizes
          /\ spans'[x].inFreeList = FALSE /\ spans'[x].isLarge = FALSE
      <4>1. spans'[x] \in SpanRecord
        BY <2>3, <2>5 DEF StepTypeOK, TypeOK
      <4> QED BY <2>5, <4>1 DEF SpanRecord
    <3>3. /\ r \in SpanRecord /\ r.numPages = Atomic!MergedSize(me) /\ r.inFreeList = FALSE
          /\ r.isLarge = FALSE /\ r.originAddr = spans[x].originAddr
          /\ r.originPages = spans[x].originPages
      BY <2>3, <2>10, <2>11, <3>1, <3>2 DEF SpanRecord
    <3>4. r = spans'[x]
      BY <2>5, <2>11, <3>2, <3>3, SameRecord, ZenonT(30)
    <3> QED BY <3>1, <3>4
  <2>13. freeSpans' = Atomic!FreeSpansAfterMerge(me)
    <3>1. freeSpans' = [k \in Sizes |-> freeSpans[k] \ (IF k = spans[x].numPages THEN {x} ELSE {})]
      BY <1>4, <2>6
    <3>2. Atomic!FreeSpansAfterMerge(me) =
            [k \in Sizes |-> Committed.freeSpans[k] \ {y \in NextOf(me) \cup {x} : Committed.spans[y].numPages = k}]
      BY <1>5, <2>9 DEF Atomic!FreeSpansAfterMerge
    <3> QED BY <1>4, <2>3, <3>1, <3>2
  <2>14. cachedFreePages' = Atomic!CountAfterMerge(me)
    <3>1. PICK e : e = Atomic!MergedEnd(me)
      OBVIOUS
    <3>2. PICK n : n = spans[x].numPages
      OBVIOUS
    <3>3. PICK c : c = Committed.spans[me].numPages
      OBVIOUS
    <3>4. PICK b : b = Committed.cachedFreePages
      OBVIOUS
    <3>5. PICK m : m = me
      OBVIOUS
    <3>6. e \in Nat /\ n \in Nat /\ c \in Nat /\ b \in Nat /\ m \in Nat /\ x \in Nat /\ m = x + n
      BY <1>2, <1>5, <2>10, <3>1, <3>2, <3>3, <3>4, <3>5
    <3>7. cachedFreePages = b - (e - (m + c))
      BY <1>4, <1>5, <3>1, <3>3, <3>4, <3>5
    <3>8. cachedFreePages' = (b - (e - (m + c))) - n
      BY <2>6, <3>2, <3>7
    <3>9. (b - (e - (m + c))) - n = b - ((e - x) - c)
      BY <3>6
    <3>10. Atomic!CountAfterMerge(me) = b - ((e - x) - c)
      BY <2>9, <3>1, <3>3, <3>4 DEF Atomic!CountAfterMerge
    <3> QED BY <3>8, <3>9, <3>10
  <2>15. /\ DOMAIN spans' = DOMAIN Committed.spans \ NextOf(me)
         /\ \A t \in DOMAIN spans' \ ({me} \cup Atomic!Absorbed(me)) : spans'[t] = Committed.spans[t]
         /\ spans'[x].originAddr = Committed.spans[me].originAddr
         /\ spans'[x].originPages = Committed.spans[me].originPages
    BY <1>2, <1>4, <2>5, <2>9 DEF SameMapping
  <2>16. BothDone(me, NextOf(me))' /\ SamePages'
    <3>1. Freed(me)' /\ ~ Atomic!ReturnDirect(me)' /\ SamePages'
      BY <1>3, <1>4, <2>5, <2>6, <2>7, <2>8 DEF Freed, SameRuns, SamePages
    <3>2. MapOutside(Atomic!MergedStart(me), Atomic!MergedEnd(me))'
      <4>1. MapOutside(x, Atomic!MergedEnd(me))
        <5>1. MapOutside(me, Atomic!MergedEnd(me))
          BY <1>4
        <5>2. me .. (Atomic!MergedEnd(me) - 1) \subseteq x .. (Atomic!MergedEnd(me) - 1)
          <6>1. x \in Nat /\ x < me /\ me \in Nat /\ Atomic!MergedEnd(me) \in Nat
            BY <1>2, <2>3, <2>10
          <6> QED BY <6>1
        <5> QED BY <5>1, <5>2, Zenon DEF MapOutside
      <4>2. /\ Committed' = Committed /\ pageMap' = pageMap /\ Atomic!MergedStart(me)' = x
            /\ Atomic!MergedEnd(me)' = Atomic!MergedEnd(me)
        BY <2>5, <2>6, <2>7, <2>8, <2>9
      <4> QED BY <4>1, <4>2 DEF MapOutside
    <3>3. Atomic!Absorbed(me)' \subseteq DOMAIN Committed'.spans
      BY <1>4, <2>3, <2>7, <2>8, <2>9
    <3> QED BY <2>5, <2>7, <2>8, <2>9, <2>12, <2>13, <2>14, <2>15, <3>1, <3>2, <3>3 DEF BothDone
  <2> QED BY <2>5, <2>7, <2>8, <2>9, <2>16 DEF Underway
<1> QED BY <1>6, <1>7

(* The run that the merges leave behind.                                   *)
LEMMA MergedTyped ==
  ASSUME StepInv, Underway, NEW s, NEW gone, BothDone(s, gone),
         Atomic!MergedStart(s) \in DOMAIN spans
  PROVE  /\ s \in DOMAIN Committed.spans /\ Atomic!MergedStart(s) \in DOMAIN Committed.spans
         /\ Atomic!MergedStart(s) \in Nat /\ Atomic!MergedEnd(s) \in Nat
         /\ spans[Atomic!MergedStart(s)].numPages = Atomic!MergedSize(s)
         /\ Atomic!MergedSize(s) = Atomic!MergedEnd(s) - Atomic!MergedStart(s)
         /\ Atomic!MergedSize(s) \in Sizes
         /\ End(Atomic!MergedStart(s)) = Atomic!MergedEnd(s)
         /\ PagesOf(Atomic!MergedStart(s)) = Atomic!MergedStart(s) .. (Atomic!MergedEnd(s) - 1)
<1>1. /\ s \in DOMAIN Committed.spans /\ Atomic!Absorbed(s) \subseteq DOMAIN Committed.spans
      /\ spans[Atomic!MergedStart(s)] =
           [Committed.spans[Atomic!MergedStart(s)] EXCEPT !.numPages = Atomic!MergedSize(s),
                                                          !.inFreeList = FALSE, !.isLarge = FALSE]
  BY DEF BothDone, Freed
<1>2. Atomic!MergedStart(s) \in DOMAIN Committed.spans
  BY <1>1 DEF Atomic!MergedStart, Atomic!Absorbed
<1>3. Atomic!MergedEnd(s) \in Nat
  <2>1. CASE Atomic!NextMergeable(s)
    <3>1. PICK x : x = Atomic!End(s)
      OBVIOUS
    <3>2. x \in DOMAIN Committed.spans /\ Atomic!MergedEnd(s) = Atomic!End(x)
      BY <1>1, <2>1, <3>1 DEF Atomic!MergedEnd, Atomic!Absorbed
    <3> QED BY <3>2, BeforeTyped
  <2>2. CASE ~ Atomic!NextMergeable(s)
    BY <1>1, <2>2, BeforeTyped DEF Atomic!MergedEnd
  <2> QED BY <2>1, <2>2
<1>4. PICK h : h = Atomic!MergedStart(s)
  OBVIOUS
<1>5. Committed.spans[h] \in SpanRecord
  BY <1>2, <1>4, BeforeTyped
<1>6. spans[h].numPages = Atomic!MergedSize(s)
  BY <1>1, <1>4, <1>5 DEF SpanRecord
<1>7. /\ h \in Nat /\ spans[h].numPages \in Sizes /\ spans[h].numPages \in Nat
      /\ End(h) = h + spans[h].numPages /\ PagesOf(h) = h .. (End(h) - 1)
  BY <1>4, SpanAt
<1>8. Atomic!MergedSize(s) = Atomic!MergedEnd(s) - h
  BY <1>4 DEF Atomic!MergedSize
<1>9. End(h) = Atomic!MergedEnd(s)
  BY <1>3, <1>6, <1>7, <1>8
<1> QED BY <1>1, <1>2, <1>3, <1>4, <1>6, <1>7, <1>8, <1>9

(* The pages of the span given back now lead to the run it has joined.     *)
LEMMA RedirectPrevUnderway ==
  ASSUME StepInv, Underway, RedirectPrev
  PROVE  Underway' /\ Committed' = Committed
<1>1. /\ op.at = "redirectPrev" /\ pageMap' = redirectPages(me, op.other) /\ Goto("deletePrev")
      /\ UNCHANGED <<spans, freeSpans, systemAllocs, cachedFreePages, osPages, running, held>>
  BY DEF RedirectPrev, MapStep
<1>2. /\ op'.at = "deletePrev" /\ me' = me /\ op'.other = op.other
      /\ Committed' = Committed /\ before' = before
  BY <1>1, StepOn DEF Phases
<1>3. /\ BothDone(me, NextOf(me)) /\ SamePages /\ Atomic!PrevMergeable(me)
      /\ op.other = Atomic!MergedStart(me)
  BY <1>1 DEF Underway
<1>4. /\ Atomic!TypeOK' /\ NextOf(me)' = NextOf(me)
      /\ Atomic!ReturnDirect(me)' <=> Atomic!ReturnDirect(me)
      /\ Atomic!PrevMergeable(me)' <=> Atomic!PrevMergeable(me)
      /\ Atomic!MergedEnd(me)' = Atomic!MergedEnd(me)
      /\ Atomic!MergedStart(me)' = Atomic!MergedStart(me)
      /\ Atomic!MergedSize(me)' = Atomic!MergedSize(me)
      /\ Atomic!Absorbed(me)' = Atomic!Absorbed(me)
      /\ Atomic!FreeSpansAfterMerge(me)' = Atomic!FreeSpansAfterMerge(me)
      /\ Atomic!CountAfterMerge(me)' = Atomic!CountAfterMerge(me)
  BY <1>1, <1>2, CommittedKept DEF Underway
<1>5. /\ me \in DOMAIN spans /\ op.other \in DOMAIN spans /\ op.other < me /\ End(op.other) = End(me)
      /\ MapsTo(PagesOf(me), me)
  BY <1>1 DEF StepInv, OpExact, Loose
<1>6. /\ me \in Nat /\ op.other \in Nat /\ End(me) \in Nat /\ PagesOf(me) = me .. (End(me) - 1)
  BY <1>5, SpanAt
<1>7. End(op.other) = Atomic!MergedEnd(me)
  BY <1>3, <1>5, MergedTyped
<1>8. PagesOf(me) \subseteq op.other .. (Atomic!MergedEnd(me) - 1)
  BY <1>5, <1>6, <1>7
<1>9. /\ DOMAIN pageMap' = DOMAIN pageMap
      /\ \A p \in DOMAIN pageMap : p \notin PagesOf(me) => pageMap'[p] = pageMap[p]
  <2>1. PagesOf(me) \subseteq DOMAIN pageMap
    BY <1>5 DEF MapsTo
  <2> QED BY <1>1, <2>1 DEF redirectPages
<1>10. MapOutside(Atomic!MergedStart(me), Atomic!MergedEnd(me))' /\ SamePages'
  <2>1. MapOutside(Atomic!MergedStart(me), Atomic!MergedEnd(me))
    BY <1>3 DEF BothDone
  <2>2. \A p \in DOMAIN pageMap' :
          p \notin op.other .. (Atomic!MergedEnd(me) - 1) => pageMap'[p] = Committed.pageMap[p]
    BY <1>3, <1>8, <1>9, <2>1 DEF MapOutside
  <2> QED BY <1>2, <1>3, <1>4, <1>9, <2>2 DEF MapOutside, SamePages
<1>11. BothDone(me, NextOf(me))'
  BY <1>1, <1>2, <1>3, <1>4, <1>10 DEF BothDone, Freed, SameRuns
<1> QED BY <1>2, <1>3, <1>4, <1>10, <1>11 DEF Underway

(* The merged run is the operation's span from here on.                    *)
LEMMA DeletePrevUnderway ==
  ASSUME StepInv, Underway, DeletePrev
  PROVE  Underway' /\ Committed' = Committed
<1>0. PICK s : s = me
  OBVIOUS
<1>1. /\ op.at = "deletePrev" /\ spans' = Without({s})
      /\ op' = [op EXCEPT !.at = "place", !.span = op.other]
      /\ UNCHANGED <<freeSpans, pageMap, systemAllocs, cachedFreePages, osPages, running, before>>
  BY <1>0 DEF DeletePrev
<1>2. op'.at = "place" /\ me' = op.other
  BY <1>1, OpAt DEF OpRecord, me
<1>3. /\ BothDone(s, NextOf(s)) /\ SamePages /\ Atomic!PrevMergeable(s)
      /\ op.other = Atomic!MergedStart(s) /\ op.other # s /\ op.other \in DOMAIN spans
  BY <1>0, <1>1 DEF Underway, StepInv, OpExact, Loose
<1>4. /\ Committed' = Committed /\ Atomic!TypeOK'
      /\ Atomic!ReturnDirect(s)' <=> Atomic!ReturnDirect(s)
      /\ Atomic!MergedEnd(s)' = Atomic!MergedEnd(s)
      /\ Atomic!MergedStart(s)' = Atomic!MergedStart(s)
      /\ Atomic!MergedSize(s)' = Atomic!MergedSize(s)
      /\ Atomic!Absorbed(s)' = Atomic!Absorbed(s)
      /\ Atomic!FreeSpansAfterMerge(s)' = Atomic!FreeSpansAfterMerge(s)
      /\ Atomic!CountAfterMerge(s)' = Atomic!CountAfterMerge(s)
  BY <1>1, <1>2, CommittedKept DEF Underway
<1>5. /\ DOMAIN spans' = DOMAIN spans \ {s} /\ \A x \in DOMAIN spans' : spans'[x] = spans[x]
  BY <1>1 DEF Without
<1>6. Atomic!Absorbed(s) = NextOf(s) \cup {op.other}
  BY <1>3 DEF Atomic!Absorbed, NextOf, Atomic!MergedStart
<1>7. op.other \notin NextOf(s)
  BY <1>3 DEF BothDone
<1>8. DOMAIN spans' = DOMAIN Committed.spans \ (({s} \cup Atomic!Absorbed(s)) \ {op.other})
  BY <1>3, <1>5, <1>6, <1>7 DEF BothDone
<1>9. /\ Freed(s)' /\ ~ Atomic!ReturnDirect(s)' /\ SamePages'
      /\ MapOutside(Atomic!MergedStart(s), Atomic!MergedEnd(s))'
  BY <1>1, <1>3, <1>4 DEF BothDone, Freed, SameRuns, SamePages, MapOutside
<1>10. /\ freeSpans' = Atomic!FreeSpansAfterMerge(s) /\ cachedFreePages' = Atomic!CountAfterMerge(s)
       /\ Atomic!Absorbed(s) \subseteq DOMAIN Committed.spans
       /\ spans'[op.other] =
            [Committed.spans[op.other] EXCEPT !.numPages = Atomic!MergedSize(s),
                                              !.inFreeList = FALSE, !.isLarge = FALSE]
       /\ spans'[op.other].originAddr = Committed.spans[s].originAddr
       /\ spans'[op.other].originPages = Committed.spans[s].originPages
       /\ \A x \in DOMAIN spans' \ ({s} \cup Atomic!Absorbed(s)) : spans'[x] = Committed.spans[x]
  <2>1. op.other \in DOMAIN spans'
    BY <1>3, <1>5
  <2> QED BY <1>1, <1>3, <1>5, <2>1 DEF BothDone
<1>11. Merged(s)'
  BY <1>2, <1>3, <1>4, <1>8, <1>9, <1>10 DEF Merged, BothDone
<1>12. s \in DOMAIN Committed'.spans
  BY <1>3, <1>4 DEF BothDone, Freed
<1> QED BY <1>2, <1>4, <1>9, <1>11, <1>12 DEF Underway

(* The budget is judged by the merged run, whoever asks.                   *)
LEMMA OverLimitIs ==
  ASSUME StepInv, Underway, op.at = "place", NEW s, Merged(s)
  PROVE  OverLimit <=> Atomic!OverBudget(s)
<1>1. /\ me = Atomic!MergedStart(s) /\ BothDone(s, ({s} \cup Atomic!Absorbed(s)) \ {me})
      /\ me \in DOMAIN spans
  BY DEF Merged, StepInv, OpExact, Loose
<1>2. spans[me].numPages = Atomic!MergedSize(s)
  BY <1>1, MergedTyped
<1>3. /\ cachedFreePages = Atomic!CountAfterMerge(s)
      /\ spans[me].originAddr = Committed.spans[s].originAddr
      /\ spans[me].originPages = Committed.spans[s].originPages
  BY <1>1 DEF BothDone
<1> QED BY <1>1, <1>2, <1>3 DEF OverLimit, Atomic!OverBudget, OwnsOrigin

(* The merged run is not to be kept.                                       *)
LEMMA PlaceOverUnderway ==
  ASSUME StepInv, Underway, PlaceOver
  PROVE  Underway' /\ Committed' = Committed
<1>1. /\ op.at = "place" /\ OverLimit /\ Goto("unregister")
      /\ UNCHANGED <<spans, freeSpans, pageMap, systemAllocs, cachedFreePages, osPages, running>>
  BY DEF PlaceOver, cacheVars
<1>2. /\ op'.at = "unregister" /\ me' = me /\ Committed' = Committed /\ before' = before
  BY <1>1, StepOn DEF Phases
<1>3. PICK s \in DOMAIN Committed.spans : SamePages /\ Merged(s)
  BY <1>1 DEF Underway
<1>4. Atomic!OverBudget(s)
  BY <1>1, <1>3, OverLimitIs
<1>5. /\ Atomic!TypeOK'
      /\ Atomic!ReturnDirect(s)' <=> Atomic!ReturnDirect(s)
      /\ Atomic!OverBudget(s)' <=> Atomic!OverBudget(s)
      /\ Atomic!MergedEnd(s)' = Atomic!MergedEnd(s)
      /\ Atomic!MergedStart(s)' = Atomic!MergedStart(s)
      /\ Atomic!MergedSize(s)' = Atomic!MergedSize(s)
      /\ Atomic!Absorbed(s)' = Atomic!Absorbed(s)
      /\ Atomic!FreeSpansAfterMerge(s)' = Atomic!FreeSpansAfterMerge(s)
      /\ Atomic!CountAfterMerge(s)' = Atomic!CountAfterMerge(s)
  BY <1>1, <1>2, CommittedKept DEF Underway
<1>6. Merged(s)' /\ SamePages'
  BY <1>1, <1>2, <1>3, <1>5 DEF Merged, BothDone, Freed, SameRuns, MapOutside, SamePages
<1>7. s \in DOMAIN Committed'.spans
  BY <1>2, <1>3
<1> QED BY <1>2, <1>4, <1>5, <1>6, <1>7 DEF Underway

(* The pages of the run leave the map.                                     *)
LEMMA UnregisterUnderway ==
  ASSUME StepInv, Underway, Unregister
  PROVE  Underway' /\ Committed' = Committed
<1>1. /\ op.at = "unregister" /\ pageMap' = unregisterPages(pageMap, me, spans[me].numPages)
      /\ Goto("release")
      /\ UNCHANGED <<spans, freeSpans, systemAllocs, cachedFreePages, osPages, running, held>>
  BY DEF Unregister, Unregistered, MapStep
<1>2. /\ op'.at = "release" /\ me' = me /\ Committed' = Committed /\ before' = before
  BY <1>1, StepOn DEF Phases
<1>3. /\ DOMAIN pageMap' = DOMAIN pageMap \ PagesOf(me)
      /\ \A p \in DOMAIN pageMap' : pageMap'[p] = pageMap[p]
  BY <1>1 DEF unregisterPages, PagesOf
<1>4. PagesOf(me)' = PagesOf(me) /\ End(me)' = End(me)
  BY <1>1, <1>2 DEF PagesOf, End
<1>5. DOMAIN pageMap' = DOMAIN Committed'.pageMap \ PagesOf(me)'
  BY <1>1, <1>2, <1>3, <1>4 DEF Underway, SamePages
<1>6. Atomic!TypeOK'
  BY <1>1, <1>2, CommittedKept DEF Underway
<1>7. CASE Alone(me) /\ Atomic!ReturnDirect(me) /\ SameMap
  <2>1. Atomic!ReturnDirect(me)' <=> Atomic!ReturnDirect(me)
    <3>1. \A x : Atomic!ReturnDirect(x)' <=> Atomic!ReturnDirect(x)
      BY <1>1, <1>2, CommittedKept
    <3> QED BY <1>2, <3>1
  <2>2. Alone(me)' /\ MapOutside(me, End(me))'
    BY <1>1, <1>2, <1>3, <1>4, <1>7 DEF Alone, Freed, SameBins, SameRuns, MapOutside, SameMap
  <2> QED BY <1>2, <1>5, <1>6, <1>7, <2>1, <2>2 DEF Underway
<1>8. CASE \E s \in DOMAIN Committed.spans : Merged(s) /\ Atomic!OverBudget(s)
  <2>1. PICK s \in DOMAIN Committed.spans : Merged(s) /\ Atomic!OverBudget(s)
    BY <1>8
  <2>2. /\ Atomic!ReturnDirect(s)' <=> Atomic!ReturnDirect(s)
        /\ Atomic!OverBudget(s)' <=> Atomic!OverBudget(s)
        /\ Atomic!MergedEnd(s)' = Atomic!MergedEnd(s)
        /\ Atomic!MergedStart(s)' = Atomic!MergedStart(s)
        /\ Atomic!MergedSize(s)' = Atomic!MergedSize(s)
        /\ Atomic!Absorbed(s)' = Atomic!Absorbed(s)
        /\ Atomic!FreeSpansAfterMerge(s)' = Atomic!FreeSpansAfterMerge(s)
        /\ Atomic!CountAfterMerge(s)' = Atomic!CountAfterMerge(s)
    BY <1>1, <1>2, CommittedKept
  <2>3. MapOutside(Atomic!MergedStart(s), Atomic!MergedEnd(s))'
    BY <1>2, <1>3, <2>1, <2>2 DEF Merged, BothDone, MapOutside
  <2>4. Merged(s)'
    BY <1>1, <1>2, <2>1, <2>2, <2>3 DEF Merged, BothDone, Freed, SameRuns
  <2>5. s \in DOMAIN Committed'.spans
    BY <1>2, <2>1
  <2> QED BY <1>2, <1>5, <1>6, <2>1, <2>2, <2>4, <2>5 DEF Underway
<1> QED BY <1>1, <1>7, <1>8 DEF Underway

-----------------------------------------------------------------------------
(* The steps that end an operation are the steps of PageCache.             *)

(* The cache as it is now is what the next operation begins with.          *)
LEMMA Commits ==
  ASSUME StepInv', op' = Idle
  PROVE  /\ Committed'.spans = spans' /\ Committed'.freeSpans = freeSpans'
         /\ Committed'.pageMap = pageMap' /\ Committed'.systemAllocs = systemAllocs'
         /\ Committed'.cachedFreePages = cachedFreePages' /\ Committed'.osPages = osPages'
         /\ Underway'
<1>1. /\ Committed'.spans = spans' /\ Committed'.freeSpans = freeSpans'
      /\ Committed'.pageMap = pageMap' /\ Committed'.systemAllocs = systemAllocs'
      /\ Committed'.cachedFreePages = cachedFreePages' /\ Committed'.osPages = osPages'
  BY DEF Committed, Now
<1>2. op'.at = "idle"
  BY DEF Idle
<1>3. Atomic!TypeOK'
  BY <1>1 DEF StepInv, StepTypeOK, TypeOK, Atomic!TypeOK, Atomic!SpanRecord, Atomic!Pages, Atomic!Sizes,
              SpanRecord, Pages, Sizes
<1> QED BY <1>1, <1>2, <1>3 DEF Underway

(* A span is handed out: from a bin whole, from a bin with the remainder   *)
(* put back, or from a new mapping.                                        *)
LEMMA HandAtomic ==
  ASSUME StepInv, Underway, Hand, StepInv'
  PROVE  Underway' /\ Atomic!Next
<1>1. /\ op.at = "hand" /\ spans' = [spans EXCEPT ![me].isLarge = op.large] /\ op' = Idle
      /\ UNCHANGED <<freeSpans, pageMap, systemAllocs, cachedFreePages, osPages, running>>
  BY DEF Hand, Unlock
<1>2. /\ Committed'.spans = spans' /\ Committed'.freeSpans = freeSpans'
      /\ Committed'.pageMap = pageMap' /\ Committed'.systemAllocs = systemAllocs'
      /\ Committed'.cachedFreePages = cachedFreePages' /\ Committed'.osPages = osPages'
      /\ Underway'
  BY <1>1, Commits
<1>3. PICK s, n, large : s = me /\ n = op.size /\ large = op.large
  OBVIOUS
<1>4. running /\ running' = running /\ large \in BOOLEAN /\ n \in Nat /\ s \in Nat
  BY <1>1, <1>3, OpAt
<1>5. /\ s \in DOMAIN spans /\ s \in Pages /\ spans[s] \in SpanRecord
      /\ DOMAIN spans' = DOMAIN spans /\ \A x \in DOMAIN spans : x # s => spans'[x] = spans[x]
      /\ spans'[s] = [spans[s] EXCEPT !.isLarge = large]
      /\ spans' = [x \in DOMAIN spans |-> spans'[x]]
  BY <1>1, <1>3, SpanAt DEF StepInv, OpExact, Loose
<1>6. Atomic!Pages = Pages /\ Atomic!Sizes = Sizes
  BY DEF Atomic!Pages, Atomic!Sizes, Pages, Sizes
<1>7. ASSUME NEW m \in Sizes, Atomic!allocateSpan(m, s, large)
      PROVE  Atomic!Next
  <2>1. m \in 0 .. NumPages
    BY PageCacheAssumption DEF Sizes
  <2> QED BY <1>4, <1>5, <1>6, <1>7, <2>1 DEF Atomic!Next
<1>8. CASE FromBin(op.size) /\ Taken(op.size)
  <2>1. /\ n \in Atomic!lowerBound(n) /\ s \in Committed.freeSpans[n] /\ n \in Sizes /\ SameRuns
        /\ s \in DOMAIN Committed.spans
        /\ spans = [Committed.spans EXCEPT ![s].inFreeList = FALSE]
        /\ freeSpans = [Committed.freeSpans EXCEPT ![n] = @ \ {s}]
        /\ cachedFreePages = Committed.cachedFreePages - n /\ SameMap
    BY <1>3, <1>8 DEF FromBin, Taken
  <2>2. spans' = [Committed.spans EXCEPT ![s] = [@ EXCEPT !.inFreeList = FALSE, !.isLarge = large]]
    <3>1. /\ DOMAIN spans = DOMAIN Committed.spans
          /\ \A x \in DOMAIN spans : x # s => spans[x] = Committed.spans[x]
          /\ spans[s] = [Committed.spans[s] EXCEPT !.inFreeList = FALSE]
      BY <2>1
    <3>2. [spans[s] EXCEPT !.isLarge = large]
            = [Committed.spans[s] EXCEPT !.inFreeList = FALSE, !.isLarge = large]
      BY <3>1
    <3> QED BY <1>5, <2>1, <3>1, <3>2
  <2>3. cachedFreePages' = Atomic!CountAfterTake(n, n)
    <3>1. Committed.cachedFreePages \in Nat
      BY BeforeTyped
    <3> QED BY <1>1, <1>4, <2>1, <3>1 DEF Atomic!CountAfterTake
  <2>4. Atomic!TakeExact(n, s, large)
    BY <1>1, <1>2, <2>1, <2>2, <2>3 DEF Atomic!TakeExact, SameRuns, SameMap
  <2>5. n # 0
    BY <2>1, PageCacheAssumption DEF Sizes
  <2>6. Atomic!allocateSpan(n, s, large)
    BY <1>4, <2>1, <2>4, <2>5 DEF Atomic!allocateSpan
  <2> QED BY <1>2, <1>7, <2>1, <2>6
<1>9. CASE \E k \in Sizes :
             /\ FromBin(k) /\ CutOff(k, op.size)
             /\ pageMap = registerPages(RestMapped(k), me, op.size)
  <2>1. PICK k \in Sizes : /\ FromBin(k) /\ CutOff(k, op.size)
                           /\ pageMap = registerPages(RestMapped(k), me, op.size)
    BY <1>9
  <2>2. PICK rest : rest = s + n
    OBVIOUS
  <2>3. /\ k \in Atomic!lowerBound(n) /\ s \in Committed.freeSpans[k] /\ n \in Sizes /\ SameRuns
        /\ s \in DOMAIN Committed.spans /\ k > n
        /\ spans = [x \in DOMAIN Committed.spans \cup {rest} |->
                      CASE x = s    -> [Committed.spans[s] EXCEPT !.numPages = n, !.inFreeList = FALSE]
                        [] x = rest -> [Committed.spans[s] EXCEPT !.numPages = k - n,
                                                                  !.inFreeList = TRUE, !.isLarge = FALSE]
                        [] OTHER    -> Committed.spans[x]]
        /\ freeSpans = [j \in Sizes |-> (Committed.freeSpans[j] \ (IF j = k THEN {s} ELSE {}))
                                          \cup (IF j = k - n THEN {rest} ELSE {})]
        /\ cachedFreePages = Committed.cachedFreePages - k + (k - n)
    BY <1>3, <2>1, <2>2 DEF FromBin, CutOff, Rest
  <2>4. rest # s /\ n \in Nat \ {0} /\ k \in Nat
    BY <1>4, <2>2, <2>3, PageCacheAssumption DEF Sizes
  <2>5. spans' = [x \in DOMAIN Committed.spans \cup {rest} |->
                    CASE x = s    -> [Committed.spans[s] EXCEPT !.numPages = n, !.inFreeList = FALSE,
                                                                !.isLarge = large]
                      [] x = rest -> [Committed.spans[s] EXCEPT !.numPages = k - n,
                                                                !.inFreeList = TRUE, !.isLarge = FALSE]
                      [] OTHER    -> Committed.spans[x]]
    <3>1. spans[s] = [Committed.spans[s] EXCEPT !.numPages = n, !.inFreeList = FALSE]
      BY <2>3, <2>4
    <3>2. [spans[s] EXCEPT !.isLarge = large]
            = [Committed.spans[s] EXCEPT !.numPages = n, !.inFreeList = FALSE, !.isLarge = large]
      BY <3>1
    <3>3. DOMAIN spans = DOMAIN Committed.spans \cup {rest}
      BY <2>3
    <3>4. /\ spans'[s] = [Committed.spans[s] EXCEPT !.numPages = n, !.inFreeList = FALSE, !.isLarge = large]
          /\ spans'[rest] = [Committed.spans[s] EXCEPT !.numPages = k - n, !.inFreeList = TRUE,
                                                       !.isLarge = FALSE]
          /\ \A x \in DOMAIN Committed.spans : x \notin {s, rest} => spans'[x] = Committed.spans[x]
      BY <1>5, <2>3, <2>4, <3>2
    <3> QED BY <1>5, <2>3, <2>4, <3>3, <3>4
  <2>6. cachedFreePages' = Atomic!CountAfterTake(k, n)
    BY <1>1, <2>3 DEF Atomic!CountAfterTake
  <2>7. pageMap' = Atomic!registerPages(Atomic!registerPages(Committed.pageMap, rest, k - n), s, n)
    BY <1>1, <1>3, <2>1, <2>2 DEF RestMapped, Rest, registerPages, Atomic!registerPages, Run, Atomic!Run
  <2>8. Atomic!TakeAndSplit(n, k, s, large)
    <3>1. Committed'.freeSpans =
            [j \in Atomic!Sizes |-> (Committed.freeSpans[j] \ (IF j = k THEN {s} ELSE {}))
                                      \cup (IF j = Atomic!RemainderBin(k, n) THEN {s + n} ELSE {})]
      BY <1>1, <1>2, <1>6, <2>2, <2>3 DEF Atomic!RemainderBin
    <3>2. Committed'.spans =
            [x \in DOMAIN Committed.spans \cup {s + n} |->
               CASE x = s     -> [Committed.spans[s] EXCEPT !.numPages = n, !.inFreeList = FALSE,
                                                           !.isLarge = large]
                 [] x = s + n -> [Committed.spans[s] EXCEPT !.numPages = k - n,
                                                            !.inFreeList = TRUE, !.isLarge = FALSE]
                 [] OTHER     -> Committed.spans[x]]
      BY <1>2, <2>2, <2>5
    <3>3. Committed'.pageMap = Atomic!registerPages(Atomic!registerPages(Committed.pageMap, s + n, k - n), s, n)
      BY <1>2, <2>2, <2>7
    <3>4. /\ Committed'.cachedFreePages = Atomic!CountAfterTake(k, n)
          /\ Committed'.systemAllocs = Committed.systemAllocs /\ Committed'.osPages = Committed.osPages
      BY <1>1, <1>2, <2>3, <2>6 DEF SameRuns
    <3> QED BY <2>3, <3>1, <3>2, <3>3, <3>4 DEF Atomic!TakeAndSplit
  <2>9. Atomic!allocateSpan(n, s, large)
    BY <1>4, <2>3, <2>4, <2>8 DEF Atomic!allocateSpan
  <2> QED BY <1>2, <1>7, <2>3, <2>9
<1>10. CASE /\ FromSystem /\ Noted /\ WithNew
            /\ pageMap = registerPages(Committed.pageMap, me, op.size)
  <2>1. PICK m \in Sizes : n \in m .. (m + Granularity - 1) /\ Atomic!lowerBound(m) = {}
    BY <1>3, <1>10 DEF FromSystem
  <2>2. /\ n % Granularity = 0 /\ Run(s, n) \subseteq Pages \ Committed.osPages
        /\ osPages = Committed.osPages \cup Run(s, n) /\ SameBins
        /\ systemAllocs = Committed.systemAllocs \cup {<<s, n>>}
        /\ spans = [x \in DOMAIN Committed.spans \cup {s} |->
                      IF x = s THEN [numPages |-> n, originAddr |-> s, originPages |-> n,
                                     inFreeList |-> FALSE, isLarge |-> FALSE]
                      ELSE Committed.spans[x]]
        /\ pageMap = registerPages(Committed.pageMap, s, n)
    BY <1>3, <1>10 DEF FromSystem, Noted, WithNew
  <2>3. spans' = [x \in DOMAIN Committed.spans \cup {s} |->
                    IF x = s THEN [numPages |-> n, originAddr |-> s, originPages |-> n,
                                   inFreeList |-> FALSE, isLarge |-> large]
                    ELSE Committed.spans[x]]
    <3>1. spans[s] = [numPages |-> n, originAddr |-> s, originPages |-> n,
                      inFreeList |-> FALSE, isLarge |-> FALSE]
      BY <2>2
    <3>2. [spans[s] EXCEPT !.isLarge = large] = [numPages |-> n, originAddr |-> s, originPages |-> n,
                                                 inFreeList |-> FALSE, isLarge |-> large]
      <4>1. PICK q : q = [numPages |-> n, originAddr |-> s, originPages |-> n,
                          inFreeList |-> FALSE, isLarge |-> large]
        OBVIOUS
      <4>2. PICK r : r = [spans[s] EXCEPT !.isLarge = large]
        OBVIOUS
      <4>3. spans[s].numPages = n /\ spans[s].originAddr = s /\ spans[s].originPages = n /\ ~ spans[s].inFreeList
        BY <3>1
      <4>4. n \in Sizes
        BY <1>5, <4>3 DEF SpanRecord
      <4>5. /\ r \in SpanRecord /\ r.numPages = n /\ r.originAddr = s /\ r.originPages = n
            /\ r.inFreeList = FALSE /\ r.isLarge = large
        BY <1>4, <1>5, <4>2, <4>3 DEF SpanRecord
      <4>6. /\ q \in SpanRecord /\ q.numPages = n /\ q.originAddr = s /\ q.originPages = n
            /\ q.inFreeList = FALSE /\ q.isLarge = large
        BY <1>4, <1>5, <4>1, <4>4 DEF SpanRecord
      <4>7. r = q
        BY <4>5, <4>6, SameRecord
      <4> QED BY <4>1, <4>2, <4>7
    <3> QED BY <1>5, <2>2, <3>2
  <2>4. pageMap' = Atomic!registerPages(Committed.pageMap, s, n)
    BY <1>1, <2>2 DEF registerPages, Atomic!registerPages, Run, Atomic!Run
  <2>5. Atomic!MapNewOrigin(m, s, large)
    BY <1>1, <1>2, <1>6, <2>1, <2>2, <2>3, <2>4 DEF Atomic!MapNewOrigin, Run, Atomic!Run, SameBins
  <2>6. m # 0
    BY <2>1, PageCacheAssumption DEF Sizes
  <2>7. Atomic!allocateSpan(m, s, large)
    BY <1>4, <2>1, <2>5, <2>6 DEF Atomic!allocateSpan
  <2> QED BY <1>2, <1>7, <2>7
<1> QED BY <1>1, <1>8, <1>9, <1>10 DEF Underway

(* A span goes back to a bin, merged with its free neighbours.             *)
LEMMA PlaceAtomic ==
  ASSUME StepInv, Underway, Place, StepInv'
  PROVE  Underway' /\ Atomic!Next
<1>1. /\ op.at = "place" /\ ~ OverLimit /\ op' = Idle
      /\ spans' = [spans EXCEPT ![me].inFreeList = TRUE]
      /\ freeSpans' = [freeSpans EXCEPT ![spans[me].numPages] = @ \cup {me}]
      /\ cachedFreePages' = cachedFreePages + spans[me].numPages
      /\ UNCHANGED <<pageMap, systemAllocs, osPages, running>>
  BY DEF Place, Unlock
<1>2. /\ Committed'.spans = spans' /\ Committed'.freeSpans = freeSpans'
      /\ Committed'.pageMap = pageMap' /\ Committed'.systemAllocs = systemAllocs'
      /\ Committed'.cachedFreePages = cachedFreePages' /\ Committed'.osPages = osPages'
      /\ Underway'
  BY <1>1, Commits
<1>3. PICK s \in DOMAIN Committed.spans : Merged(s) /\ SamePages
  BY <1>1 DEF Underway
<1>4. PICK h, n : h = Atomic!MergedStart(s) /\ n = Atomic!MergedSize(s)
  OBVIOUS
<1>5. /\ running /\ running' = running /\ me = h /\ h \in DOMAIN spans /\ MapsTo(PagesOf(h), h)
      /\ BothDone(s, ({s} \cup Atomic!Absorbed(s)) \ {h})
  BY <1>1, <1>3, <1>4, OpAt DEF Merged, StepInv, OpExact, Loose
<1>6. /\ spans[h].numPages = n /\ n \in Sizes /\ h \in DOMAIN Committed.spans
      /\ PagesOf(h) = h .. (Atomic!MergedEnd(s) - 1) /\ PagesOf(h) = Run(h, n)
  BY <1>4, <1>5, MergedTyped DEF PagesOf
<1>7. /\ Freed(s) /\ ~ Atomic!ReturnDirect(s)
      /\ freeSpans = Atomic!FreeSpansAfterMerge(s) /\ cachedFreePages = Atomic!CountAfterMerge(s)
      /\ DOMAIN spans = DOMAIN Committed.spans \ (({s} \cup Atomic!Absorbed(s)) \ {h})
      /\ spans[h] = [Committed.spans[h] EXCEPT !.numPages = n, !.inFreeList = FALSE, !.isLarge = FALSE]
      /\ \A x \in DOMAIN spans \ ({s} \cup Atomic!Absorbed(s)) : spans[x] = Committed.spans[x]
      /\ MapOutside(h, Atomic!MergedEnd(s))
  BY <1>4, <1>5 DEF BothDone
<1>8. ~ Atomic!OverBudget(s)
  BY <1>1, <1>3, OverLimitIs
<1>9. spans' = [x \in DOMAIN Committed.spans \ (({s} \cup Atomic!Absorbed(s)) \ {h}) |->
                  IF x = h THEN [Committed.spans[x] EXCEPT !.numPages = n, !.inFreeList = TRUE,
                                                           !.isLarge = FALSE]
                  ELSE Committed.spans[x]]
  <2>1. [spans[h] EXCEPT !.inFreeList = TRUE]
          = [Committed.spans[h] EXCEPT !.numPages = n, !.inFreeList = TRUE, !.isLarge = FALSE]
    <3>1. Committed.spans[h] \in SpanRecord
      BY <1>6, BeforeTyped
    <3> QED BY <1>7, <3>1 DEF SpanRecord
  <2>2. /\ DOMAIN spans' = DOMAIN spans /\ spans' = [x \in DOMAIN spans |-> spans'[x]]
        /\ spans'[h] = [spans[h] EXCEPT !.inFreeList = TRUE]
        /\ \A x \in DOMAIN spans : x # h => spans'[x] = spans[x]
    BY <1>1, <1>5
  <2>3. \A x \in DOMAIN spans : x # h => spans'[x] = Committed.spans[x]
    BY <1>7, <2>2
  <2> QED BY <1>7, <2>1, <2>2, <2>3
<1>10. freeSpans' = [Atomic!FreeSpansAfterMerge(s) EXCEPT ![n] = @ \cup {h}]
  BY <1>1, <1>5, <1>6, <1>7
<1>11. cachedFreePages' = Atomic!CountAfterMerge(s) + n
  BY <1>1, <1>5, <1>6, <1>7
<1>12. pageMap' = Atomic!MapAfterMerge(s)
  <2>1. /\ DOMAIN pageMap = DOMAIN Committed.pageMap /\ pageMap = [p \in DOMAIN pageMap |-> pageMap[p]]
        /\ Run(h, n) \subseteq DOMAIN pageMap /\ \A p \in Run(h, n) : pageMap[p] = h
        /\ \A p \in DOMAIN pageMap : p \notin Run(h, n) => pageMap[p] = Committed.pageMap[p]
    <3>1. pageMap = [p \in DOMAIN pageMap |-> pageMap[p]]
      BY DEF StepInv, StepTypeOK, TypeOK
    <3>2. DOMAIN pageMap = DOMAIN Committed.pageMap
      BY <1>3 DEF SamePages
    <3>3. Run(h, n) \subseteq DOMAIN pageMap /\ \A p \in Run(h, n) : pageMap[p] = h
      BY <1>5, <1>6 DEF MapsTo
    <3>4. \A p \in DOMAIN pageMap : p \notin Run(h, n) => pageMap[p] = Committed.pageMap[p]
      BY <1>6, <1>7 DEF MapOutside
    <3> QED BY <3>1, <3>2, <3>3, <3>4
  <2>2. Atomic!MapAfterMerge(s) = [p \in DOMAIN Committed.pageMap \cup Run(h, n) |->
                                     IF p \in Run(h, n) THEN h ELSE Committed.pageMap[p]]
    BY <1>4 DEF Atomic!MapAfterMerge, Atomic!registerPages, Atomic!Run, Run
  <2> QED BY <1>1, <2>1, <2>2
<1>13. Atomic!CoalesceAndCache(s)
  BY <1>1, <1>2, <1>4, <1>7, <1>8, <1>9, <1>10, <1>11, <1>12 DEF Atomic!CoalesceAndCache, Freed, SameRuns
<1>14. Atomic!deallocateSpan(s)
  BY <1>3, <1>5, <1>7, <1>13 DEF Atomic!deallocateSpan, Atomic!InUse, Freed
<1> QED BY <1>2, <1>3, <1>14 DEF Atomic!Next

(* A mapping goes back to the operating system: that of a large object     *)
(* at once, or a merged run the budget does not allow to keep.             *)
LEMMA ReleaseAtomic ==
  ASSUME StepInv, Underway, Release, StepInv'
  PROVE  Underway' /\ Atomic!Next
<1>0. PICK m : m = me
  OBVIOUS
<1>1. /\ op.at = "release" /\ op' = Idle
      /\ systemAllocs' = {a \in systemAllocs : a[1] # spans[m].originAddr}
      /\ spans' = Without({m})
      /\ osPages' = osPages \ Run(spans[m].originAddr, spans[m].originPages)
      /\ UNCHANGED <<freeSpans, pageMap, cachedFreePages, running>>
  BY <1>0 DEF Release, Unlock
<1>2. /\ Committed'.spans = spans' /\ Committed'.freeSpans = freeSpans'
      /\ Committed'.pageMap = pageMap' /\ Committed'.systemAllocs = systemAllocs'
      /\ Committed'.cachedFreePages = cachedFreePages' /\ Committed'.osPages = osPages'
      /\ Underway'
  BY <1>1, Commits
<1>3. /\ running /\ running' = running /\ m \in DOMAIN spans
      /\ DOMAIN pageMap = DOMAIN Committed.pageMap \ PagesOf(m)
      /\ pageMap = [p \in DOMAIN pageMap |-> pageMap[p]]
      /\ PagesOf(m) = m .. (End(m) - 1)
  BY <1>0, <1>1, OpAt, SpanAt DEF Underway, StepInv, OpExact, Loose, StepTypeOK, TypeOK
<1>4. /\ DOMAIN spans' = DOMAIN spans \ {m} /\ \A x \in DOMAIN spans' : spans'[x] = spans[x]
      /\ spans' = [x \in DOMAIN spans' |-> spans'[x]]
  BY <1>1 DEF Without
<1>5. CASE Alone(me) /\ Atomic!ReturnDirect(me) /\ MapOutside(me, End(me))
  <2>1. /\ Freed(m) /\ SameBins /\ spans = [Committed.spans EXCEPT ![m].isLarge = FALSE]
        /\ Atomic!ReturnDirect(m) /\ MapOutside(m, End(m))
    BY <1>0, <1>5 DEF Alone
  <2>2. /\ m \in DOMAIN Committed.spans /\ Committed.spans[m] \in SpanRecord
    BY <2>1, BeforeTyped DEF Freed
  <2>3. /\ DOMAIN spans = DOMAIN Committed.spans
        /\ \A x \in DOMAIN spans : x # m => spans[x] = Committed.spans[x]
        /\ spans[m].numPages = Committed.spans[m].numPages
        /\ spans[m].originAddr = Committed.spans[m].originAddr
        /\ spans[m].originPages = Committed.spans[m].originPages
    BY <2>1, <2>2 DEF SpanRecord
  <2>4. spans' = Atomic!Without({m})
    BY <1>4, <2>3 DEF Atomic!Without
  <2>5. pageMap' = Atomic!unregisterPages(Committed.pageMap, m, Committed.spans[m].numPages)
    BY <1>1, <1>3, <2>1, <2>3 DEF Atomic!unregisterPages, Atomic!Run, PagesOf, Run, MapOutside
  <2>6. Atomic!ReleaseOrigin(m, Committed.spans[m].numPages, m, Committed.pageMap)
    BY <1>1, <1>2, <2>1, <2>3, <2>5 DEF Atomic!ReleaseOrigin, Atomic!Run, Run, Freed, SameRuns
  <2>7. Atomic!ReturnToSystem(m)
    BY <1>1, <1>2, <2>1, <2>4, <2>6 DEF Atomic!ReturnToSystem, SameBins
  <2>8. Atomic!deallocateSpan(m)
    BY <1>3, <2>1, <2>7 DEF Atomic!deallocateSpan, Atomic!InUse, Freed
  <2> QED BY <1>2, <2>2, <2>8 DEF Atomic!Next
<1>6. CASE \E s \in DOMAIN Committed.spans : Merged(s) /\ Atomic!OverBudget(s)
  <2>1. PICK s \in DOMAIN Committed.spans : Merged(s) /\ Atomic!OverBudget(s)
    BY <1>6
  <2>2. PICK n : n = Atomic!MergedSize(s)
    OBVIOUS
  <2>3. /\ m = Atomic!MergedStart(s) /\ BothDone(s, ({s} \cup Atomic!Absorbed(s)) \ {m})
    BY <1>0, <2>1 DEF Merged
  <2>4. /\ spans[m].numPages = n /\ PagesOf(m) = Run(m, n)
        /\ PagesOf(m) = m .. (Atomic!MergedEnd(s) - 1)
    BY <1>3, <2>2, <2>3, MergedTyped DEF PagesOf
  <2>5. /\ Freed(s) /\ ~ Atomic!ReturnDirect(s)
        /\ freeSpans = Atomic!FreeSpansAfterMerge(s) /\ cachedFreePages = Atomic!CountAfterMerge(s)
        /\ DOMAIN spans = DOMAIN Committed.spans \ (({s} \cup Atomic!Absorbed(s)) \ {m})
        /\ \A x \in DOMAIN spans \ ({s} \cup Atomic!Absorbed(s)) : spans[x] = Committed.spans[x]
        /\ spans[m].originAddr = Committed.spans[s].originAddr
        /\ spans[m].originPages = Committed.spans[s].originPages
        /\ MapOutside(m, Atomic!MergedEnd(s))
    BY <2>3 DEF BothDone
  <2>6. m \in {s} \cup Atomic!Absorbed(s)
    BY <2>3 DEF Atomic!MergedStart, Atomic!Absorbed
  <2>7. spans' = Atomic!Without({s} \cup Atomic!Absorbed(s))
    <3>1. DOMAIN spans' = DOMAIN Committed.spans \ ({s} \cup Atomic!Absorbed(s))
      BY <1>3, <1>4, <2>5, <2>6
    <3>2. \A x \in DOMAIN spans' : spans'[x] = Committed.spans[x]
      BY <1>4, <2>5, <3>1
    <3> QED BY <1>4, <3>1, <3>2 DEF Atomic!Without
  <2>8. pageMap' = Atomic!unregisterPages(Atomic!MapAfterMerge(s), m, n)
    <3>1. Atomic!MapAfterMerge(s) = [p \in DOMAIN Committed.pageMap \cup Run(m, n) |->
                                       IF p \in Run(m, n) THEN m ELSE Committed.pageMap[p]]
      BY <2>2, <2>3 DEF Atomic!MapAfterMerge, Atomic!registerPages, Atomic!Run, Run
    <3>2. DOMAIN pageMap = (DOMAIN Committed.pageMap \cup Run(m, n)) \ Run(m, n)
      BY <1>3, <2>4
    <3>3. \A p \in DOMAIN pageMap : p \notin Run(m, n) /\ pageMap[p] = Committed.pageMap[p]
      BY <2>4, <2>5, <3>2 DEF MapOutside
    <3>4. PICK f : f = Atomic!MapAfterMerge(s)
      OBVIOUS
    <3>5. /\ DOMAIN f = DOMAIN Committed.pageMap \cup Run(m, n)
          /\ \A p \in DOMAIN f : p \notin Run(m, n) => f[p] = Committed.pageMap[p]
      BY <3>1, <3>4
    <3>6. Atomic!unregisterPages(f, m, n) = [p \in DOMAIN f \ Run(m, n) |-> f[p]]
      BY DEF Atomic!unregisterPages, Atomic!Run, Run
    <3>7. DOMAIN f \ Run(m, n) = DOMAIN pageMap
      BY <3>2, <3>5
    <3>8. \A p \in DOMAIN pageMap : f[p] = pageMap[p]
      BY <3>3, <3>5, <3>7
    <3>9. pageMap = [p \in DOMAIN f \ Run(m, n) |-> f[p]]
      BY <1>3, <3>7, <3>8
    <3> QED BY <1>1, <3>4, <3>6, <3>9
  <2>9. Atomic!ReleaseOrigin(m, n, s, Atomic!MapAfterMerge(s))
    BY <1>1, <1>2, <2>5, <2>8 DEF Atomic!ReleaseOrigin, Atomic!Run, Run, Freed, SameRuns
  <2>10. Atomic!CoalesceAndRelease(s)
    BY <1>1, <1>2, <2>1, <2>2, <2>3, <2>5, <2>7, <2>9 DEF Atomic!CoalesceAndRelease
  <2>11. Atomic!deallocateSpan(s)
    BY <1>3, <2>1, <2>5, <2>10 DEF Atomic!deallocateSpan, Atomic!InUse, Freed
  <2> QED BY <1>2, <2>1, <2>11 DEF Atomic!Next
<1> QED BY <1>1, <1>5, <1>6 DEF Underway

(* The destructor runs while nobody is inside an operation.                *)
LEMMA DestroyAtomic ==
  ASSUME StepInv, StepDestroy, StepInv'
  PROVE  Underway' /\ Atomic!Next
<1>1. op = Idle /\ op' = Idle /\ Destroy
  BY DEF StepDestroy
<1>2. /\ Committed.spans = spans /\ Committed.freeSpans = freeSpans
      /\ Committed.pageMap = pageMap /\ Committed.systemAllocs = systemAllocs
      /\ Committed.cachedFreePages = cachedFreePages /\ Committed.osPages = osPages
  BY <1>1, CommittedIdle
<1>3. /\ Committed'.spans = spans' /\ Committed'.freeSpans = freeSpans'
      /\ Committed'.pageMap = pageMap' /\ Committed'.systemAllocs = systemAllocs'
      /\ Committed'.cachedFreePages = cachedFreePages' /\ Committed'.osPages = osPages'
      /\ Underway'
  BY <1>1, Commits
<1>4. Atomic!Destroy
  BY <1>1, <1>2, <1>3 DEF Destroy, Atomic!Destroy, Without, Atomic!Without, EmptyMap, Atomic!EmptyMap,
                          Run, Atomic!Run, Sizes, Atomic!Sizes
<1> QED BY <1>3, <1>4 DEF Atomic!Next

(* Nothing happens.                                                        *)
LEMMA StutterUnderway ==
  ASSUME StepInv, Underway, UNCHANGED stepVars
  PROVE  Underway' /\ Committed' = Committed
<1>1. /\ UNCHANGED <<spans, freeSpans, pageMap, systemAllocs, cachedFreePages, osPages, running, op, before>>
  BY DEF stepVars
<1>2. Committed' = Committed /\ me' = me
  BY <1>1 DEF Committed, Now, me
<1>3. CASE op.at = "idle"
  <2>1. Atomic!TypeOK' <=> Atomic!TypeOK
    BY <1>1, <1>2 DEF Atomic!TypeOK, Atomic!SpanRecord, Atomic!Pages, Atomic!Sizes
  <2>2. Atomic!TypeOK' /\ op'.at = "idle"
    BY <1>1, <1>3, <2>1 DEF Underway
  <2> QED BY <1>2, <2>2 DEF Underway
<1>4. CASE op.at # "idle"
  <2>1. /\ \A n : Atomic!lowerBound(n)' = Atomic!lowerBound(n)
        /\ \A s : /\ Atomic!ReturnDirect(s)' <=> Atomic!ReturnDirect(s)
                  /\ Atomic!NextMergeable(s)' <=> Atomic!NextMergeable(s)
                  /\ Atomic!PrevMergeable(s)' <=> Atomic!PrevMergeable(s)
                  /\ Atomic!OverBudget(s)' <=> Atomic!OverBudget(s)
                  /\ Atomic!End(s)' = Atomic!End(s) /\ NextOf(s)' = NextOf(s)
                  /\ Atomic!MergedStart(s)' = Atomic!MergedStart(s)
                  /\ Atomic!MergedEnd(s)' = Atomic!MergedEnd(s)
                  /\ Atomic!MergedSize(s)' = Atomic!MergedSize(s)
                  /\ Atomic!Absorbed(s)' = Atomic!Absorbed(s)
                  /\ Atomic!FreeSpansAfterMerge(s)' = Atomic!FreeSpansAfterMerge(s)
                  /\ Atomic!CountAfterMerge(s)' = Atomic!CountAfterMerge(s)
        /\ Atomic!TypeOK'
    BY <1>1, <1>4, CommittedKept DEF Underway
  <2>2. /\ SameMap' <=> SameMap
        /\ SamePages' <=> SamePages
        /\ WithNew' <=> WithNew
        /\ Noted' <=> Noted
        /\ Rest' = Rest
        /\ \A s : End(s)' = End(s) /\ PagesOf(s)' = PagesOf(s)
    BY <1>1, <1>2 DEF SameMap, SamePages, WithNew, Noted, Rest, End, PagesOf
  <2>3. /\ FromSystem' <=> FromSystem
        /\ \A k : FromBin(k)' <=> FromBin(k)
        /\ \A k : Taken(k)' <=> Taken(k)
    BY <1>1, <1>2, <2>1, <2>2 DEF FromSystem, FromBin, Taken, SameBins, SameRuns
  <2>4. /\ \A k, n : CutOff(k, n)' <=> CutOff(k, n)
        /\ \A k : RestMapped(k)' = RestMapped(k)
        /\ \A k : registerPages(RestMapped(k), me, op.size)' = registerPages(RestMapped(k), me, op.size)
        /\ registerPages(Committed.pageMap, me, op.size)' = registerPages(Committed.pageMap, me, op.size)
    BY <1>1, <1>2, <2>2 DEF CutOff, RestMapped, registerPages
  <2>5. /\ \A h, e : MapOutside(h, e)' <=> MapOutside(h, e)
        /\ \A s : Freed(s)' <=> Freed(s)
        /\ \A s : Alone(s)' <=> Alone(s)
    BY <1>1, <1>2 DEF MapOutside, Freed, Alone, SameBins, SameRuns
  <2>6. ASSUME NEW s, NEW gone PROVE NextDone(s, gone)' <=> NextDone(s, gone)
    <3>1. /\ Freed(s)' <=> Freed(s)
          /\ Atomic!ReturnDirect(s)' <=> Atomic!ReturnDirect(s)
          /\ Atomic!MergedEnd(s)' = Atomic!MergedEnd(s) /\ Atomic!End(s)' = Atomic!End(s)
          /\ NextOf(s)' = NextOf(s)
          /\ MapOutside(s, Atomic!MergedEnd(s))' <=> MapOutside(s, Atomic!MergedEnd(s))
      BY <2>1, <2>5
    <3>2. /\ spans' = spans /\ freeSpans' = freeSpans /\ cachedFreePages' = cachedFreePages
          /\ Committed' = Committed
      BY <1>1, <1>2
    <3>3. /\ (NextOf(s) \subseteq DOMAIN Committed.spans)' <=> NextOf(s) \subseteq DOMAIN Committed.spans
          /\ [k \in Sizes |-> Committed.freeSpans[k] \ {x \in NextOf(s) : Committed.spans[x].numPages = k}]' =
                [k \in Sizes |-> Committed.freeSpans[k] \ {x \in NextOf(s) : Committed.spans[x].numPages = k}]
          /\ (Committed.cachedFreePages - (Atomic!MergedEnd(s) - Atomic!End(s)))' =
                Committed.cachedFreePages - (Atomic!MergedEnd(s) - Atomic!End(s))
          /\ [Committed.spans[s] EXCEPT !.numPages = Atomic!MergedEnd(s) - s, !.isLarge = FALSE]' =
                [Committed.spans[s] EXCEPT !.numPages = Atomic!MergedEnd(s) - s, !.isLarge = FALSE]
      BY <3>1, <3>2
    <3>4. (\A x \in DOMAIN spans \ ({s} \cup NextOf(s)) : spans[x] = Committed.spans[x])'
            <=> \A x \in DOMAIN spans \ ({s} \cup NextOf(s)) : spans[x] = Committed.spans[x]
      BY <3>1, <3>2
    <3> QED BY <3>1, <3>2, <3>3, <3>4 DEF NextDone
  <2>7. \A s, gone : BothDone(s, gone)' <=> BothDone(s, gone)
    BY <1>1, <1>2, <2>1, <2>5 DEF BothDone
  <2>8. \A s : Merged(s)' <=> Merged(s)
    BY <1>1, <1>2, <2>1, <2>7 DEF Merged
  <2>9. /\ op'.at = "split" => SameMap' /\ \E k \in Sizes : FromBin(k)' /\ k > op'.size /\ Taken(k)'
        /\ op'.at = "mapRest" => SameMap' /\ \E k \in Sizes : FromBin(k)' /\ CutOff(k, k)'
        /\ op'.at = "mapSpan" => \E k \in Sizes : FromBin(k)' /\ CutOff(k, k)' /\ pageMap' = RestMapped(k)'
        /\ op'.at = "hand" =>
             \/ FromBin(op.size)' /\ Taken(op.size)'
             \/ \E k \in Sizes :
                  /\ FromBin(k)' /\ CutOff(k, op.size)'
                  /\ pageMap' = registerPages(RestMapped(k), me, op.size)'
             \/ FromSystem' /\ Noted' /\ WithNew' /\ pageMap' = registerPages(Committed.pageMap, me, op.size)'
    BY <1>1, <2>2, <2>3, <2>4 DEF Underway
  <2>10. /\ op'.at = "record" =>
              /\ FromSystem' /\ SameMap' /\ spans' = Committed'.spans
              /\ systemAllocs' = Committed'.systemAllocs
         /\ op'.at = "newSpan" => FromSystem' /\ SameMap' /\ spans' = Committed'.spans /\ Noted'
         /\ op'.at = "register" => FromSystem' /\ SameMap' /\ WithNew' /\ Noted'
    BY <1>1, <1>2, <2>2, <2>3 DEF Underway
  <2>11. /\ op'.at = "next" => Alone(me)' /\ ~ Atomic!ReturnDirect(me)' /\ SameMap'
         /\ op'.at \in {"redirectNext", "deleteNext"} =>
              NextDone(me, {})' /\ SamePages' /\ Atomic!NextMergeable(me)' /\ op'.other = Atomic!End(me)'
         /\ op'.at = "prev" => NextDone(me, NextOf(me))' /\ SamePages'
    BY <1>1, <1>2, <2>1, <2>2, <2>5, <2>6 DEF Underway
  <2>12. op'.at \in {"redirectPrev", "deletePrev"} =>
           /\ BothDone(me, NextOf(me))' /\ SamePages'
           /\ Atomic!PrevMergeable(me)' /\ op'.other = Atomic!MergedStart(me)'
    BY <1>1, <1>2, <2>1, <2>2, <2>7 DEF Underway
  <2>13. op'.at = "place" => SamePages' /\ \E s \in DOMAIN Committed'.spans : Merged(s)'
    BY <1>1, <1>2, <2>2, <2>8 DEF Underway
  <2>14. op'.at = "unregister" =>
           /\ SamePages'
           /\ \/ Alone(me)' /\ Atomic!ReturnDirect(me)' /\ SameMap'
              \/ \E s \in DOMAIN Committed'.spans : Merged(s)' /\ Atomic!OverBudget(s)'
    BY <1>1, <1>2, <2>1, <2>2, <2>5, <2>8 DEF Underway
  <2>15. op'.at = "release" =>
           /\ DOMAIN pageMap' = DOMAIN Committed'.pageMap \ PagesOf(me)'
           /\ \/ Alone(me)' /\ Atomic!ReturnDirect(me)' /\ MapOutside(me, End(me))'
              \/ \E s \in DOMAIN Committed'.spans : Merged(s)' /\ Atomic!OverBudget(s)'
    BY <1>1, <1>2, <2>1, <2>2, <2>5, <2>8 DEF Underway
  <2> QED BY <1>2, <2>1, <2>9, <2>10, <2>11, <2>12, <2>13, <2>14, <2>15 DEF Underway
<1> QED BY <1>2, <1>3, <1>4

(* The relation holds until an operation throws.                           *)
Followed == ~ thrown => Underway

(* Every step keeps Followed, and is either hidden from the atomic cache   *)
(* or one of its steps.                                                    *)
LEMMA StepFollows ==
  ASSUME StepInv, Followed, [StepNext]_stepVars, StepInv'
  PROVE  Followed' /\ [thrown' \/ Atomic!Next]_(Atomic!vars)
<1>1. CASE thrown'
  BY <1>1 DEF Followed
<1>2. CASE ~ thrown'
  <2>1. ~ thrown /\ Underway
    <3>1. thrown => thrown'
      <4>1. CASE UNCHANGED stepVars
        BY <4>1 DEF stepVars
      <4>2. CASE StepNext
        BY <4>2, ZenonT(30) DEF StepNext, Take, Map, Lock, Split, SplitThrows, Throw, MapRest, MapStep, MapSpan, Hand,
                    Unlock, Goto, Record, NewSpan, Register, MapThrows, RegisterThrows, GiveBack, LookNext,
                    Absorb, RedirectNext, DeleteNext, LookPrev, RedirectPrev, DeletePrev, Place,
                    PlaceThrows, PlaceOver, Unregister, Release, StepDestroy
      <4> QED BY <4>1, <4>2
    <3> QED BY <1>2, <3>1 DEF Followed
  <2>2. ASSUME Underway', Committed' = Committed, running' = running
        PROVE  Followed' /\ [thrown' \/ Atomic!Next]_(Atomic!vars)
    BY <2>2 DEF Followed, Atomic!vars
  <2>3. ASSUME Underway', Atomic!Next
        PROVE  Followed' /\ [thrown' \/ Atomic!Next]_(Atomic!vars)
    BY <2>3 DEF Followed
  <2>4. CASE \E n \in 0 .. NumPages, large \in BOOLEAN :
               LET pages == IF n = 0 THEN 1 ELSE n IN Take(pages, large) \/ Map(pages, large)
    <3>1. PICK n \in 0 .. NumPages, large \in BOOLEAN :
            Take(IF n = 0 THEN 1 ELSE n, large) \/ Map(IF n = 0 THEN 1 ELSE n, large)
      BY <2>4
    <3>2. PICK m : m = (IF n = 0 THEN 1 ELSE n)
      OBVIOUS
    <3>3. m \in Nat \ {0} /\ m \in 1 .. (NumPages + 1) /\ (m <= NumPages \/ m = 1)
      BY <3>2, PageCacheAssumption
    <3>4. Underway' /\ Committed' = Committed
      BY <3>1, <3>2, <3>3, TakeUnderway, MapUnderway
    <3>5. running' = running
      BY <3>1 DEF Take, Map
    <3> QED BY <2>2, <3>4, <3>5
  <2>5. CASE Split \/ MapRest \/ MapSpan \/ Record \/ NewSpan \/ Register
    <3>1. Underway' /\ Committed' = Committed
      BY <2>1, <2>5, SplitUnderway, MapRestUnderway, MapSpanUnderway, RecordUnderway, NewSpanUnderway,
         RegisterUnderway
    <3>2. running' = running
      BY <2>5 DEF Split, MapRest, MapStep, MapSpan, Record, NewSpan, Register
    <3> QED BY <2>2, <3>1, <3>2
  <2>6. CASE \E s \in held : GiveBack(s)
    <3>1. Underway' /\ Committed' = Committed
      BY <2>6, GiveBackUnderway
    <3>2. running' = running
      BY <2>6 DEF GiveBack
    <3> QED BY <2>2, <3>1, <3>2
  <2>7. CASE LookNext \/ RedirectNext \/ DeleteNext \/ LookPrev \/ RedirectPrev \/ DeletePrev
             \/ PlaceOver \/ Unregister
    <3>1. Underway' /\ Committed' = Committed
      BY <2>1, <2>7, LookNextUnderway, RedirectNextUnderway, DeleteNextUnderway, LookPrevUnderway,
         RedirectPrevUnderway, DeletePrevUnderway, PlaceOverUnderway, UnregisterUnderway
    <3>2. running' = running
      BY <2>7 DEF LookNext, RedirectNext, DeleteNext, LookPrev, RedirectPrev, DeletePrev, PlaceOver,
                  Unregister, MapStep, Absorb, cacheVars
    <3> QED BY <2>2, <3>1, <3>2
  <2>8. CASE Hand \/ Place \/ Release \/ StepDestroy
    <3>1. Underway' /\ Atomic!Next
      BY <2>1, <2>8, HandAtomic, PlaceAtomic, ReleaseAtomic, DestroyAtomic
    <3> QED BY <2>3, <3>1
  <2>9. CASE SplitThrows \/ MapThrows \/ RegisterThrows \/ PlaceThrows
    BY <1>2, <2>9 DEF SplitThrows, MapThrows, RegisterThrows, PlaceThrows, Throw
  <2>10. CASE UNCHANGED stepVars
    <3>1. running' = running
      BY <2>10 DEF stepVars
    <3> QED BY <2>1, <2>2, <2>10, <3>1, StutterUnderway
  <2> QED BY <2>4, <2>5, <2>6, <2>7, <2>8, <2>9, <2>10 DEF StepNext
<1> QED BY <1>1, <1>2

(* Until an operation throws, the mutex makes every operation of the cache *)
(* atomic: allocateSpan and deallocateSpan, step by step and with lookups  *)
(* in between, do what PageCache says they do in one step.                 *)
THEOREM ImplementsPageCacheCorrect == StepSpec => ImplementsPageCache
<1>1. StepInit => Followed /\ Atomic!Init
  <2>1. ASSUME StepInit
        PROVE  Followed /\ Atomic!Init
    <3>1. /\ op = Idle /\ op.at = "idle" /\ StepInv /\ Init
      BY <2>1, InitStepInv DEF StepInit, Idle
    <3>2. /\ Committed.spans = spans /\ Committed.freeSpans = freeSpans
          /\ Committed.pageMap = pageMap /\ Committed.systemAllocs = systemAllocs
          /\ Committed.cachedFreePages = cachedFreePages /\ Committed.osPages = osPages
      BY <3>1, CommittedIdle
    <3>3. Atomic!TypeOK
      BY <3>1, <3>2 DEF StepInv, StepTypeOK, TypeOK, Atomic!TypeOK, Atomic!SpanRecord, Atomic!Pages,
                        Atomic!Sizes, SpanRecord, Pages, Sizes
    <3>4. Followed
      BY <3>1, <3>3 DEF Followed, Underway
    <3>5. Atomic!Init
      BY <3>1, <3>2 DEF Init, Atomic!Init, EmptyMap, Atomic!EmptyMap, Sizes, Atomic!Sizes
    <3> QED BY <3>4, <3>5
  <2> QED BY <2>1
<1>2. StepInv /\ Followed /\ [StepNext]_stepVars /\ StepInv'
        => Followed' /\ [thrown' \/ Atomic!Next]_(Atomic!vars)
  BY StepFollows
<1> QED BY <1>1, <1>2, StepInvHolds, PTL DEF StepSpec, ImplementsPageCache
=============================================================================
