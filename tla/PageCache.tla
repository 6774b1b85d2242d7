----------------------------- MODULE PageCache -----------------------------
(***************************************************************************)
(* The page cache of the v3 pool (v3/src/PageCache.cpp).  Every public     *)
(* operation that changes state holds mutex_ from its first line to its    *)
(* last, so each is one atomic action here.                                *)
(*                                                                         *)
(* A page is a number; a Span object is named by its first page, which no  *)
(* code ever changes and which no two live Span objects share.  Within a   *)
(* size bin of freeSpans_ the order of the list is left out: any span of   *)
(* the bin may be at its head.  mmap may return any unmapped run, next to  *)
(* an existing mapping or not.                                             *)
(***************************************************************************)
EXTENDS Integers, FiniteSets

CONSTANTS
  NumPages,        \* pages of the modelled address space
  MaxCachedPages,  \* kMaxCachedBytes / systemPageSize()
  Granularity      \* systemAllocGranularity() / systemPageSize()

ASSUME PageCacheAssumption ==
  /\ NumPages \in Nat
  /\ MaxCachedPages \in Nat
  /\ Granularity \in Nat \ {0}

Pages == 0 .. NumPages - 1
Sizes == 1 .. NumPages

VARIABLES
  spans,           \* live Span objects: first page |-> fields
  freeSpans,       \* freeSpans_: number of pages |-> spans of that bin
  pageMap,         \* pageMap_: page |-> Span that covers it
  systemAllocs,    \* systemAllocs_: <<address, pages>> of every mapping
  cachedFreePages, \* cachedFreePages_
  osPages,         \* pages the operating system has mapped for us
  running          \* FALSE once the destructor has run

vars == <<spans, freeSpans, pageMap, systemAllocs, cachedFreePages, osPages, running>>

SpanRecord ==
  [numPages : Sizes, originAddr : Pages, originPages : Sizes,
   inFreeList : BOOLEAN, isLarge : BOOLEAN]

Run(s, n)  == s .. (s + n - 1)
End(s)     == s + spans[s].numPages
PagesOf(s) == Run(s, spans[s].numPages)
InUse      == {s \in DOMAIN spans : ~spans[s].inFreeList}
OwnsOrigin(s) == s = spans[s].originAddr /\ spans[s].numPages = spans[s].originPages

EmptyMap == [p \in {} |-> 0]

-----------------------------------------------------------------------------
(* Page map updates.  registerPages and redirectPages both point every     *)
(* page of a run at one span.                                              *)

registerPages(map, s, n) ==
  [p \in DOMAIN map \cup Run(s, n) |-> IF p \in Run(s, n) THEN s ELSE map[p]]

unregisterPages(map, s, n) == [p \in DOMAIN map \ Run(s, n) |-> map[p]]

Without(S) == [x \in DOMAIN spans \ S |-> spans[x]]

-----------------------------------------------------------------------------
(* allocateSpan(n) returning s.  isLarge is the flag the caller writes     *)
(* before it publishes any pointer into the span: TRUE for a large object, *)
(* FALSE in CentralCache::createSpan.                                      *)

(* freeSpans_.lower_bound(n): the smallest non-empty bin, if any.          *)
lowerBound(n) ==
  {k \in Sizes : k >= n /\ freeSpans[k] # {} /\ \A j \in n .. (k - 1) : freeSpans[j] = {}}

(* A variant that leaves the remainder in the bin the span came from.      *)
RemainderBinUnchanged(size, n) == size

RemainderBin(size, n) == size - n

CountAfterTake(size, n) ==
  cachedFreePages - size + (IF size > n THEN size - n ELSE 0)

TakeExact(n, s, large) ==
  /\ s \in freeSpans[n]
  /\ spans' = [spans EXCEPT ![s] = [@ EXCEPT !.inFreeList = FALSE, !.isLarge = large]]
  /\ freeSpans' = [freeSpans EXCEPT ![n] = @ \ {s}]
  /\ cachedFreePages' = CountAfterTake(n, n)
  /\ UNCHANGED <<pageMap, systemAllocs, osPages>>

TakeAndSplit(n, k, s, large) ==
  LET rest == s + n
      bin  == RemainderBin(k, n)
  IN  /\ k > n
      /\ s \in freeSpans[k]
      /\ spans' = [x \in DOMAIN spans \cup {rest} |->
                     CASE x = s    -> [spans[s] EXCEPT !.numPages = n, !.inFreeList = FALSE,
                                                       !.isLarge = large]
                       [] x = rest -> [spans[s] EXCEPT !.numPages = k - n, !.inFreeList = TRUE,
                                                       !.isLarge = FALSE]
                       [] OTHER    -> spans[x]]
      /\ freeSpans' = [j \in Sizes |-> (freeSpans[j] \ (IF j = k THEN {s} ELSE {}))
                                         \cup (IF j = bin THEN {rest} ELSE {})]
      /\ cachedFreePages' = CountAfterTake(k, n)
      /\ pageMap' = registerPages(registerPages(pageMap, rest, k - n), s, n)
      /\ UNCHANGED <<systemAllocs, osPages>>

(* systemAlloc: the request rounded up to the granularity, mapped anywhere *)
(* the operating system has room; the span covers the whole mapping.       *)
MapNewOrigin(n, s, large) ==
  \E m \in n .. (n + Granularity - 1) :
    /\ m % Granularity = 0
    /\ Run(s, m) \subseteq Pages \ osPages
    /\ osPages' = osPages \cup Run(s, m)
    /\ systemAllocs' = systemAllocs \cup {<<s, m>>}
    /\ spans' = [x \in DOMAIN spans \cup {s} |->
                   IF x = s THEN [numPages |-> m, originAddr |-> s, originPages |-> m,
                                  inFreeList |-> FALSE, isLarge |-> large]
                   ELSE spans[x]]
    /\ pageMap' = registerPages(pageMap, s, m)
    /\ UNCHANGED <<freeSpans, cachedFreePages>>

(* A failing mmap returns nullptr and changes nothing.                     *)
allocateSpan(numPages, s, large) ==
  LET n == IF numPages = 0 THEN 1 ELSE numPages
  IN  /\ running
      /\ UNCHANGED running
      /\ \/ \E k \in lowerBound(n) :
              \/ k = n /\ TakeExact(n, s, large)
              \/ TakeAndSplit(n, k, s, large)
         \/ lowerBound(n) = {} /\ MapNewOrigin(n, s, large)

-----------------------------------------------------------------------------
(* deallocateSpan(s).                                                      *)

(* removeFromFreeList succeeds: the span is found in the bin of its size.  *)
Removable(x) == x \in freeSpans[spans[x].numPages]

(* A variant that coalesces across the mappings of two mmap calls.         *)
NextMergeableAnyOrigin(s) ==
  /\ End(s) \in DOMAIN pageMap
  /\ LET x == pageMap[End(s)]
     IN  x # s /\ spans[x].inFreeList /\ x = End(s) /\ Removable(x)

NextMergeable(s) ==
  /\ End(s) \in DOMAIN pageMap
  /\ LET x == pageMap[End(s)]
     IN  /\ x # s
         /\ spans[x].inFreeList
         /\ x = End(s)
         /\ spans[x].originAddr = spans[s].originAddr
         /\ Removable(x)

(* A variant that never looks back.                                        *)
PrevMergeableNever(s) == FALSE

PrevMergeable(s) ==
  /\ s # spans[s].originAddr
  /\ (s - 1) \in DOMAIN pageMap
  /\ LET x == pageMap[s - 1]
     IN  /\ x # s
         /\ spans[x].inFreeList
         /\ spans[x].originAddr = spans[s].originAddr
         /\ End(x) = s
         /\ Removable(x)

(* The free neighbours taken off their lists, and the run they leave       *)
(* behind: its first page names the Span object that survives.             *)
Absorbed(s) ==
  (IF NextMergeable(s) THEN {End(s)} ELSE {})
    \cup (IF PrevMergeable(s) THEN {pageMap[s - 1]} ELSE {})
MergedStart(s) == IF PrevMergeable(s) THEN pageMap[s - 1] ELSE s
MergedEnd(s)   == IF NextMergeable(s) THEN End(End(s)) ELSE End(s)
MergedSize(s)  == MergedEnd(s) - MergedStart(s)

FreeSpansAfterMerge(s) ==
  [k \in Sizes |-> freeSpans[k] \ {x \in Absorbed(s) : spans[x].numPages = k}]

(* A variant that keeps counting an absorbed neighbour.                    *)
CountAfterMergeKept(s) == cachedFreePages

CountAfterMerge(s) == cachedFreePages - (MergedSize(s) - spans[s].numPages)

(* A variant that redirects only the pages of the span being freed.        *)
MapAfterMergePartial(s) == registerPages(pageMap, MergedStart(s), spans[s].numPages)

MapAfterMerge(s) == registerPages(pageMap, MergedStart(s), MergedSize(s))

(* A variant that releases the origin of any large span.                   *)
ReturnDirectAnyLarge(s) == spans[s].isLarge

(* A large object that owns its whole mapping skips the cache.             *)
ReturnDirect(s) == spans[s].isLarge /\ OwnsOrigin(s)

(* A variant that weighs the returning run alone against the budget.       *)
OverBudgetAlone(s) ==
  /\ MergedStart(s) = spans[s].originAddr
  /\ MergedSize(s) = spans[s].originPages
  /\ MergedSize(s) > MaxCachedPages

OverBudget(s) ==
  /\ MergedStart(s) = spans[s].originAddr
  /\ MergedSize(s) = spans[s].originPages
  /\ CountAfterMerge(s) + MergedSize(s) > MaxCachedPages

(* releaseOrigin of the span that now has n pages from s on.               *)
ReleaseOrigin(s, n, origin, map) ==
  /\ pageMap' = unregisterPages(map, s, n)
  /\ systemAllocs' = {a \in systemAllocs : a[1] # spans[origin].originAddr}
  /\ osPages' = osPages \ Run(spans[origin].originAddr, spans[origin].originPages)

ReturnToSystem(s) ==
  /\ ReturnDirect(s)
  /\ ReleaseOrigin(s, spans[s].numPages, s, pageMap)
  /\ spans' = Without({s})
  /\ UNCHANGED <<freeSpans, cachedFreePages>>

CoalesceAndRelease(s) ==
  /\ ~ReturnDirect(s)
  /\ OverBudget(s)
  /\ ReleaseOrigin(MergedStart(s), MergedSize(s), s, MapAfterMerge(s))
  /\ spans' = Without({s} \cup Absorbed(s))
  /\ freeSpans' = FreeSpansAfterMerge(s)
  /\ cachedFreePages' = CountAfterMerge(s)

CoalesceAndCache(s) ==
  LET head == MergedStart(s)
      size == MergedSize(s)
  IN  /\ ~ReturnDirect(s)
      /\ ~OverBudget(s)
      /\ spans' = [x \in DOMAIN spans \ (({s} \cup Absorbed(s)) \ {head}) |->
                     IF x = head
                     THEN [spans[x] EXCEPT !.numPages = size, !.inFreeList = TRUE,
                                           !.isLarge = FALSE]
                     ELSE spans[x]]
      /\ freeSpans' = [FreeSpansAfterMerge(s) EXCEPT ![size] = @ \cup {head}]
      /\ cachedFreePages' = CountAfterMerge(s) + size
      /\ pageMap' = MapAfterMerge(s)
      /\ UNCHANGED <<systemAllocs, osPages>>

deallocateSpan(s) ==
  /\ running
  /\ s \in InUse
  /\ UNCHANGED running
  /\ \/ ReturnToSystem(s)
     \/ CoalesceAndRelease(s)
     \/ CoalesceAndCache(s)

(* ~PageCache deletes the spans the page map names and unmaps every        *)
(* recorded mapping.                                                       *)
Destroy ==
  /\ running
  /\ running' = FALSE
  /\ spans' = Without({pageMap[p] : p \in DOMAIN pageMap})
  /\ pageMap' = EmptyMap
  /\ freeSpans' = [k \in Sizes |-> {}]
  /\ osPages' = osPages \ UNION {Run(a[1], a[2]) : a \in systemAllocs}
  /\ systemAllocs' = {}
  /\ UNCHANGED cachedFreePages

-----------------------------------------------------------------------------
Init ==
  /\ spans = EmptyMap
  /\ freeSpans = [k \in Sizes |-> {}]
  /\ pageMap = EmptyMap
  /\ systemAllocs = {}
  /\ cachedFreePages = 0
  /\ osPages = {}
  /\ running = TRUE

Next ==
  \/ \E n \in 0 .. NumPages, s \in Pages, large \in BOOLEAN : allocateSpan(n, s, large)
  \/ \E s \in DOMAIN spans : deallocateSpan(s)
  \/ Destroy

Spec == Init /\ [][Next]_vars

-----------------------------------------------------------------------------
(* Every variable has its type; in particular cachedFreePages_, a size_t,  *)
(* is never decremented below zero.                                        *)
TypeOK ==
  /\ DOMAIN spans \subseteq Pages
  /\ spans \in [DOMAIN spans -> SpanRecord]
  /\ freeSpans \in [Sizes -> SUBSET Pages]
  /\ DOMAIN pageMap \subseteq Pages
  /\ pageMap \in [DOMAIN pageMap -> Pages]
  /\ systemAllocs \subseteq Pages \X Sizes
  /\ cachedFreePages \in Nat
  /\ osPages \subseteq Pages
  /\ running \in BOOLEAN

(* pageMap_ sends every page of every live span to that span and no other  *)
(* page anywhere: through splits, merges and releases, spans never         *)
(* overlap, and findSpan never returns a deleted Span.                     *)
PageMapExact ==
  /\ \A s \in DOMAIN spans : \A p \in PagesOf(s) : p \in DOMAIN pageMap /\ pageMap[p] = s
  /\ \A p \in DOMAIN pageMap : pageMap[p] \in DOMAIN spans /\ p \in PagesOf(pageMap[p])

(* A span is in the bin of its own size exactly while its inFreeList flag  *)
(* says so: no bin keeps a deleted or resized span, no free span is lost.  *)
FreeListsExact ==
  \A k \in Sizes :
    freeSpans[k] = {s \in DOMAIN spans : spans[s].inFreeList /\ spans[s].numPages = k}

(* The spans carved from a mapping tile it: its pages are all mapped, all  *)
(* covered by spans of that same mapping, and exactly the mappings that    *)
(* still have spans are recorded.  So no mapping is released while a piece *)
(* is in use, and none is forgotten.                                       *)
OriginsExact ==
  /\ osPages = DOMAIN pageMap
  /\ systemAllocs = {<<spans[s].originAddr, spans[s].originPages>> : s \in DOMAIN spans}
  /\ \A s \in DOMAIN spans :
       /\ spans[s].originAddr <= s
       /\ End(s) <= spans[s].originAddr + spans[s].originPages
       /\ \A p \in Run(spans[s].originAddr, spans[s].originPages) :
            /\ p \in DOMAIN pageMap
            /\ spans[pageMap[p]].originAddr = spans[s].originAddr
            /\ spans[pageMap[p]].originPages = spans[s].originPages

(* Two neighbouring free spans of one mapping are always merged: the pool  *)
(* never holds a free mapping in fragments it could return whole.          *)
Coalesced ==
  \A s, t \in DOMAIN spans :
    ~ /\ spans[s].inFreeList
      /\ spans[t].inFreeList
      /\ spans[s].originAddr = spans[t].originAddr
      /\ End(s) = t

FreePages == {p \in DOMAIN pageMap : spans[pageMap[p]].inFreeList}

(* The running counter cachedFreePages_, which the budget and stats() rely *)
(* on, is the number of pages in free spans.                               *)
CachedExact == running => cachedFreePages = Cardinality(FreePages)

WhollyFreePages == {p \in FreePages : OwnsOrigin(pageMap[p])}

(* What the budget does bound: the pages of mappings that are cached whole *)
(* and could have been given back.                                         *)
WholeOriginBudget == Cardinality(WhollyFreePages) <= MaxCachedPages

(* The destructor leaves no Span object and no mapping behind.             *)
DestroyedClean == ~running => DOMAIN spans = {} /\ osPages = {}

(* README.md:52 and v3/tests/UnitTest.cpp:417 give 64 MiB as the upper     *)
(* limit of the page cache.  The code enforces it only for whole mappings. *)
CacheWithinBudget == running => cachedFreePages <= MaxCachedPages

(* The page cache keeps the promise of RangeAllocator to CentralCache and  *)
(* to the large-object path of ThreadCache; the runs in use are the spans  *)
(* outside the free lists.                                                 *)
LiveRuns == [s \in InUse |-> spans[s].numPages]
Abstract == INSTANCE RangeAllocator
              WITH Extent <- NumPages, Slack <- Granularity - 1, live <- LiveRuns
ImplementsRangeAllocator == Abstract!Spec
=============================================================================
