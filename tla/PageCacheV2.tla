----------------------------- MODULE PageCacheV2 -----------------------------
(***************************************************************************)
(* The page cache of v2 (v2/src/PageCache.cpp), the ancestor of PageCache: *)
(* an address-ordered map of all spans instead of a map of all pages, no   *)
(* flag on a span, neighbours merged even if the system mapped them apart, *)
(* and nothing given back to the system before the destructor runs.  Each  *)
(* operation holds mutex_ from its first line to its last.                 *)
(*                                                                         *)
(* A page is a number, a span is named by its first page.  The module that *)
(* models the callers says when the operations take place.                 *)
(***************************************************************************)
EXTENDS Integers, FiniteSets

CONSTANT NumPages      \* pages of the modelled address space

ASSUME PageCacheV2Assumption == NumPages \in Nat

Pages == 0 .. NumPages - 1
Sizes == 1 .. NumPages

VARIABLES
  spanMap,       \* spanMap_: first page |-> numPages
  freeSpans,     \* freeSpans_: number of pages |-> spans of that bin
  systemAllocs,  \* systemAllocs_: <<address, pages>>
  osPages,       \* pages the operating system has mapped for us
  running,       \* FALSE once the destructor has run
  held           \* what the central cache holds: first page |-> pages

pageVars == <<spanMap, freeSpans, systemAllocs, osPages, running, held>>

Run(s, n)   == s .. (s + n - 1)
End(s)      == s + spanMap[s]
PagesOf(s)  == Run(s, spanMap[s])
Listed      == UNION {freeSpans[k] : k \in Sizes}
FreePages   == UNION {PagesOf(s) : s \in Listed}

-----------------------------------------------------------------------------
(* A variant that wants a span longer than what is asked for.              *)
lowerBoundAbove(n) ==
  {k \in (n + 1) .. NumPages : freeSpans[k] # {} /\ \A j \in (n + 1) .. (k - 1) : freeSpans[j] = {}}

lowerBound(n) ==
  {k \in n .. NumPages : freeSpans[k] # {} /\ \A j \in n .. (k - 1) : freeSpans[j] = {}}

(* A variant that forgets to enter the remainder in spanMap_.              *)
WithRemainderUnmapped(s, n) == [spanMap EXCEPT ![s] = n]

WithRemainder(s, n) ==
  [x \in DOMAIN spanMap \cup {s + n} |->
     CASE x = s     -> n
       [] x = s + n -> spanMap[s] - n
       [] OTHER     -> spanMap[x]]

BinAfter(bin, s) == bin \ {s}

AllocateFromList(n, s) ==
  \E k \in lowerBound(n) :
    /\ s \in freeSpans[k]
    /\ \/ /\ k = n
          /\ freeSpans' = [freeSpans EXCEPT ![k] = BinAfter(@, s)]
          /\ UNCHANGED spanMap
       \/ /\ k > n
          /\ freeSpans' = [freeSpans EXCEPT ![k] = @ \ {s}, ![k - n] = @ \cup {s + n}]
          /\ spanMap' = WithRemainder(s, n)
    /\ UNCHANGED <<systemAllocs, osPages>>

(* mmap may return any unmapped run; a failing mmap changes nothing.       *)
AllocateFromSystem(n, s) ==
  /\ lowerBound(n) = {}
  /\ Run(s, n) \subseteq Pages \ osPages
  /\ osPages' = osPages \cup Run(s, n)
  /\ systemAllocs' = systemAllocs \cup {<<s, n>>}
  /\ spanMap' = [x \in DOMAIN spanMap \cup {s} |-> IF x = s THEN n ELSE spanMap[x]]
  /\ UNCHANGED freeSpans

allocateSpan(n, s) ==
  /\ running
  /\ UNCHANGED running
  /\ held' = [x \in DOMAIN held \cup {s} |-> IF x = s THEN n ELSE held[x]]
  /\ AllocateFromList(n, s) \/ AllocateFromSystem(n, s)

-----------------------------------------------------------------------------
(* deallocateSpan of a span as long as it was when it was handed out.      *)
(* removeFromFreeList finds a span in the bin of its size or does nothing: *)
(* that is how a free neighbour is told from one in use.                   *)

Removable(x) == x \in freeSpans[spanMap[x]]

NextMerged(s) == {x \in DOMAIN spanMap : x = End(s) /\ Removable(x)}

(* The span just below in the map, if it ends where this one begins.       *)
PrevMerged(s) ==
  {x \in DOMAIN spanMap :
     /\ x < s
     /\ \A y \in DOMAIN spanMap : y < s => y <= x
     /\ End(x) = s
     /\ Removable(x)}

Absorbed(s) == NextMerged(s) \cup PrevMerged(s)

MergedStart(s) == IF PrevMerged(s) = {} THEN s ELSE CHOOSE x \in PrevMerged(s) : TRUE

MergedEnd(s) == IF NextMerged(s) = {} THEN End(s) ELSE End(End(s))

MergedSize(s) == MergedEnd(s) - MergedStart(s)

deallocateSpan(s) ==
  /\ running
  /\ held' = [x \in DOMAIN held \ {s} |-> held[x]]
  /\ spanMap' = [x \in (DOMAIN spanMap \ ({s} \cup Absorbed(s))) \cup {MergedStart(s)} |->
                   IF x = MergedStart(s) THEN MergedSize(s) ELSE spanMap[x]]
  /\ freeSpans' = [k \in Sizes |-> (freeSpans[k] \ Absorbed(s))
                                     \cup (IF k = MergedSize(s) THEN {MergedStart(s)} ELSE {})]
  /\ UNCHANGED <<systemAllocs, osPages, running>>

Unmapped == UNION {Run(a[1], a[2]) : a \in systemAllocs}

DestroyCache ==
  /\ running
  /\ running' = FALSE
  /\ spanMap' = [s \in {} |-> 0]
  /\ held' = [s \in {} |-> 0]
  /\ freeSpans' = [k \in Sizes |-> {}]
  /\ osPages' = osPages \ Unmapped
  /\ UNCHANGED systemAllocs

PageInit ==
  /\ spanMap = [s \in {} |-> 0]
  /\ freeSpans = [k \in Sizes |-> {}]
  /\ systemAllocs = {}
  /\ osPages = {}
  /\ running = TRUE
  /\ held = [s \in {} |-> 0]

(* Any caller that gives back what it was handed, at its length.           *)
PageNext ==
  \/ \E n \in Sizes, s \in Pages : allocateSpan(n, s)
  \/ \E s \in DOMAIN held : deallocateSpan(s)
  \/ DestroyCache

PageSpec == PageInit /\ [][PageNext]_pageVars

-----------------------------------------------------------------------------
(* The spans in spanMap_ tile the memory mapped, as long as every span is  *)
(* given back at its length: none is lost, no two overlap, and every span  *)
(* on a list is in the map with the bin's size.                            *)
TilesMemory ==
  /\ running => UNION {PagesOf(s) : s \in DOMAIN spanMap} = osPages
  /\ \A s, t \in DOMAIN spanMap : s # t => PagesOf(s) \cap PagesOf(t) = {}
  /\ \A k \in Sizes : \A s \in freeSpans[k] : s \in DOMAIN spanMap /\ spanMap[s] = k

(* The system is asked for pages only if no run of free pages is long      *)
(* enough, wherever the mappings it has given before begin and end.        *)
MapsOnlyForWant ==
  [][\A n \in Sizes, s \in Pages :
       <<s, n>> \in systemAllocs' \ systemAllocs =>
         ~ \E p \in Pages : Run(p, n) \subseteq FreePages]_pageVars

(* The destructor unmaps everything.                                       *)
DestroyedClean == ~ running => osPages = {}

(* To the central cache the page cache is RangeAllocator.                  *)
SpanPromise == INSTANCE RangeAllocator
                 WITH Extent <- NumPages, Slack <- 0, live <- held
ImplementsSpanPromise == SpanPromise!Spec
=============================================================================
