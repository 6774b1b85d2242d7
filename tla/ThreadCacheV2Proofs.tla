------------------------- MODULE ThreadCacheV2Proofs -------------------------
(***************************************************************************)
(* Proofs about v2: PageCacheV2 for any number of pages and any caller     *)
(* that gives back what it was handed, and ThreadCacheV2 on top of it for  *)
(* any threads, classes, sizes and thresholds.                             *)
(***************************************************************************)
EXTENDS ThreadCacheV2, FiniteSetTheorems, SequenceTheorems, TLAPS

Orders == INSTANCE WellFoundedInduction

-----------------------------------------------------------------------------
(* The page cache of v2.                                                   *)
(*                                                                         *)
(* SpansInv is inductive.  To TilesMemory it adds that the spans outside   *)
(* the lists are those the caller holds, that no free span begins where    *)
(* another ends, and that the mappings recorded are the memory mapped.     *)

SpansTyped ==
  /\ DOMAIN spanMap \subseteq Pages /\ spanMap \in [DOMAIN spanMap -> Sizes]
  /\ freeSpans \in [Sizes -> SUBSET Pages]
  /\ systemAllocs \subseteq Pages \X Sizes
  /\ osPages \subseteq Pages
  /\ running \in BOOLEAN

(* The caller holds the spans that are on no list, at their length.        *)
HeldExact == held = [s \in DOMAIN spanMap \ Listed |-> spanMap[s]]

(* Free neighbours have been merged.                                       *)
Merged == \A s, t \in Listed : End(s) # t

(* The destructor knows of every page that is mapped.                      *)
Recorded == running => osPages = Unmapped

(* The inductive invariant.                                                *)
SpansInv == SpansTyped /\ TilesMemory /\ HeldExact /\ Merged /\ Recorded /\ DestroyedClean

-----------------------------------------------------------------------------
(* What SpansInv says of one span.                                         *)
LEMMA SpanFacts ==
  ASSUME SpansInv, NEW s \in DOMAIN spanMap
  PROVE  /\ s \in Pages /\ s \in Nat
         /\ spanMap[s] \in Sizes /\ spanMap[s] \in Nat \ {0}
         /\ End(s) \in Nat /\ s < End(s)
         /\ PagesOf(s) = {p \in Nat : s <= p /\ p < End(s)}
<1>1. /\ s \in Pages /\ spanMap[s] \in Sizes
  BY DEF SpansInv, SpansTyped
<1> QED BY <1>1, PageCacheV2Assumption DEF Pages, Sizes, End, PagesOf, Run

(* The bins hold spans of the map, each in the bin of its size.            *)
LEMMA ListedFacts ==
  ASSUME SpansInv
  PROVE  /\ Listed \subseteq DOMAIN spanMap
         /\ \A x \in DOMAIN spanMap : Removable(x) <=> x \in Listed
         /\ \A k \in Sizes : \A x \in freeSpans[k] : x \in Listed /\ spanMap[x] = k
<1>1. \A k \in Sizes : \A x \in freeSpans[k] : x \in DOMAIN spanMap /\ spanMap[x] = k
  BY DEF SpansInv, TilesMemory
<1>2. \A x \in DOMAIN spanMap : spanMap[x] \in Sizes
  BY SpanFacts
<1> QED BY <1>1, <1>2 DEF Listed, Removable

(* Spans that share a page are one.                                        *)
LEMMA OneSpan ==
  ASSUME SpansInv, NEW s \in DOMAIN spanMap, NEW t \in DOMAIN spanMap,
         NEW p, p \in PagesOf(s), p \in PagesOf(t)
  PROVE  s = t
BY DEF SpansInv, TilesMemory

(* The pages of spans are mapped while the cache lives.                    *)
LEMMA SpansMapped ==
  ASSUME SpansInv, running, NEW s \in DOMAIN spanMap
  PROVE  PagesOf(s) \subseteq osPages /\ PagesOf(s) \subseteq Pages
<1>1. UNION {PagesOf(x) : x \in DOMAIN spanMap} = osPages
  BY DEF SpansInv, TilesMemory
<1>2. PagesOf(s) \in {PagesOf(x) : x \in DOMAIN spanMap}
  OBVIOUS
<1> QED BY <1>1, <1>2 DEF SpansInv, SpansTyped

-----------------------------------------------------------------------------
(* A span is taken from the bin of its size.                               *)
LEMMA TakeExactInv ==
  ASSUME SpansInv, running, UNCHANGED <<running, spanMap, systemAllocs, osPages>>,
         NEW n \in Sizes, NEW s \in freeSpans[n],
         freeSpans' = [freeSpans EXCEPT ![n] = @ \ {s}],
         held' = [x \in DOMAIN held \cup {s} |-> IF x = s THEN n ELSE held[x]]
  PROVE  SpansInv'
<1>1. s \in Listed /\ s \in DOMAIN spanMap /\ spanMap[s] = n
  BY ListedFacts
<1>2. \A k \in Sizes : freeSpans'[k] = freeSpans[k] \ {s}
  <2>1. \A k \in Sizes : k # n => s \notin freeSpans[k]
    BY <1>1, ListedFacts
  <2> QED BY <2>1 DEF SpansInv, SpansTyped
<1>3. Listed' = Listed \ {s}
  BY <1>2 DEF Listed
<1>4. SpansTyped'
  BY <1>2 DEF SpansInv, SpansTyped
<1>5. TilesMemory'
  BY <1>2 DEF SpansInv, TilesMemory, PagesOf
<1>6. HeldExact'
  <2>1. held = [x \in DOMAIN spanMap \ Listed |-> spanMap[x]]
    BY DEF SpansInv, HeldExact
  <2>2. DOMAIN held \cup {s} = DOMAIN spanMap \ Listed'
    BY <1>1, <1>3, <2>1
  <2>3. \A x \in DOMAIN spanMap \ Listed' : (IF x = s THEN n ELSE held[x]) = spanMap[x]
    BY <1>1, <1>3, <2>1
  <2> QED BY <2>2, <2>3 DEF HeldExact
<1>7. Merged'
  BY <1>3 DEF SpansInv, Merged, End
<1>8. Recorded' /\ DestroyedClean'
  BY DEF SpansInv, Recorded, DestroyedClean, Unmapped
<1> QED BY <1>4, <1>5, <1>6, <1>7, <1>8 DEF SpansInv

(* A longer span is cut, and its rest goes to another bin.                 *)
LEMMA TakeAndSplitInv ==
  ASSUME SpansInv, running, UNCHANGED <<running, systemAllocs, osPages>>,
         NEW n \in Sizes, NEW k \in Sizes, n < k, NEW s \in freeSpans[k],
         freeSpans' = [freeSpans EXCEPT ![k] = @ \ {s}, ![k - n] = @ \cup {s + n}],
         spanMap' = WithRemainder(s, n),
         held' = [x \in DOMAIN held \cup {s} |-> IF x = s THEN n ELSE held[x]]
  PROVE  SpansInv'
<1> DEFINE r == s + n
<1>1. s \in Listed /\ s \in DOMAIN spanMap /\ spanMap[s] = k
  BY ListedFacts
<1>2. /\ n \in Nat \ {0} /\ k \in Nat \ {0} /\ k - n \in Sizes /\ k - n \in Nat \ {0}
      /\ s \in Nat /\ r \in Nat /\ PagesOf(s) = {p \in Nat : s <= p /\ p < s + k}
  BY <1>1, SpanFacts, PageCacheV2Assumption DEF Sizes, End
<1>3. r \in PagesOf(s) /\ (r - 1) \in PagesOf(s)
  BY <1>2
<1>4. r \in Pages /\ r \notin DOMAIN spanMap
  <2>1. r \in Pages
    BY <1>1, <1>3, SpansMapped
  <2>2. r \in DOMAIN spanMap => r \in PagesOf(r)
    BY SpanFacts
  <2>3. r # s
    BY <1>2
  <2> QED BY <1>1, <1>3, <2>1, <2>2, <2>3, OneSpan
<1> HIDE DEF r
<1>5. /\ DOMAIN spanMap' = DOMAIN spanMap \cup {r}
      /\ spanMap'[s] = n /\ spanMap'[r] = k - n
      /\ \A x \in DOMAIN spanMap : x # s => spanMap'[x] = spanMap[x]
  BY <1>1, <1>4 DEF WithRemainder, r
<1>6. \A j \in Sizes : freeSpans'[j] = (freeSpans[j] \ {s}) \cup (IF j = k - n THEN {r} ELSE {})
  <2>1. \A j \in Sizes : j # k => s \notin freeSpans[j]
    BY <1>1, ListedFacts
  <2>2. k - n # k
    BY <1>2
  <2> QED BY <1>2, <2>1, <2>2 DEF SpansInv, SpansTyped, r
<1>7. Listed' = (Listed \ {s}) \cup {r}
  <2>1. \A x : x \in Listed' <=> \E j \in Sizes : x \in freeSpans'[j]
    BY DEF Listed
  <2>2. \A x : x \in Listed <=> \E j \in Sizes : x \in freeSpans[j]
    BY DEF Listed
  <2>3. r \in freeSpans'[k - n] /\ k - n \in Sizes
    BY <1>2, <1>6
  <2>4. \A j \in Sizes : \A x : x \in freeSpans'[j] => (x \in freeSpans[j] /\ x # s) \/ x = r
    BY <1>6
  <2>5. \A j \in Sizes : \A x : x \in freeSpans[j] /\ x # s => x \in freeSpans'[j]
    BY <1>6
  <2>6. \A x : x \in Listed' => x \in (Listed \ {s}) \cup {r}
    BY <2>1, <2>2, <2>4
  <2>7. \A x : x \in (Listed \ {s}) \cup {r} => x \in Listed'
    BY <2>1, <2>2, <2>3, <2>5
  <2> QED BY <2>6, <2>7
<1>8. /\ PagesOf(s)' = {p \in Nat : s <= p /\ p < r}
      /\ PagesOf(r)' = {p \in Nat : r <= p /\ p < s + k}
      /\ PagesOf(s)' \cup PagesOf(r)' = PagesOf(s) /\ PagesOf(s)' \cap PagesOf(r)' = {}
      /\ \A x \in DOMAIN spanMap : x # s => PagesOf(x)' = PagesOf(x)
  <2>1. PagesOf(s)' = s .. (s + n - 1) /\ PagesOf(r)' = r .. (r + (k - n) - 1)
    BY <1>5 DEF PagesOf, Run
  <2>2. /\ PagesOf(s)' = {p \in Nat : s <= p /\ p < r}
        /\ PagesOf(r)' = {p \in Nat : r <= p /\ p < s + k}
    BY <1>2, <2>1 DEF r
  <2>3. s < r /\ r < s + k
    BY <1>2 DEF r
  <2>4. \A x \in DOMAIN spanMap : x # s => PagesOf(x)' = PagesOf(x)
    BY <1>5 DEF PagesOf
  <2> QED BY <1>2, <2>2, <2>3, <2>4
<1>9. SpansTyped'
  <2>1. spanMap' \in [DOMAIN spanMap' -> Sizes]
    <3>1. \A x \in DOMAIN spanMap' : spanMap'[x] \in Sizes
      BY <1>2, <1>5, SpanFacts
    <3>2. spanMap' = [x \in DOMAIN spanMap' |-> spanMap'[x]]
      BY DEF WithRemainder
    <3> QED BY <3>1, <3>2
  <2>2. freeSpans' \in [Sizes -> SUBSET Pages]
    <3>1. \A j \in Sizes : freeSpans'[j] \in SUBSET Pages
      BY <1>4, <1>6 DEF SpansInv, SpansTyped
    <3> QED BY <3>1 DEF SpansInv, SpansTyped
  <2> QED BY <1>4, <1>5, <2>1, <2>2 DEF SpansInv, SpansTyped
<1>10. TilesMemory'
  <2>1. UNION {PagesOf(x)' : x \in DOMAIN spanMap'} = UNION {PagesOf(x) : x \in DOMAIN spanMap}
    BY <1>1, <1>5, <1>8
  <2>2. \A x, y \in DOMAIN spanMap' : x # y => PagesOf(x)' \cap PagesOf(y)' = {}
    <3>1. \A x \in DOMAIN spanMap \ {s} : /\ PagesOf(x)' \cap PagesOf(s)' = {}
                                          /\ PagesOf(x)' \cap PagesOf(r)' = {}
      BY <1>1, <1>8 DEF SpansInv, TilesMemory
    <3>2. \A x, y \in DOMAIN spanMap \ {s} : x # y => PagesOf(x)' \cap PagesOf(y)' = {}
      BY <1>8 DEF SpansInv, TilesMemory
    <3> QED BY <1>5, <1>8, <3>1, <3>2
  <2>3. \A j \in Sizes : \A x \in freeSpans'[j] : x \in DOMAIN spanMap' /\ spanMap'[x] = j
    <3>1. \A j \in Sizes : \A x \in freeSpans[j] \ {s} : x \in DOMAIN spanMap /\ spanMap[x] = j /\ x # s
      BY ListedFacts
    <3> QED BY <1>5, <1>6, <3>1
  <2> QED BY <2>1, <2>2, <2>3 DEF SpansInv, TilesMemory
<1>11. HeldExact'
  <2>1. held = [x \in DOMAIN spanMap \ Listed |-> spanMap[x]]
    BY DEF SpansInv, HeldExact
  <2>2. DOMAIN held \cup {s} = DOMAIN spanMap' \ Listed'
    BY <1>1, <1>4, <1>5, <1>7, <2>1, ListedFacts
  <2>3. \A x \in DOMAIN held \cup {s} : (IF x = s THEN n ELSE held[x]) = spanMap'[x]
    BY <1>1, <1>5, <2>1
  <2> QED BY <2>2, <2>3 DEF HeldExact
<1>12. Merged'
  <2>1. End(r)' = s + k /\ \A x \in Listed \ {s} : End(x)' = End(x)
    BY <1>2, <1>5, ListedFacts DEF End, r
  <2>2. \A y \in Listed \ {s} : s + k # y
    BY <1>1 DEF SpansInv, Merged, End
  <2>3. \A x \in Listed \ {s} : End(x) # r
    <3> SUFFICES ASSUME NEW x \in Listed \ {s}, End(x) = r
                 PROVE  FALSE
      OBVIOUS
    <3>1. x \in DOMAIN spanMap
      BY ListedFacts
    <3>2. (r - 1) \in PagesOf(x)
      BY <1>2, <3>1, SpanFacts
    <3> QED BY <1>1, <1>3, <3>1, <3>2, OneSpan
  <2>4. \A x, y \in Listed \ {s} : End(x) # y
    BY DEF SpansInv, Merged
  <2>5. s + k # r
    BY <1>2 DEF r
  <2> QED BY <1>7, <2>1, <2>2, <2>3, <2>4, <2>5 DEF Merged
<1>13. Recorded' /\ DestroyedClean'
  BY DEF SpansInv, Recorded, DestroyedClean, Unmapped
<1> QED BY <1>9, <1>10, <1>11, <1>12, <1>13 DEF SpansInv

(* A new mapping overlaps nothing and is handed out whole.                 *)
LEMMA AllocateFromSystemInv ==
  ASSUME SpansInv, running, UNCHANGED running,
         NEW n \in Sizes, NEW s \in Pages, AllocateFromSystem(n, s),
         held' = [x \in DOMAIN held \cup {s} |-> IF x = s THEN n ELSE held[x]]
  PROVE  SpansInv'
<1>1. /\ Run(s, n) \subseteq Pages \ osPages
      /\ osPages' = osPages \cup Run(s, n)
      /\ systemAllocs' = systemAllocs \cup {<<s, n>>}
      /\ spanMap' = [x \in DOMAIN spanMap \cup {s} |-> IF x = s THEN n ELSE spanMap[x]]
      /\ UNCHANGED freeSpans
  BY DEF AllocateFromSystem
<1>2. s \in Run(s, n)
  BY PageCacheV2Assumption DEF Run, Pages, Sizes
<1>3. \A x \in DOMAIN spanMap : PagesOf(x) \cap Run(s, n) = {}
  BY <1>1, SpansMapped
<1>4. s \notin DOMAIN spanMap
  <2>1. s \in DOMAIN spanMap => s \in PagesOf(s)
    BY SpanFacts
  <2> QED BY <1>2, <1>3, <2>1
<1>5. /\ DOMAIN spanMap' = DOMAIN spanMap \cup {s}
      /\ spanMap'[s] = n
      /\ \A x \in DOMAIN spanMap : spanMap'[x] = spanMap[x]
  BY <1>1, <1>4
<1>6. PagesOf(s)' = Run(s, n) /\ \A x \in DOMAIN spanMap : PagesOf(x)' = PagesOf(x)
  BY <1>5 DEF PagesOf
<1>7. Listed' = Listed /\ s \notin Listed
  BY <1>1, <1>4, ListedFacts DEF Listed
<1>8. SpansTyped'
  BY <1>1, <1>5 DEF SpansInv, SpansTyped
<1>9. TilesMemory'
  <2>1. UNION {PagesOf(x)' : x \in DOMAIN spanMap'}
          = (UNION {PagesOf(x) : x \in DOMAIN spanMap}) \cup Run(s, n)
    BY <1>5, <1>6
  <2>2. \A x, y \in DOMAIN spanMap' : x # y => PagesOf(x)' \cap PagesOf(y)' = {}
    BY <1>3, <1>5, <1>6 DEF SpansInv, TilesMemory
  <2>3. \A j \in Sizes : \A x \in freeSpans'[j] : x \in DOMAIN spanMap' /\ spanMap'[x] = j
    BY <1>1, <1>5 DEF SpansInv, TilesMemory
  <2> QED BY <1>1, <2>1, <2>2, <2>3 DEF SpansInv, TilesMemory
<1>10. HeldExact'
  <2>1. held = [x \in DOMAIN spanMap \ Listed |-> spanMap[x]]
    BY DEF SpansInv, HeldExact
  <2>2. DOMAIN held \cup {s} = DOMAIN spanMap' \ Listed'
    BY <1>5, <1>7, <2>1
  <2>3. \A x \in DOMAIN held \cup {s} : (IF x = s THEN n ELSE held[x]) = spanMap'[x]
    BY <1>5, <2>1
  <2> QED BY <2>2, <2>3 DEF HeldExact
<1>11. Merged'
  BY <1>5, <1>7, ListedFacts DEF SpansInv, Merged, End
<1>12. Recorded' /\ DestroyedClean'
  <2>1. Unmapped' = Unmapped \cup Run(s, n)
    <3> DEFINE Of(a) == Run(a[1], a[2])
    <3>1. Of(<<s, n>>) = Run(s, n)
      OBVIOUS
    <3>2. Unmapped = UNION {Of(a) : a \in systemAllocs}
          /\ Unmapped' = UNION {Of(a) : a \in systemAllocs'}
      BY DEF Unmapped
    <3> HIDE DEF Of
    <3>3. Unmapped' = UNION {Of(a) : a \in systemAllocs \cup {<<s, n>>}}
      BY <1>1, <3>2
    <3> QED BY <3>1, <3>2, <3>3
  <2> QED BY <1>1, <2>1 DEF SpansInv, Recorded, DestroyedClean
<1> QED BY <1>8, <1>9, <1>10, <1>11, <1>12 DEF SpansInv

-----------------------------------------------------------------------------
(* deallocateSpan.                                                         *)

(* What the caller holds is in the map and on no list.                     *)
LEMMA HeldFacts ==
  ASSUME SpansInv, NEW s \in DOMAIN held
  PROVE  s \in DOMAIN spanMap /\ s \notin Listed /\ held[s] = spanMap[s]
BY DEF SpansInv, HeldExact

(* The span behind is absorbed if and only if it is free.                  *)
LEMMA NextFacts ==
  ASSUME SpansInv, NEW s \in DOMAIN spanMap
  PROVE  /\ NextMerged(s) = {x \in Listed : x = End(s)}
         /\ MergedEnd(s) \in Nat /\ End(s) <= MergedEnd(s)
         /\ UNION {PagesOf(x) : x \in NextMerged(s)} = {p \in Nat : End(s) <= p /\ p < MergedEnd(s)}
         /\ \A x \in Listed \ NextMerged(s) : MergedEnd(s) # x
<1>1. NextMerged(s) = {x \in Listed : x = End(s)}
  BY ListedFacts DEF NextMerged
<1>2. CASE NextMerged(s) = {}
  <2>1. MergedEnd(s) = End(s)
    BY <1>2 DEF MergedEnd
  <2> QED BY <1>1, <1>2, <2>1, SpanFacts
<1>3. CASE NextMerged(s) # {}
  <2>1. NextMerged(s) = {End(s)} /\ End(s) \in Listed
    BY <1>1, <1>3
  <2>2. MergedEnd(s) = End(End(s))
    BY <1>3 DEF MergedEnd
  <2>3. End(s) \in DOMAIN spanMap
    BY <2>1, ListedFacts
  <2>4. /\ End(End(s)) \in Nat /\ End(s) < End(End(s)) /\ End(s) \in Nat
        /\ PagesOf(End(s)) = {p \in Nat : End(s) <= p /\ p < End(End(s))}
    BY <2>3, SpanFacts
  <2>5. UNION {PagesOf(x) : x \in NextMerged(s)} = PagesOf(End(s))
    BY <2>1
  <2>6. \A x \in Listed : End(End(s)) # x
    BY <2>1 DEF SpansInv, Merged
  <2> QED BY <1>1, <2>2, <2>4, <2>5, <2>6
<1> QED BY <1>2, <1>3

(* The span in front is absorbed if and only if it is free and adjacent.   *)
LEMMA PrevFacts ==
  ASSUME SpansInv, NEW s \in DOMAIN spanMap
  PROVE  /\ PrevMerged(s) = {x \in Listed : End(x) = s}
         /\ MergedStart(s) \in PrevMerged(s) \cup {s}
         /\ PrevMerged(s) \subseteq {MergedStart(s)}
         /\ MergedStart(s) \in Nat /\ MergedStart(s) <= s
         /\ UNION {PagesOf(x) : x \in PrevMerged(s)} = {p \in Nat : MergedStart(s) <= p /\ p < s}
         /\ \A x \in Listed \ PrevMerged(s) : End(x) # MergedStart(s)
<1>1. PrevMerged(s) = {x \in Listed : End(x) = s}
  <2>1. ASSUME NEW x \in Listed, End(x) = s
        PROVE  x \in PrevMerged(s)
    <3>1. x \in DOMAIN spanMap /\ Removable(x) /\ x < s /\ x \in Nat
      BY <2>1, ListedFacts, SpanFacts
    <3>2. ASSUME NEW y \in DOMAIN spanMap, y < s
          PROVE  y <= x
      <4>1. y \in Nat /\ y \in PagesOf(y)
        BY SpanFacts
      <4>2. x < y => y \in PagesOf(x)
        BY <2>1, <3>1, <3>2, <4>1, SpanFacts
      <4> QED BY <3>1, <4>1, <4>2, OneSpan
    <3> QED BY <2>1, <3>1, <3>2 DEF PrevMerged
  <2> QED BY <2>1, ListedFacts DEF PrevMerged
<1>2. CASE PrevMerged(s) = {}
  <2>1. MergedStart(s) = s
    BY <1>2 DEF MergedStart
  <2> QED BY <1>1, <1>2, <2>1, SpanFacts
<1>3. CASE PrevMerged(s) # {}
  <2> DEFINE x == MergedStart(s)
  <2>1. x \in PrevMerged(s)
    BY <1>3 DEF MergedStart
  <2> HIDE DEF x
  <2>2. x \in Listed /\ End(x) = s /\ x \in DOMAIN spanMap
    BY <1>1, <2>1, ListedFacts
  <2>3. x \in Nat /\ x < s /\ s \in Nat /\ PagesOf(x) = {p \in Nat : x <= p /\ p < s}
    BY <2>2, SpanFacts
  <2>4. ASSUME NEW y \in PrevMerged(s)
        PROVE  y = x
    <3>1. y \in DOMAIN spanMap /\ End(y) = s
      BY <1>1, ListedFacts
    <3>2. y \in Nat /\ y < s /\ PagesOf(y) = {p \in Nat : y <= p /\ p < s}
      BY <3>1, SpanFacts
    <3>3. s - 1 \in PagesOf(x) /\ s - 1 \in PagesOf(y)
      BY <2>3, <3>2
    <3> QED BY <2>2, <3>1, <3>3, OneSpan
  <2>5. PrevMerged(s) = {x}
    BY <2>1, <2>4
  <2>6. UNION {PagesOf(y) : y \in PrevMerged(s)} = PagesOf(x)
    BY <2>5
  <2>7. \A y \in Listed : End(y) # x
    BY <2>2 DEF SpansInv, Merged
  <2> QED BY <1>1, <2>3, <2>5, <2>6, <2>7 DEF x
<1> QED BY <1>2, <1>3

(* The merged span covers the pages of what it is made of and lies next to *)
(* no other free span.                                                     *)
LEMMA MergeFacts ==
  ASSUME SpansInv, running, NEW s \in DOMAIN held
  PROVE  /\ Absorbed(s) \subseteq Listed /\ s \notin Absorbed(s)
         /\ MergedStart(s) \in Absorbed(s) \cup {s}
         /\ MergedStart(s) \in Pages /\ MergedSize(s) \in Sizes
         /\ Run(MergedStart(s), MergedSize(s))
              = PagesOf(s) \cup UNION {PagesOf(x) : x \in Absorbed(s)}
         /\ MergedStart(s) + MergedSize(s) = MergedEnd(s)
         /\ \A x \in Listed \ Absorbed(s) : End(x) # MergedStart(s) /\ MergedEnd(s) # x
<1> DEFINE h == MergedStart(s)
           e == MergedEnd(s)
           N == UNION {PagesOf(x) : x \in NextMerged(s)}
           P == UNION {PagesOf(x) : x \in PrevMerged(s)}
<1>1. s \in DOMAIN spanMap /\ s \notin Listed
  BY HeldFacts
<1>2. /\ s \in Nat /\ End(s) \in Nat /\ s < End(s)
      /\ PagesOf(s) = {p \in Nat : s <= p /\ p < End(s)}
  BY <1>1, SpanFacts
<1>3. /\ NextMerged(s) \subseteq Listed
      /\ e \in Nat /\ End(s) <= e
      /\ N = {p \in Nat : End(s) <= p /\ p < e}
      /\ \A x \in Listed \ NextMerged(s) : e # x
  BY <1>1, NextFacts
<1>4. /\ PrevMerged(s) \subseteq Listed
      /\ h \in PrevMerged(s) \cup {s}
      /\ h \in Nat /\ h <= s
      /\ P = {p \in Nat : h <= p /\ p < s}
      /\ \A x \in Listed \ PrevMerged(s) : End(x) # h
  BY <1>1, PrevFacts
<1>5. UNION {PagesOf(x) : x \in Absorbed(s)} = N \cup P
  BY DEF Absorbed
<1>6. Absorbed(s) \subseteq Listed /\ h \in Absorbed(s) \cup {s}
  BY <1>3, <1>4 DEF Absorbed
<1>7. N \cup P \cup PagesOf(s) \subseteq Pages
  <2>1. \A x \in Absorbed(s) : PagesOf(x) \subseteq Pages
    BY <1>6, ListedFacts, SpansMapped
  <2>2. N \cup P \subseteq Pages
    BY <1>5, <2>1
  <2> QED BY <1>1, <2>2, SpansMapped
<1>8. MergedSize(s) = e - h
  BY DEF MergedSize
<1>9. \A x \in Listed \ Absorbed(s) : End(x) # h /\ e # x
  BY <1>3, <1>4 DEF Absorbed
<1> HIDE DEF h, e, N, P
<1>10. N \cup P \cup PagesOf(s) = {p \in Nat : h <= p /\ p < e}
  BY <1>2, <1>3, <1>4
<1>11. h \in Pages /\ e - 1 \in Pages
  <2>1. h \in {p \in Nat : h <= p /\ p < e} /\ e - 1 \in {p \in Nat : h <= p /\ p < e}
    BY <1>2, <1>3, <1>4
  <2> QED BY <1>7, <1>10, <2>1
<1>12. e - h \in Sizes
  BY <1>2, <1>3, <1>4, <1>11, PageCacheV2Assumption DEF Pages, Sizes
<1>13. Run(h, e - h) = {p \in Nat : h <= p /\ p < e}
  BY <1>2, <1>3, <1>4 DEF Run
<1>14. Run(h, e - h) = PagesOf(s) \cup UNION {PagesOf(x) : x \in Absorbed(s)}
  BY <1>5, <1>10, <1>13
<1>15. h + (e - h) = e
  BY <1>3, <1>4
<1> QED BY <1>1, <1>6, <1>8, <1>9, <1>11, <1>12, <1>14, <1>15 DEF h, e

(* deallocateSpan keeps the invariant.                                     *)
LEMMA DeallocateInv ==
  ASSUME SpansInv, NEW s \in DOMAIN held, deallocateSpan(s)
  PROVE  SpansInv'
<1>1. PICK A, h, z : A = Absorbed(s) /\ h = MergedStart(s) /\ z = MergedSize(s)
  OBVIOUS
<1> DEFINE G == A \cup {s}
<1>2. /\ running /\ UNCHANGED <<systemAllocs, osPages, running>>
      /\ held' = [x \in DOMAIN held \ {s} |-> held[x]]
      /\ spanMap' = [x \in (DOMAIN spanMap \ G) \cup {h} |-> IF x = h THEN z ELSE spanMap[x]]
      /\ freeSpans' = [k \in Sizes |-> (freeSpans[k] \ A) \cup (IF k = z THEN {h} ELSE {})]
  BY <1>1 DEF deallocateSpan
<1>3. /\ A \subseteq Listed /\ s \notin A /\ h \in G
      /\ h \in Pages /\ z \in Sizes
      /\ Run(h, z) = PagesOf(s) \cup UNION {PagesOf(x) : x \in A}
      /\ \A x \in Listed \ A : End(x) # h /\ h + z # x
  BY <1>1, <1>2, MergeFacts
<1>4. s \in DOMAIN spanMap /\ s \notin Listed /\ Listed \subseteq DOMAIN spanMap
  BY HeldFacts, ListedFacts
<1>5. /\ DOMAIN spanMap' = (DOMAIN spanMap \ G) \cup {h}
      /\ spanMap'[h] = z
      /\ \A x \in DOMAIN spanMap \ G : x # h /\ spanMap'[x] = spanMap[x]
  BY <1>2, <1>3
<1>6. G \subseteq DOMAIN spanMap
  BY <1>3, <1>4
<1>7. /\ PagesOf(h)' = UNION {PagesOf(x) : x \in G}
      /\ \A x \in DOMAIN spanMap \ G : PagesOf(x)' = PagesOf(x)
  BY <1>3, <1>5 DEF PagesOf
<1> HIDE DEF G
<1>8. Listed' = (Listed \ A) \cup {h}
  <2>1. \A x : x \in Listed' <=> \E j \in Sizes : x \in freeSpans'[j]
    BY DEF Listed
  <2>2. \A x : x \in Listed <=> \E j \in Sizes : x \in freeSpans[j]
    BY DEF Listed
  <2>3. \A j \in Sizes : \A x : x \in freeSpans'[j] <=> (x \in freeSpans[j] /\ x \notin A) \/ (x = h /\ j = z)
    BY <1>2
  <2>4. \A x : x \in Listed' <=> x \in (Listed \ A) \cup {h}
    BY <1>3, <2>1, <2>2, <2>3
  <2> QED BY <2>4
<1>9. SpansTyped'
  <2>1. spanMap' \in [DOMAIN spanMap' -> Sizes]
    BY <1>2, <1>3, <1>5, SpanFacts
  <2>2. freeSpans' \in [Sizes -> SUBSET Pages]
    BY <1>2, <1>3 DEF SpansInv, SpansTyped
  <2>3. DOMAIN spanMap' \subseteq Pages
    BY <1>3, <1>5, SpanFacts
  <2> QED BY <1>2, <2>1, <2>2, <2>3 DEF SpansInv, SpansTyped
<1>10. TilesMemory'
  <2>1. UNION {PagesOf(x)' : x \in DOMAIN spanMap'} = UNION {PagesOf(x) : x \in DOMAIN spanMap}
    <3>1. UNION {PagesOf(x)' : x \in DOMAIN spanMap'}
            = PagesOf(h)' \cup UNION {PagesOf(x) : x \in DOMAIN spanMap \ G}
      BY <1>5, <1>7
    <3> QED BY <1>6, <1>7, <3>1
  <2>2. \A x, y \in DOMAIN spanMap' : x # y => PagesOf(x)' \cap PagesOf(y)' = {}
    <3>1. \A x \in DOMAIN spanMap \ G : PagesOf(x)' \cap PagesOf(h)' = {}
      <4>1. \A x \in DOMAIN spanMap \ G : \A y \in G : PagesOf(x) \cap PagesOf(y) = {}
        BY <1>6 DEF SpansInv, TilesMemory
      <4> QED BY <1>7, <4>1
    <3>2. \A x, y \in DOMAIN spanMap \ G : x # y => PagesOf(x)' \cap PagesOf(y)' = {}
      BY <1>7 DEF SpansInv, TilesMemory
    <3> QED BY <1>5, <3>1, <3>2
  <2>3. \A k \in Sizes : \A x \in freeSpans'[k] : x \in DOMAIN spanMap' /\ spanMap'[x] = k
    <3>1. \A k \in Sizes : \A x \in freeSpans[k] \ A : x \in DOMAIN spanMap \ G /\ spanMap[x] = k
      BY <1>4, ListedFacts DEF G
    <3> QED BY <1>2, <1>5, <3>1
  <2> QED BY <1>2, <2>1, <2>2, <2>3 DEF SpansInv, TilesMemory
<1>11. HeldExact'
  <2>1. held = [x \in DOMAIN spanMap \ Listed |-> spanMap[x]]
    BY DEF SpansInv, HeldExact
  <2>2. DOMAIN held \ {s} = DOMAIN spanMap' \ Listed'
    BY <1>3, <1>4, <1>5, <1>8, <2>1 DEF G
  <2>3. \A x \in DOMAIN held \ {s} : x \in DOMAIN spanMap \ G
    BY <1>3, <2>1 DEF G
  <2>4. \A x \in DOMAIN held \ {s} : held[x] = spanMap'[x]
    BY <1>5, <2>1, <2>3
  <2> QED BY <1>2, <2>2, <2>4 DEF HeldExact
<1>12. Merged'
  <2>1. \A x \in Listed \ A : x \in DOMAIN spanMap \ G
    BY <1>4 DEF G
  <2>2. End(h)' = h + z /\ \A x \in Listed \ A : End(x)' = End(x)
    BY <1>5, <2>1 DEF End
  <2>3. h + z # h
    BY <1>3, PageCacheV2Assumption DEF Pages, Sizes
  <2>4. \A x, y \in Listed \ A : End(x) # y
    BY DEF SpansInv, Merged
  <2> QED BY <1>3, <1>8, <2>2, <2>3, <2>4 DEF Merged
<1>13. Recorded' /\ DestroyedClean'
  BY <1>2 DEF SpansInv, Recorded, DestroyedClean, Unmapped
<1> QED BY <1>9, <1>10, <1>11, <1>12, <1>13 DEF SpansInv

-----------------------------------------------------------------------------
(* SpansInv holds in every reachable state.                                *)

(* allocateSpan takes from a bin or maps.                                  *)
LEMMA AllocateInv ==
  ASSUME SpansInv, NEW n \in Sizes, NEW s \in Pages, allocateSpan(n, s)
  PROVE  SpansInv'
<1>1. /\ running /\ UNCHANGED running
      /\ held' = [x \in DOMAIN held \cup {s} |-> IF x = s THEN n ELSE held[x]]
      /\ AllocateFromList(n, s) \/ AllocateFromSystem(n, s)
  BY DEF allocateSpan
<1>2. CASE AllocateFromList(n, s)
  <2>1. PICK k \in lowerBound(n) :
          /\ s \in freeSpans[k]
          /\ \/ /\ k = n
                /\ freeSpans' = [freeSpans EXCEPT ![k] = BinAfter(@, s)]
                /\ UNCHANGED spanMap
             \/ /\ k > n
                /\ freeSpans' = [freeSpans EXCEPT ![k] = @ \ {s}, ![k - n] = @ \cup {s + n}]
                /\ spanMap' = WithRemainder(s, n)
          /\ UNCHANGED <<systemAllocs, osPages>>
    BY <1>2 DEF AllocateFromList
  <2>2. k \in Sizes
    BY PageCacheV2Assumption DEF lowerBound, Sizes
  <2>3. CASE k = n
    BY <1>1, <2>1, <2>2, <2>3, TakeExactInv DEF BinAfter, Sizes
  <2>4. CASE k > n
    <3>1. n < k
      BY <2>2, <2>4 DEF Sizes
    <3>2. /\ freeSpans' = [freeSpans EXCEPT ![k] = @ \ {s}, ![k - n] = @ \cup {s + n}]
          /\ spanMap' = WithRemainder(s, n)
          /\ s \in freeSpans[k]
          /\ UNCHANGED <<running, systemAllocs, osPages>>
      BY <1>1, <2>1, <3>1 DEF Sizes
    <3> QED BY <1>1, <2>2, <3>1, <3>2, TakeAndSplitInv
  <2> QED BY <2>1, <2>3, <2>4
<1>3. CASE AllocateFromSystem(n, s)
  BY <1>1, <1>3, AllocateFromSystemInv
<1> QED BY <1>1, <1>2, <1>3

(* The destructor leaves nothing.                                          *)
LEMMA DestroyCacheInv == SpansInv /\ DestroyCache => SpansInv'
<1> SUFFICES ASSUME SpansInv, DestroyCache PROVE SpansInv'
  OBVIOUS
<1>1. /\ running /\ running' = FALSE
      /\ spanMap' = [s \in {} |-> 0] /\ held' = [s \in {} |-> 0]
      /\ freeSpans' = [k \in Sizes |-> {}]
      /\ osPages' = osPages \ Unmapped
      /\ UNCHANGED systemAllocs
  BY DEF DestroyCache
<1>2. osPages' = {}
  BY <1>1 DEF SpansInv, Recorded
<1>3. DOMAIN spanMap' = {} /\ Listed' = {}
  BY <1>1 DEF Listed
<1>4. SpansTyped'
  BY <1>1, <1>2, <1>3 DEF SpansInv, SpansTyped
<1>5. TilesMemory' /\ Merged' /\ Recorded' /\ DestroyedClean'
  BY <1>1, <1>2, <1>3 DEF TilesMemory, Merged, Recorded, DestroyedClean
<1>6. HeldExact'
  BY <1>1, <1>3 DEF HeldExact
<1> QED BY <1>4, <1>5, <1>6 DEF SpansInv

(* The empty cache satisfies SpansInv.                                     *)
LEMMA SpansInitInv == PageInit => SpansInv
<1> SUFFICES ASSUME PageInit PROVE SpansInv
  OBVIOUS
<1>1. /\ spanMap = [s \in {} |-> 0] /\ held = [s \in {} |-> 0]
      /\ freeSpans = [k \in Sizes |-> {}]
      /\ systemAllocs = {} /\ osPages = {} /\ running = TRUE
  BY DEF PageInit
<1>2. DOMAIN spanMap = {} /\ Listed = {} /\ Unmapped = {}
  BY <1>1 DEF Listed, Unmapped
<1>3. SpansTyped
  BY <1>1, <1>2 DEF SpansTyped
<1>4. TilesMemory /\ Merged /\ Recorded /\ DestroyedClean
  BY <1>1, <1>2 DEF TilesMemory, Merged, Recorded, DestroyedClean
<1>5. HeldExact
  BY <1>1, <1>2 DEF HeldExact
<1> QED BY <1>3, <1>4, <1>5 DEF SpansInv

(* Every step preserves SpansInv, one case for each operation.             *)
LEMMA SpansNextInv == SpansInv /\ [PageNext]_pageVars => SpansInv'
<1> SUFFICES ASSUME SpansInv, [PageNext]_pageVars PROVE SpansInv'
  OBVIOUS
<1>1. CASE UNCHANGED pageVars
  <2>1. Listed' = Listed /\ Unmapped' = Unmapped
    BY <1>1 DEF pageVars, Listed, Unmapped
  <2>2. SpansTyped' /\ Recorded' /\ DestroyedClean'
    BY <1>1, <2>1 DEF pageVars, SpansInv, SpansTyped, Recorded, DestroyedClean
  <2>3. TilesMemory' /\ HeldExact' /\ Merged'
    BY <1>1, <2>1 DEF pageVars, SpansInv, TilesMemory, HeldExact, Merged, PagesOf, End
  <2> QED BY <2>2, <2>3 DEF SpansInv
<1>2. ASSUME NEW n \in Sizes, NEW s \in Pages, allocateSpan(n, s) PROVE SpansInv'
  BY <1>2, AllocateInv
<1>3. ASSUME NEW s \in DOMAIN held, deallocateSpan(s) PROVE SpansInv'
  BY <1>3, DeallocateInv
<1>4. CASE DestroyCache
  BY <1>4, DestroyCacheInv
<1> QED BY <1>1, <1>2, <1>3, <1>4 DEF PageNext

(* Every reachable state satisfies SpansInv, whatever the address space.   *)
THEOREM SpansInvHolds == PageSpec => []SpansInv
BY SpansInitInv, SpansNextInv, PTL DEF PageSpec

(* The spans in spanMap_ tile the memory mapped, through any sequence of   *)
(* splits and merges across mappings (v2/src/PageCache.cpp).               *)
THEOREM TilesCorrect == PageSpec => []TilesMemory
BY SpansInvHolds, PTL DEF SpansInv

(* The destructor unmaps everything that was ever mapped.                  *)
THEOREM DestructionClean == PageSpec => []DestroyedClean
BY SpansInvHolds, PTL DEF SpansInv

-----------------------------------------------------------------------------
(* The system is asked only for want of a run of free pages.               *)

(* If any bin from n on has a span, lower_bound finds one.                 *)
LEMMA LowerBoundFinds ==
  ASSUME NEW n \in Sizes, NEW k \in Sizes, n <= k, freeSpans[k] # {}
  PROVE  lowerBound(n) # {}
<1> DEFINE T == {j \in n .. NumPages : freeSpans[j] # {}}
           R == Orders!OpToRel(<, Nat)
<1>1. T \subseteq Nat /\ k \in T
  BY PageCacheV2Assumption DEF Sizes
<1>2. PICK m \in T : \A j \in T : ~ (<<j, m>> \in R)
  <2>1. Orders!IsWellFoundedOn(R, Nat)
    BY Orders!NatLessThanWellFounded, Zenon
  <2> HIDE DEF T, R
  <2> QED BY <1>1, <2>1, Orders!WFMin
<1>3. \A j \in T : ~ (j < m)
  BY <1>1, <1>2, Zenon DEF Orders!OpToRel
<1>4. m \in lowerBound(n)
  <2>1. \A j \in n .. (m - 1) : j \notin T
    BY <1>1, <1>3, PageCacheV2Assumption DEF Sizes
  <2>2. \A j \in n .. (m - 1) : j \in n .. NumPages
    BY <1>1, PageCacheV2Assumption DEF Sizes
  <2> QED BY <2>1, <2>2 DEF lowerBound
<1> QED BY <1>4

(* A run of free pages lies within one free span.                          *)
LEMMA RunWithinSpan ==
  ASSUME SpansInv, NEW n \in Sizes, NEW p \in Pages, Run(p, n) \subseteq FreePages
  PROVE  \E x \in Listed : n <= spanMap[x]
<1>1. p \in Nat /\ n \in Nat \ {0} /\ p \in Run(p, n)
  BY PageCacheV2Assumption DEF Pages, Sizes, Run
<1>2. PICK x \in Listed : p \in PagesOf(x)
  BY <1>1 DEF FreePages
<1>3. /\ x \in DOMAIN spanMap /\ x \in Nat /\ spanMap[x] \in Nat
      /\ End(x) \in Nat /\ x < End(x) /\ x <= p /\ p < End(x)
      /\ PagesOf(x) = {q \in Nat : x <= q /\ q < End(x)}
  BY <1>2, ListedFacts, SpanFacts
<1>4. CASE p + n <= End(x)
  <2>1. n <= spanMap[x]
    BY <1>1, <1>3, <1>4 DEF End
  <2> QED BY <2>1
<1>5. CASE End(x) < p + n
  <2>1. End(x) \in Run(p, n)
    BY <1>1, <1>3, <1>5 DEF Run
  <2>2. PICK y \in Listed : End(x) \in PagesOf(y)
    BY <2>1 DEF FreePages
  <2>3. y \in DOMAIN spanMap /\ y \in Nat /\ y <= End(x)
        /\ PagesOf(y) = {q \in Nat : y <= q /\ q < End(y)} /\ End(x) < End(y) /\ End(y) \in Nat
    BY <1>3, <2>2, ListedFacts, SpanFacts
  <2>4. y # End(x)
    BY DEF SpansInv, Merged
  <2>5. End(x) - 1 \in PagesOf(y) /\ End(x) - 1 \in PagesOf(x)
    BY <1>3, <2>3, <2>4
  <2>6. x = y
    BY <1>3, <2>3, <2>5, OneSpan
  <2> QED BY <1>3, <2>3, <2>6
<1> QED BY <1>1, <1>3, <1>4, <1>5

(* allocateSpan maps pages only if no run of free pages is long enough,    *)
(* wherever the mappings it was given before begin and end.                *)
THEOREM MapsCorrect == PageSpec => MapsOnlyForWant
<1> DEFINE Want == \A n \in Sizes, s \in Pages :
                     <<s, n>> \in systemAllocs' \ systemAllocs =>
                       ~ \E p \in Pages : Run(p, n) \subseteq FreePages
<1>1. SpansInv /\ [PageNext]_pageVars => [Want]_pageVars
  <2> SUFFICES ASSUME SpansInv, PageNext,
                      NEW n \in Sizes, NEW s \in Pages,
                      <<s, n>> \in systemAllocs' \ systemAllocs,
                      NEW p \in Pages, Run(p, n) \subseteq FreePages
               PROVE  FALSE
    OBVIOUS
  <2>1. PICK m \in Sizes, r \in Pages : AllocateFromSystem(m, r)
    BY DEF PageNext, allocateSpan, AllocateFromList, deallocateSpan, DestroyCache
  <2>2. m = n /\ r = s /\ lowerBound(n) = {}
    BY <2>1 DEF AllocateFromSystem
  <2>3. PICK x \in Listed : n <= spanMap[x]
    BY RunWithinSpan
  <2>4. spanMap[x] \in Sizes /\ x \in freeSpans[spanMap[x]]
    BY ListedFacts, SpanFacts DEF Removable
  <2> QED BY <2>2, <2>3, <2>4, LowerBoundFinds
<1> QED BY <1>1, SpansInvHolds, PTL DEF PageSpec, MapsOnlyForWant

-----------------------------------------------------------------------------
(* To the central cache the page cache is RangeAllocator: what it holds is *)
(* disjoint, of the length asked for, and does not change in its hands.    *)
THEOREM RefinesSpanPromise == PageSpec => ImplementsSpanPromise
<1>1. PageInit => SpanPromise!Init
  BY DEF PageInit, SpanPromise!Init
<1>2. SpansInv /\ [PageNext]_pageVars => [SpanPromise!Next]_(SpanPromise!allocatorVars)
  <2> SUFFICES ASSUME SpansInv, [PageNext]_pageVars
               PROVE  [SpanPromise!Next]_(SpanPromise!allocatorVars)
    OBVIOUS
  <2>1. ASSUME NEW n \in Sizes, NEW s \in Pages, allocateSpan(n, s)
        PROVE  SpanPromise!Next
    <3>1. running /\ running' = TRUE
      BY <2>1 DEF allocateSpan, SpansInv, SpansTyped
    <3>2. held' = [x \in DOMAIN held \cup {s} |-> IF x = s THEN n ELSE held[x]]
      BY <2>1 DEF allocateSpan
    <3>3. Run(s, n) \subseteq Pages /\ \A x \in DOMAIN held : PagesOf(x) \cap Run(s, n) = {}
      <4>1. CASE AllocateFromSystem(n, s)
        BY <3>1, <4>1, HeldFacts, SpansMapped DEF AllocateFromSystem
      <4>2. CASE AllocateFromList(n, s)
        <5>1. PICK k \in lowerBound(n) : s \in freeSpans[k]
          BY <4>2 DEF AllocateFromList
        <5>2. k \in Sizes /\ n <= k
          BY PageCacheV2Assumption DEF lowerBound, Sizes
        <5>3. s \in Listed /\ s \in DOMAIN spanMap /\ spanMap[s] = k
          BY <5>1, <5>2, ListedFacts
        <5>4. Run(s, n) \subseteq PagesOf(s)
          BY <5>2, <5>3, SpanFacts DEF Run, End, Sizes
        <5>5. \A x \in DOMAIN held : x \in DOMAIN spanMap /\ x # s
          BY <5>3, HeldFacts
        <5>6. \A x \in DOMAIN held : PagesOf(x) \cap PagesOf(s) = {}
          BY <5>3, <5>5 DEF SpansInv, TilesMemory
        <5> QED BY <3>1, <5>3, <5>4, <5>6, SpansMapped
      <4> QED BY <2>1, <4>1, <4>2 DEF allocateSpan
    <3>4. \A x \in DOMAIN held : Run(x, held[x]) = PagesOf(x)
      BY HeldFacts DEF PagesOf
    <3>5. SpanPromise!Overlapping(s, n) = {}
      BY <3>3, <3>4 DEF SpanPromise!Overlapping, SpanPromise!Run, Run
    <3>6. n \in n .. (n + 0)
      BY PageCacheV2Assumption DEF Sizes
    <3>7. SpanPromise!Run(s, n) \subseteq SpanPromise!Units
      BY <3>3 DEF SpanPromise!Run, SpanPromise!Units, Run, Pages
    <3>8. SpanPromise!Alloc(n, s)
      BY <3>1, <3>2, <3>5, <3>6, <3>7 DEF SpanPromise!Alloc
    <3> QED BY <3>8 DEF SpanPromise!Next, SpanPromise!Lengths, SpanPromise!Units, Sizes, Pages
  <2>2. ASSUME NEW s \in DOMAIN held, deallocateSpan(s)
        PROVE  SpanPromise!Next
    <3>1. running /\ running' = TRUE /\ held' = [x \in DOMAIN held \ {s} |-> held[x]]
      BY <2>2 DEF deallocateSpan, SpansInv, SpansTyped
    <3>2. SpanPromise!Free(s)
      BY <3>1 DEF SpanPromise!Free
    <3>3. s \in Pages
      BY HeldFacts, SpanFacts
    <3> QED BY <3>2, <3>3 DEF SpanPromise!Next, SpanPromise!Units, Pages
  <2>3. CASE DestroyCache
    <3>1. SpanPromise!Destroy
      BY <2>3 DEF DestroyCache, SpanPromise!Destroy
    <3> QED BY <3>1 DEF SpanPromise!Next
  <2>4. CASE UNCHANGED pageVars
    BY <2>4 DEF pageVars, SpanPromise!allocatorVars
  <2> QED BY <2>1, <2>2, <2>3, <2>4 DEF PageNext
<1> QED BY <1>1, <1>2, SpansInvHolds, PTL DEF PageSpec, ImplementsSpanPromise, SpanPromise!Spec

-----------------------------------------------------------------------------
(* What RangeAllocator promises is kept by every implementation of it.     *)
LEMMA SpansStayDisjoint ==
  SpanPromise!Disjoint /\ [SpanPromise!Next]_(SpanPromise!allocatorVars) => SpanPromise!Disjoint'
<1> SUFFICES ASSUME SpanPromise!Disjoint, [SpanPromise!Next]_(SpanPromise!allocatorVars) PROVE SpanPromise!Disjoint'
  OBVIOUS
<1>1. ASSUME NEW n \in SpanPromise!Lengths, NEW s \in SpanPromise!Units, SpanPromise!Alloc(n, s)
      PROVE  SpanPromise!Disjoint'
  BY <1>1 DEF SpanPromise!Alloc, SpanPromise!Overlapping, SpanPromise!Disjoint
<1>2. ASSUME NEW s \in SpanPromise!Units, SpanPromise!Free(s) PROVE SpanPromise!Disjoint'
  BY <1>2 DEF SpanPromise!Free, SpanPromise!Disjoint
<1>3. CASE SpanPromise!Destroy
  BY <1>3 DEF SpanPromise!Destroy, SpanPromise!Disjoint
<1>4. CASE UNCHANGED SpanPromise!allocatorVars
  BY <1>4 DEF SpanPromise!allocatorVars, SpanPromise!Disjoint
<1> QED BY <1>1, <1>2, <1>3, <1>4 DEF SpanPromise!Next

(* Two of v2's spans in use never share a page.                            *)
THEOREM RunsApart == PageSpec => []SpanPromise!Disjoint
<1>1. SpanPromise!Init => SpanPromise!Disjoint
  BY DEF SpanPromise!Init, SpanPromise!Disjoint
<1> QED BY <1>1, SpansStayDisjoint, RefinesSpanPromise, PTL DEF ImplementsSpanPromise, SpanPromise!Spec

-----------------------------------------------------------------------------
(* The thread caches of v2 and the lists they share.                       *)
(*                                                                         *)
(* Every step keeps Sound but those that clear `intact', so what is        *)
(* inductive is Sound up to the first of those.  The counts of the         *)
(* trackers play no part in it: however wrong they are, the lists go wrong *)
(* only by what is given back because of them.                             *)

(* What the first word of a block may hold, and a head.                    *)
Links == Words \cup {nullptr}

(* The words and the blocks of a span.                                     *)
SpanWords(s, c) == s .. (s + SpanPages[c] * PageWords - 1)
CutFrom(s, c) == {s + (i - 1) * BlockSize[c] : i \in 1 .. blockNum(c)}

(* A delayed return belongs to a class.                                    *)
DelayedTyped ==
  DOMAIN delayed = Threads /\ \A t \in Threads : \A u \in delayed[t] : u.class \in Classes

(* The types; the class of an object is one, never `Twice'.                *)
TypeOK ==
  /\ word \in [Words -> Links]
  /\ DOMAIN spans \subseteq Words
  /\ spans \in [DOMAIN spans -> Classes]
  /\ centralFreeList \in [Classes -> Links]
  /\ freeList \in [Threads -> [Classes -> Links]]
  /\ freeListSize \in [Threads -> [Classes -> Nat]]
  /\ phase \in [Threads -> {"up", "exiting"}]
  /\ DOMAIN owned \subseteq Words /\ owned \in [DOMAIN owned -> Classes]
  /\ DelayedTyped

(* The links of memory m lead from h through the blocks of q and end.      *)
IsChain(m, h, q) ==
  /\ q \in Seq(Words) /\ IsInjective(q)
  /\ First(q) = h
  /\ \A i \in DOMAIN q : m[q[i]] = After(q, i)

(* The list at h: its links lead through different blocks and end.         *)
Good(m, h)  == IsChain(m, h, Walk(m, h))
On(m, h)    == ToSet(Walk(m, h))
Count(m, h) == Len(Walk(m, h))

(* The head of a list, and the blocks on it.                               *)
HeadOf(l)  == IF l[1] = "central" THEN centralFreeList[l[2]] ELSE freeList[l[1]][l[2]]
Members(l) == On(word, HeadOf(l))

(* Every list ends and meets no block twice.                               *)
ListsGood == \A l \in Lists : Good(word, HeadOf(l))

(* A block lies where a span of its class was cut.                         *)
Home(S, p, c) == \E s \in DOMAIN S : S[s] = c /\ p \in CutFrom(s, c)

(* Each block is on one list or with the program, and at home.             *)
Placed ==
  /\ \A l, k \in Lists : l # k => Members(l) \cap Members(k) = {}
  /\ \A l \in Lists : Members(l) \cap DOMAIN owned = {}
  /\ \A l \in Lists : \A p \in Members(l) : Home(spans, p, l[2])
  /\ \A p \in DOMAIN owned : Home(spans, p, owned[p])

(* The page cache knows of every span as one in use.                       *)
SpansSound ==
  running => \A s \in DOMAIN spans :
    /\ s = FirstWord(PageOf(s))
    /\ PageOf(s) \in DOMAIN held
    /\ held[PageOf(s)] = SpanPages[spans[s]]

(* freeListSize_ is the length of the list.                                *)
SizesExact ==
  \A t \in Threads, c \in Classes :
    /\ freeListSize[t][c] = Count(word, freeList[t][c])
    /\ freeListSize[t][c] <= Threshold[c]

(* What every step keeps, and the inductive invariant.                     *)
CInv  == TypeOK /\ ListsGood /\ Placed /\ SpansSound /\ SizesExact
Sound == SpansInv /\ CInv
Inv   == SpansInv /\ (intact => CInv)

-----------------------------------------------------------------------------
(* Numbers.                                                                *)

(* A set of numbers has a least one.                                       *)
LEMMA LeastNumber ==
  ASSUME NEW S \in SUBSET Nat, S # {}
  PROVE  \E m \in S : \A k \in S : m <= k
<1> DEFINE R == Orders!OpToRel(<, Nat)
<1>1. PICK m \in S : \A k \in S : ~ (<<k, m>> \in R)
  <2>1. Orders!IsWellFoundedOn(R, Nat)
    BY Orders!NatLessThanWellFounded, Zenon
  <2>2. PICK x : x \in S
    OBVIOUS
  <2> HIDE DEF R
  <2> QED BY <2>1, <2>2, Orders!WFMin
<1>2. \A k \in S : ~ (k < m)
  BY <1>1, Zenon DEF Orders!OpToRel
<1> QED BY <1>2

(* A number lies between two multiples.                                    *)
LEMMA DivBounds ==
  ASSUME NEW x \in Nat, NEW d \in Nat \ {0}
  PROVE  x \div d \in Nat /\ (x \div d) * d <= x /\ x < (x \div d) * d + d
OBVIOUS

(* Multiples keep the order of their factors.                              *)
LEMMA ProductOrder ==
  ASSUME NEW i \in Nat, NEW j \in Nat, NEW d \in Nat, i < j
  PROVE  i * d + d <= j * d /\ i * d \in Nat /\ j * d \in Nat
<1>1. j * d = i * d + d + (j - i - 1) * d /\ (j - i - 1) * d \in Nat
  OBVIOUS
<1> QED BY <1>1

-----------------------------------------------------------------------------
(* Lists.                                                                  *)

(* What is assumed of the memory.                                          *)
LEMMA WordsFacts ==
  /\ NumPages \in Nat /\ PageWords \in Nat \ {0} /\ NumPages * PageWords \in Nat
  /\ Words \subseteq Nat \ {0} /\ nullptr \notin Words /\ nullptr = 0
  /\ IsFiniteSet(Words) /\ Cardinality(Words) = NumPages * PageWords
<1>1. NumPages \in Nat /\ PageWords \in Nat \ {0}
  BY PageCacheV2Assumption, ThreadCacheV2Assumption
<1>2. PICK n \in Nat : n = NumPages * PageWords
  BY <1>1
<1>3. IsFiniteSet(1 .. n) /\ Cardinality(1 .. n) = n
  BY FS_Interval
<1> QED BY <1>1, <1>2, <1>3 DEF Words, nullptr

(* A list of blocks is a function on an interval.                          *)
LEMMA ListFacts ==
  ASSUME NEW q \in Seq(Words)
  PROVE  /\ Len(q) \in Nat /\ DOMAIN q = 1 .. Len(q) /\ \A i \in 1 .. Len(q) : q[i] \in Words
         /\ q = <<>> <=> Len(q) = 0
         /\ ToSet(q) \subseteq Words /\ \A x : x \in ToSet(q) <=> \E i \in 1 .. Len(q) : q[i] = x
         /\ IsInjective(q) <=> \A i, j \in 1 .. Len(q) : q[i] = q[j] => i = j
         /\ First(q) = IF Len(q) = 0 THEN nullptr ELSE q[1]
BY DEF ToSet, IsInjective, First

(* A list of different blocks is no longer than the memory.                *)
LEMMA ListBounded ==
  ASSUME NEW q \in Seq(Words), IsInjective(q)
  PROVE  Len(q) <= NumPages * PageWords
<1>1. q \in [1 .. Len(q) -> Words] /\ Len(q) \in Nat
  OBVIOUS
<1>2. q \in Injection(1 .. Len(q), Words)
  BY <1>1 DEF Injection
<1>3. Cardinality(1 .. Len(q)) = Len(q)
  <2>1. PICK n \in Nat : n = Len(q)
    BY <1>1
  <2>2. Cardinality(1 .. n) = n
    BY FS_Interval
  <2> QED BY <2>1, <2>2
<1> QED BY <1>2, <1>3, WordsFacts, FS_Injection

(* The empty list.                                                         *)
LEMMA EmptyFacts ==
  /\ <<>> \in Seq(Words) /\ IsInjective(<<>>) /\ ToSet(<<>>) = {} /\ Len(<<>>) = 0
  /\ \A m : IsChain(m, nullptr, <<>>)
BY DEF ToSet, IsInjective, IsChain, First

-----------------------------------------------------------------------------
(* A walk finds the chain that is there.                                   *)

(* f gives the addresses that a walk of memory m from h visits.            *)
Steps(m, h, f) ==
  f = [i \in 1 .. Cardinality(Words) |->
         IF i = 1 THEN h ELSE IF f[i - 1] = nullptr THEN nullptr ELSE m[f[i - 1]]]

(* A walk along a chain meets the blocks of the chain.                     *)
LEMMA WalkChain ==
  ASSUME NEW m, NEW h, NEW q, IsChain(m, h, q)
  PROVE  Walk(m, h) = q
<1> DEFINE n == Cardinality(Words)
           f == CHOOSE g : Steps(m, h, g)
           w == [i \in 1 .. n |-> IF i <= Len(q) THEN q[i] ELSE nullptr]
<1>1. Walk(m, h) = [i \in {j \in 1 .. n : f[j] # nullptr} |-> f[i]]
  BY DEF Walk, Steps
<1>2. /\ n \in Nat /\ q \in Seq(Words) /\ Len(q) \in Nat /\ Len(q) <= n
      /\ \A i \in 1 .. Len(q) : q[i] # nullptr /\ q[i] \in Words
      /\ h = IF Len(q) = 0 THEN nullptr ELSE q[1]
      /\ \A i \in 1 .. Len(q) : m[q[i]] = IF i = Len(q) THEN nullptr ELSE q[i + 1]
  BY WordsFacts, ListBounded, ListFacts DEF IsChain, After
<1> HIDE DEF n
<1>3. ASSUME NEW i \in 1 .. n
      PROVE  w[i] = IF i = 1 THEN h ELSE IF w[i - 1] = nullptr THEN nullptr ELSE m[w[i - 1]]
  <2>1. CASE i = 1
    BY <1>2, <2>1
  <2>2. CASE i # 1
    <3>1. i - 1 \in 1 .. n
      BY <1>2, <2>2
    <3>2. w[i - 1] = (IF i - 1 <= Len(q) THEN q[i - 1] ELSE nullptr) /\ w[i] = (IF i <= Len(q) THEN q[i] ELSE nullptr)
      BY <3>1
    <3>3. CASE i - 1 <= Len(q)
      <4>1. i - 1 \in 1 .. Len(q)
        BY <1>2, <3>1, <3>3
      <4>2. m[q[i - 1]] = IF i - 1 = Len(q) THEN nullptr ELSE q[i]
        <5>1. m[q[i - 1]] = IF i - 1 = Len(q) THEN nullptr ELSE q[(i - 1) + 1]
          BY <1>2, <4>1
        <5>2. (i - 1) + 1 = i
          BY <1>2
        <5> QED BY <5>1, <5>2
      <4>3. i - 1 # Len(q) <=> i <= Len(q)
        BY <1>2, <4>1
      <4> QED BY <1>2, <2>2, <3>2, <4>1, <4>2, <4>3
    <3>4. CASE ~ (i - 1 <= Len(q))
      <4>1. ~ (i <= Len(q))
        BY <1>2, <3>4
      <4> QED BY <2>2, <3>2, <3>4, <4>1
    <3> QED BY <3>3, <3>4
  <2> QED BY <2>1, <2>2
<1>4. Steps(m, h, w)
  <2> HIDE DEF w
  <2>1. w = [i \in 1 .. n |-> w[i]]
    BY DEF w
  <2>2. [i \in 1 .. n |-> w[i]] =
           [i \in 1 .. n |-> IF i = 1 THEN h ELSE IF w[i - 1] = nullptr THEN nullptr ELSE m[w[i - 1]]]
    BY <1>3
  <2> QED BY <2>1, <2>2 DEF Steps, n
<1>5. Steps(m, h, f)
  BY <1>4
<1> HIDE DEF f, w
<1>6. f = [i \in 1 .. n |-> IF i = 1 THEN h ELSE IF f[i - 1] = nullptr THEN nullptr ELSE m[f[i - 1]]]
  BY <1>5 DEF Steps, n
<1>7. \A i \in 1 .. n : f[i] = IF i = 1 THEN h ELSE IF f[i - 1] = nullptr THEN nullptr ELSE m[f[i - 1]]
  BY <1>6
<1>8. \A i \in 1 .. n : f[i] = w[i]
  <2> DEFINE D == {i \in 1 .. n : f[i] # w[i]}
  <2> SUFFICES ASSUME D # {} PROVE FALSE
    OBVIOUS
  <2>1. D \in SUBSET Nat
    BY <1>2
  <2>2. PICK k \in D : \A j \in D : k <= j
    <3> HIDE DEF D
    <3> QED BY <2>1, LeastNumber
  <2>3. k \in 1 .. n /\ f[k] # w[k]
    OBVIOUS
  <2>4. k # 1
    BY <1>3, <1>7, <2>3
  <2>5. k - 1 \in 1 .. n /\ ~ (k <= k - 1)
    BY <1>2, <2>3, <2>4
  <2>6. f[k - 1] = w[k - 1]
    BY <2>2, <2>5
  <2> QED BY <1>3, <1>7, <2>3, <2>4, <2>6
<1>9. {j \in 1 .. n : f[j] # nullptr} = 1 .. Len(q)
  <2>1. \A j \in 1 .. n : f[j] # nullptr <=> j <= Len(q)
    BY <1>2, <1>8 DEF w
  <2>2. \A j : j \in 1 .. Len(q) <=> j \in 1 .. n /\ j <= Len(q)
    BY <1>2
  <2> QED BY <2>1, <2>2
<1>10. \A i \in 1 .. Len(q) : f[i] = q[i]
  BY <1>2, <1>8 DEF w
<1>11. q = [i \in 1 .. Len(q) |-> q[i]]
  BY <1>2
<1> QED BY <1>1, <1>9, <1>10, <1>11

-----------------------------------------------------------------------------
(* A chain is the list at its head.                                        *)
LEMMA ChainIsList ==
  ASSUME NEW m, NEW h, NEW q, IsChain(m, h, q)
  PROVE  Good(m, h) /\ Walk(m, h) = q
BY WalkChain DEF Good

(* What there is to say of a list.                                         *)
LEMMA GoodFacts ==
  ASSUME NEW m, NEW h, Good(m, h)
  PROVE  /\ On(m, h) \subseteq Words /\ Count(m, h) \in Nat
         /\ h \in Links
         /\ h = nullptr <=> Count(m, h) = 0
         /\ h = nullptr => On(m, h) = {}
         /\ h # nullptr => h \in On(m, h)
<1>1. PICK q \in Seq(Words) : q = Walk(m, h) /\ First(q) = h
  BY DEF Good, IsChain
<1>2. /\ Len(q) \in Nat /\ ToSet(q) \subseteq Words /\ h = IF Len(q) = 0 THEN nullptr ELSE q[1]
      /\ \A i \in 1 .. Len(q) : q[i] \in Words /\ q[i] \in ToSet(q)
      /\ \A x : x \in ToSet(q) => \E i \in 1 .. Len(q) : q[i] = x
  BY <1>1, ListFacts
<1> QED BY <1>1, <1>2, WordsFacts DEF On, Count, Links

(* nullptr is an empty list.                                               *)
LEMMA NullList ==
  ASSUME NEW m
  PROVE  Good(m, nullptr) /\ Walk(m, nullptr) = <<>> /\ On(m, nullptr) = {} /\ Count(m, nullptr) = 0
<1>1. IsChain(m, nullptr, <<>>)
  BY EmptyFacts
<1> QED BY <1>1, ChainIsList, EmptyFacts DEF On, Count

(* What is written elsewhere does not change a list.                       *)
LEMMA ListKept ==
  ASSUME NEW m, NEW n, NEW h, Good(m, h), \A p \in On(m, h) : n[p] = m[p]
  PROVE  Good(n, h) /\ Walk(n, h) = Walk(m, h) /\ On(n, h) = On(m, h) /\ Count(n, h) = Count(m, h)
<1>1. PICK q \in Seq(Words) : q = Walk(m, h) /\ IsChain(m, h, q)
  BY DEF Good, IsChain
<1>2. \A i \in 1 .. Len(q) : q[i] \in On(m, h)
  BY <1>1, ListFacts DEF On
<1>3. IsChain(n, h, q)
  <2>1. DOMAIN q = 1 .. Len(q)
    OBVIOUS
  <2> QED BY <1>1, <1>2, <2>1 DEF IsChain
<1> QED BY <1>1, <1>3, ChainIsList DEF On, Count

(* The list at h is made up of q[1] to q[n].                               *)
Spelt(m, h, q, n) ==
  /\ \A i \in 1 .. n : q[i] \in Words
  /\ \A i, j \in 1 .. n : q[i] = q[j] => i = j
  /\ h = IF n = 0 THEN nullptr ELSE q[1]
  /\ \A i \in 1 .. n : m[q[i]] = IF i = n THEN nullptr ELSE q[i + 1]

(* A list, spelt out link by link.                                         *)
LEMMA ListSpelt ==
  ASSUME NEW m, NEW h, Good(m, h)
  PROVE  \E n \in Nat, q \in {Walk(m, h)} : /\ Spelt(m, h, q, n) /\ q = Walk(m, h) /\ n = Len(q) /\ Count(m, h) = n
                                            /\ \A x : x \in On(m, h) <=> \E i \in 1 .. n : q[i] = x
<1>1. PICK q \in Seq(Words) : q = Walk(m, h) /\ IsChain(m, h, q)
  BY DEF Good, IsChain
<1>2. PICK n \in Nat : n = Len(q)
  BY ListFacts
<1>3. /\ \A i \in 1 .. n : q[i] \in Words
      /\ \A i, j \in 1 .. n : q[i] = q[j] => i = j
      /\ h = IF n = 0 THEN nullptr ELSE q[1]
      /\ \A x : x \in ToSet(q) <=> \E i \in 1 .. n : q[i] = x
  BY <1>1, <1>2, ListFacts DEF IsChain
<1>4. \A i \in 1 .. n : m[q[i]] = IF i = n THEN nullptr ELSE q[i + 1]
  BY <1>1, <1>2, ListFacts DEF IsChain, After
<1>5. Spelt(m, h, q, n) /\ q = Walk(m, h) /\ n = Len(q)
  BY <1>1, <1>2, <1>3, <1>4 DEF Spelt
<1>6. Count(m, h) = n /\ On(m, h) = ToSet(q)
  BY <1>5 DEF On, Count
<1> QED BY <1>3, <1>5, <1>6

(* And the other way round.                                                *)
LEMMA SpeltIsList ==
  ASSUME NEW m, NEW h, NEW n \in Nat, NEW q, Spelt(m, h, q, n)
  PROVE  /\ Good(m, h) /\ Count(m, h) = n
         /\ Walk(m, h) = [i \in 1 .. n |-> q[i]]
         /\ \A x : x \in On(m, h) <=> \E i \in 1 .. n : q[i] = x
<1>1. PICK r \in Seq(Words) : r = [i \in 1 .. n |-> q[i]] /\ Len(r) = n /\ \A i \in 1 .. n : r[i] = q[i]
  <2> DEFINE r == [i \in 1 .. n |-> q[i]]
  <2>1. r \in [1 .. n -> Words]
    BY DEF Spelt
  <2>2. r \in Seq(Words) /\ Len(r) = n
    BY <2>1
  <2> QED BY <2>2
<1>2. IsInjective(r) /\ First(r) = h /\ \A x : x \in ToSet(r) <=> \E i \in 1 .. n : q[i] = x
  <2>1. /\ IsInjective(r) <=> \A i, j \in 1 .. n : r[i] = r[j] => i = j
        /\ First(r) = IF n = 0 THEN nullptr ELSE r[1]
        /\ \A x : x \in ToSet(r) <=> \E i \in 1 .. n : r[i] = x
    <3>1. Len(r) = n
      BY <1>1
    <3> QED BY <3>1, ListFacts
  <2>2. n # 0 => 1 \in 1 .. n
    OBVIOUS
  <2>3. First(r) = h
    BY <1>1, <2>1, <2>2 DEF Spelt
  <2>4. IsInjective(r)
    BY <1>1, <2>1 DEF Spelt
  <2> QED BY <1>1, <2>1, <2>3, <2>4
<1>3. \A i \in DOMAIN r : m[r[i]] = After(r, i)
  <2> SUFFICES ASSUME NEW i \in 1 .. n PROVE m[r[i]] = After(r, i)
    BY <1>1, ListFacts
  <2>1. i # n => i + 1 \in 1 .. n
    OBVIOUS
  <2> QED BY <1>1, <2>1 DEF Spelt, After
<1>4. IsChain(m, h, r)
  BY <1>2, <1>3 DEF IsChain
<1>5. Good(m, h) /\ Walk(m, h) = r
  BY <1>4, ChainIsList
<1> QED BY <1>1, <1>2, <1>5, Zenon DEF On, Count

(* The block in front leaves.                                              *)
LEMMA ListRest ==
  ASSUME NEW m, NEW h, Good(m, h), h # nullptr
  PROVE  /\ h \in Words /\ Good(m, m[h]) /\ h \notin On(m, m[h])
         /\ On(m, h) = On(m, m[h]) \cup {h} /\ Count(m, h) = Count(m, m[h]) + 1
<1>1. PICK n \in Nat, q \in {Walk(m, h)} : /\ Spelt(m, h, q, n) /\ Count(m, h) = n
                                           /\ \A x : x \in On(m, h) <=> \E i \in 1 .. n : q[i] = x
  BY ListSpelt
<1>2. n # 0 /\ h = q[1] /\ 1 \in 1 .. n /\ h \in Words
  BY <1>1 DEF Spelt
<1>3. PICK k \in Nat : n = k + 1
  <2>1. n - 1 \in Nat /\ n = (n - 1) + 1
    BY <1>2
  <2> QED BY <2>1
<1> DEFINE r == [i \in 1 .. k |-> q[i + 1]]
<1>4. \A i \in 1 .. k : r[i] = q[i + 1] /\ i + 1 \in 1 .. n /\ i + 1 # 1
  BY <1>3
<1> HIDE DEF r
<1>5. Spelt(m, m[h], r, k)
  <2>1. \A i \in 1 .. k : r[i] \in Words
    BY <1>1, <1>4 DEF Spelt
  <2>2. ASSUME NEW i \in 1 .. k, NEW j \in 1 .. k, r[i] = r[j] PROVE i = j
    <3>1. i + 1 = j + 1
      BY <1>1, <1>4, <2>2 DEF Spelt
    <3> QED BY <3>1
  <2>3. m[h] = IF k = 0 THEN nullptr ELSE r[1]
    <3>1. m[h] = IF 1 = n THEN nullptr ELSE q[1 + 1]
      BY <1>1, <1>2 DEF Spelt
    <3>2. k # 0 => r[1] = q[1 + 1]
      BY <1>4
    <3> QED BY <1>3, <3>1, <3>2
  <2>4. ASSUME NEW i \in 1 .. k PROVE m[r[i]] = IF i = k THEN nullptr ELSE r[i + 1]
    <3>1. m[q[i + 1]] = IF i + 1 = n THEN nullptr ELSE q[(i + 1) + 1]
      BY <1>1, <1>4 DEF Spelt
    <3>2. i # k => i + 1 \in 1 .. k
      OBVIOUS
    <3>3. i # k => r[i + 1] = q[(i + 1) + 1]
      BY <1>4, <3>2
    <3> QED BY <1>3, <1>4, <3>1, <3>3
  <2> QED BY <2>1, <2>2, <2>3, <2>4 DEF Spelt
<1>6. /\ Good(m, m[h]) /\ Count(m, m[h]) = k
      /\ \A x : x \in On(m, m[h]) <=> \E i \in 1 .. k : r[i] = x
  BY <1>5, SpeltIsList
<1>7. h \notin On(m, m[h])
  <2>1. \A i \in 1 .. k : r[i] # q[1]
    BY <1>1, <1>2, <1>4 DEF Spelt
  <2> QED BY <1>2, <1>6, <2>1
<1>8. ASSUME NEW x PROVE x \in On(m, h) <=> x \in On(m, m[h]) \/ x = h
  <2>1. ASSUME NEW i \in 1 .. n, q[i] = x, i # 1 PROVE \E j \in 1 .. k : r[j] = x
    <3>1. i - 1 \in 1 .. k /\ (i - 1) + 1 = i
      BY <1>3, <2>1
    <3> QED BY <1>4, <2>1, <3>1
  <2>2. ASSUME NEW j \in 1 .. k, r[j] = x PROVE \E i \in 1 .. n : q[i] = x
    BY <1>4, <2>2
  <2> QED BY <1>1, <1>2, <1>6, <2>1, <2>2
<1> QED BY <1>1, <1>2, <1>3, <1>6, <1>7, <1>8

(* A list put in front of another: the last link is set.                   *)
Joins(m, n, h, g) ==
  /\ Good(m, h) /\ Good(m, g) /\ h # nullptr
  /\ On(m, h) \cap On(m, g) = {}
  /\ \A x \in Words : n[x] = IF x = Last(Walk(m, h)) THEN g ELSE m[x]

(* The two lists are one.                                                  *)
LEMMA ListJoin ==
  ASSUME NEW m, NEW n, NEW h, NEW g, Joins(m, n, h, g)
  PROVE  /\ Last(Walk(m, h)) \in On(m, h)
         /\ Good(n, h) /\ On(n, h) = On(m, h) \cup On(m, g) /\ Count(n, h) = Count(m, h) + Count(m, g)
<1> USE DEF Joins
<1>1. PICK a \in Nat, p \in {Walk(m, h)} : /\ Spelt(m, h, p, a) /\ Count(m, h) = a /\ p = Walk(m, h) /\ a = Len(p)
                                           /\ \A x : x \in On(m, h) <=> \E i \in 1 .. a : p[i] = x
  BY ListSpelt
<1>2. PICK b \in Nat, q \in {Walk(m, g)} : /\ Spelt(m, g, q, b) /\ Count(m, g) = b
                                           /\ \A x : x \in On(m, g) <=> \E i \in 1 .. b : q[i] = x
  BY ListSpelt
<1>3. a # 0 /\ h = p[1] /\ a \in 1 .. a /\ p[a] \in Words /\ Last(Walk(m, h)) = p[a]
  BY <1>1 DEF Spelt, Last
<1>4. n[p[a]] = g /\ \A x \in Words : x # p[a] => n[x] = m[x]
  BY <1>3
<1>5. \A i \in 1 .. a, j \in 1 .. b : p[i] # q[j]
  BY <1>1, <1>2
<1> DEFINE r == [i \in 1 .. (a + b) |-> IF i <= a THEN p[i] ELSE q[i - a]]
<1>6. \A i \in 1 .. a : i \in 1 .. (a + b) /\ r[i] = p[i]
  OBVIOUS
<1>7. \A i \in 1 .. b : a + i \in 1 .. (a + b) /\ r[a + i] = q[i]
  OBVIOUS
<1>8. \A i \in 1 .. (a + b) : i \in 1 .. a \/ (i - a \in 1 .. b /\ a + (i - a) = i)
  OBVIOUS
<1> HIDE DEF r
<1>9. Spelt(n, h, r, a + b)
  <2>1. ASSUME NEW i \in 1 .. (a + b) PROVE r[i] \in Words
    <3>1. CASE i \in 1 .. a
      BY <1>1, <1>6, <3>1 DEF Spelt
    <3>2. CASE i - a \in 1 .. b /\ a + (i - a) = i
      <4>1. q[i - a] \in Words
        BY <1>2, <3>2 DEF Spelt
      <4> QED BY <1>7, <3>2, <4>1
    <3> QED BY <1>8, <3>1, <3>2
  <2>2. ASSUME NEW i \in 1 .. (a + b), NEW j \in 1 .. (a + b), r[i] = r[j] PROVE i = j
    <3>1. CASE i \in 1 .. a /\ j \in 1 .. a
      BY <1>1, <1>6, <2>2, <3>1 DEF Spelt
    <3>2. CASE i - a \in 1 .. b /\ j - a \in 1 .. b /\ a + (i - a) = i /\ a + (j - a) = j
      <4>1. q[i - a] = q[j - a]
        BY <1>7, <2>2, <3>2
      <4>2. i - a = j - a
        BY <1>2, <3>2, <4>1 DEF Spelt
      <4> QED BY <3>2, <4>2
    <3> QED BY <1>5, <1>6, <1>7, <1>8, <2>2, <3>1, <3>2
  <2>3. h = IF a + b = 0 THEN nullptr ELSE r[1]
    <3>1. 1 \in 1 .. a
      BY <1>3
    <3> QED BY <1>3, <1>6, <3>1
  <2>4. ASSUME NEW i \in 1 .. a PROVE n[r[i]] = IF i = a + b THEN nullptr ELSE r[i + 1]
    <3>1. CASE i = a
      <4>1. n[r[i]] = IF b = 0 THEN nullptr ELSE q[1]
        BY <1>2, <1>4, <1>6, <3>1 DEF Spelt
      <4>2. b # 0 => r[a + 1] = q[1]
        BY <1>7
      <4> QED BY <3>1, <4>1, <4>2
    <3>2. CASE i # a
      <4>1. i + 1 \in 1 .. a /\ i # a + b
        BY <3>2
      <4>2. p[i] # p[a] /\ p[i] \in Words /\ m[p[i]] = p[i + 1]
        BY <1>1, <1>3, <3>2 DEF Spelt
      <4> QED BY <1>4, <1>6, <4>1, <4>2
    <3> QED BY <3>1, <3>2
  <2>5. ASSUME NEW j \in 1 .. b PROVE n[r[a + j]] = IF a + j = a + b THEN nullptr ELSE r[(a + j) + 1]
    <3>1. q[j] # p[a] /\ q[j] \in Words /\ m[q[j]] = IF j = b THEN nullptr ELSE q[j + 1]
      BY <1>2, <1>3, <1>5 DEF Spelt
    <3>2. n[r[a + j]] = IF j = b THEN nullptr ELSE q[j + 1]
      BY <1>4, <1>7, <3>1
    <3>3. j # b => j + 1 \in 1 .. b /\ a + (j + 1) = (a + j) + 1
      OBVIOUS
    <3>4. j # b => r[(a + j) + 1] = q[j + 1]
      BY <1>7, <3>3
    <3>5. a + j = a + b <=> j = b
      OBVIOUS
    <3> QED BY <3>2, <3>4, <3>5
  <2>6. ASSUME NEW i \in 1 .. (a + b) PROVE n[r[i]] = IF i = a + b THEN nullptr ELSE r[i + 1]
    <3>1. CASE i \in 1 .. a
      BY <2>4, <3>1
    <3>2. CASE i - a \in 1 .. b /\ a + (i - a) = i
      BY <2>5, <3>2
    <3> QED BY <1>8, <3>1, <3>2
  <2> QED BY <2>1, <2>2, <2>3, <2>6 DEF Spelt
<1>10. /\ Good(n, h) /\ Count(n, h) = a + b
       /\ \A x : x \in On(n, h) <=> \E i \in 1 .. (a + b) : r[i] = x
  <2>1. PICK k \in Nat : k = a + b
    OBVIOUS
  <2>2. Spelt(n, h, r, k)
    BY <1>9, <2>1
  <2>3. /\ Good(n, h) /\ Count(n, h) = k
        /\ \A x : x \in On(n, h) <=> \E i \in 1 .. k : r[i] = x
    BY <2>2, SpeltIsList
  <2> QED BY <2>1, <2>3
<1>11. ASSUME NEW x PROVE x \in On(n, h) <=> x \in On(m, h) \/ x \in On(m, g)
  <2>1. (\E i \in 1 .. (a + b) : r[i] = x) <=> (\E i \in 1 .. a : p[i] = x) \/ (\E i \in 1 .. b : q[i] = x)
    <3>1. ASSUME NEW i \in 1 .. (a + b), r[i] = x
          PROVE  (\E j \in 1 .. a : p[j] = x) \/ (\E j \in 1 .. b : q[j] = x)
      <4>1. CASE i \in 1 .. a
        BY <1>6, <3>1, <4>1
      <4>2. CASE i - a \in 1 .. b /\ a + (i - a) = i
        <5>1. q[i - a] = x
          BY <1>7, <3>1, <4>2
        <5> QED BY <4>2, <5>1
      <4> QED BY <1>8, <4>1, <4>2
    <3>2. (\E i \in 1 .. a : p[i] = x) => \E i \in 1 .. (a + b) : r[i] = x
      BY <1>6
    <3>3. (\E i \in 1 .. b : q[i] = x) => \E i \in 1 .. (a + b) : r[i] = x
      BY <1>7
    <3> QED BY <3>1, <3>2, <3>3
  <2>2. x \in On(m, h) <=> \E i \in 1 .. a : p[i] = x
    BY <1>1, Zenon
  <2>3. x \in On(m, g) <=> \E i \in 1 .. b : q[i] = x
    BY <1>2, Zenon
  <2>4. x \in On(n, h) <=> \E i \in 1 .. (a + b) : r[i] = x
    BY <1>10, Zenon
  <2> QED BY <2>1, <2>2, <2>3, <2>4, Zenon
<1>12. On(n, h) = On(m, h) \cup On(m, g)
  BY <1>11
<1>13. Last(Walk(m, h)) \in On(m, h)
  BY <1>1, <1>3
<1> QED BY <1>1, <1>2, <1>10, <1>12, <1>13

(* A block pushed in front of a list.                                      *)
Pushes(m, n, h, p) ==
  /\ p \in Words /\ Good(m, h) /\ p \notin On(m, h)
  /\ \A x \in Words : n[x] = IF x = p THEN h ELSE m[x]

(* The block comes first.                                                  *)
LEMMA ListPushed ==
  ASSUME NEW m, NEW n, NEW h, NEW p, Pushes(m, n, h, p)
  PROVE  Good(n, p) /\ On(n, p) = On(m, h) \cup {p} /\ Count(n, p) = Count(m, h) + 1
<1> USE DEF Pushes
<1>1. PICK a \in Nat, q \in {Walk(m, h)} : /\ Spelt(m, h, q, a) /\ Count(m, h) = a
                                           /\ \A x : x \in On(m, h) <=> \E i \in 1 .. a : q[i] = x
  BY ListSpelt
<1>2. PICK k \in Nat : k = a + 1
  OBVIOUS
<1> DEFINE r == [i \in 1 .. k |-> IF i = 1 THEN p ELSE q[i - 1]]
<1>3. 1 \in 1 .. k /\ r[1] = p
  BY <1>2
<1>4. \A i \in 1 .. a : i + 1 \in 1 .. k /\ r[i + 1] = q[i] /\ q[i] \in Words /\ q[i] # p /\ n[q[i]] = m[q[i]]
  <2> SUFFICES ASSUME NEW i \in 1 .. a
               PROVE  i + 1 \in 1 .. k /\ r[i + 1] = q[i] /\ q[i] \in Words /\ q[i] # p /\ n[q[i]] = m[q[i]]
    OBVIOUS
  <2>1. i + 1 \in 1 .. k /\ i + 1 # 1 /\ (i + 1) - 1 = i
    BY <1>2
  <2>2. q[i] \in Words /\ q[i] # p
    BY <1>1 DEF Spelt
  <2> QED BY <2>1, <2>2
<1>5. \A i \in 1 .. k : i = 1 \/ (i - 1 \in 1 .. a /\ (i - 1) + 1 = i)
  BY <1>2
<1> HIDE DEF r
<1>6. Spelt(n, p, r, k)
  <2>1. ASSUME NEW i \in 1 .. k PROVE r[i] \in Words
    <3>1. CASE i = 1
      BY <1>3, <3>1
    <3>2. CASE i - 1 \in 1 .. a /\ (i - 1) + 1 = i
      <4>1. r[(i - 1) + 1] \in Words
        BY <1>4, <3>2
      <4> QED BY <3>2, <4>1
    <3> QED BY <1>5, <3>1, <3>2
  <2>2. ASSUME NEW i \in 1 .. k, NEW j \in 1 .. k, r[i] = r[j] PROVE i = j
    <3>1. CASE i - 1 \in 1 .. a /\ j - 1 \in 1 .. a /\ (i - 1) + 1 = i /\ (j - 1) + 1 = j
      <4>1. q[i - 1] = q[j - 1]
        BY <1>4, <2>2, <3>1
      <4>2. i - 1 = j - 1
        BY <1>1, <3>1, <4>1 DEF Spelt
      <4> QED BY <3>1, <4>2
    <3>2. ASSUME NEW x \in 1 .. k, r[x] = p PROVE x = 1
      <4>1. CASE x - 1 \in 1 .. a /\ (x - 1) + 1 = x
        <5>1. r[(x - 1) + 1] # p
          BY <1>4, <4>1
        <5> QED BY <3>2, <4>1, <5>1
      <4> QED BY <1>5, <4>1
    <3>3. CASE i = 1 \/ j = 1
      <4>1. r[i] = p /\ r[j] = p
        BY <1>3, <2>2, <3>3
      <4> QED BY <3>2, <4>1
    <3> QED BY <1>5, <3>1, <3>3
  <2>3. n[r[1]] = IF 1 = k THEN nullptr ELSE r[1 + 1]
    <3>1. n[r[1]] = IF a = 0 THEN nullptr ELSE q[1]
      BY <1>1, <1>3 DEF Spelt
    <3>2. a # 0 => r[1 + 1] = q[1]
      BY <1>4
    <3> QED BY <1>2, <3>1, <3>2
  <2>4. ASSUME NEW i \in 1 .. a PROVE n[r[i + 1]] = IF i + 1 = k THEN nullptr ELSE r[(i + 1) + 1]
    <3>1. n[r[i + 1]] = IF i = a THEN nullptr ELSE q[i + 1]
      BY <1>1, <1>4 DEF Spelt
    <3>2. i # a => i + 1 \in 1 .. a
      OBVIOUS
    <3>3. i # a => r[(i + 1) + 1] = q[i + 1]
      BY <1>4, <3>2
    <3> QED BY <1>2, <3>1, <3>3
  <2>5. ASSUME NEW i \in 1 .. k PROVE n[r[i]] = IF i = k THEN nullptr ELSE r[i + 1]
    <3>1. CASE i = 1
      BY <2>3, <3>1
    <3>2. CASE i - 1 \in 1 .. a /\ (i - 1) + 1 = i
      <4>1. n[r[(i - 1) + 1]] = IF (i - 1) + 1 = k THEN nullptr ELSE r[((i - 1) + 1) + 1]
        BY <2>4, <3>2
      <4> QED BY <3>2, <4>1
    <3> QED BY <1>5, <3>1, <3>2
  <2>6. p = IF k = 0 THEN nullptr ELSE r[1]
    BY <1>2, <1>3
  <2> QED BY <2>1, <2>2, <2>5, <2>6 DEF Spelt
<1>7. /\ Good(n, p) /\ Count(n, p) = k
      /\ \A x : x \in On(n, p) <=> \E i \in 1 .. k : r[i] = x
  BY <1>6, SpeltIsList
<1>8. ASSUME NEW x PROVE x \in On(n, p) <=> x \in On(m, h) \/ x = p
  <2>1. ASSUME NEW i \in 1 .. k, r[i] = x PROVE x = p \/ \E j \in 1 .. a : q[j] = x
    <3>1. CASE i = 1
      BY <1>3, <2>1, <3>1
    <3>2. CASE i - 1 \in 1 .. a /\ (i - 1) + 1 = i
      BY <1>4, <2>1, <3>2
    <3> QED BY <1>5, <3>1, <3>2
  <2>2. (\E j \in 1 .. a : q[j] = x) => \E i \in 1 .. k : r[i] = x
    BY <1>4
  <2>3. x = p => \E i \in 1 .. k : r[i] = x
    BY <1>3
  <2>4. x \in On(m, h) <=> \E i \in 1 .. a : q[i] = x
    BY <1>1, Zenon
  <2>5. x \in On(n, p) <=> \E i \in 1 .. k : r[i] = x
    BY <1>7, Zenon
  <2> QED BY <2>1, <2>2, <2>3, <2>4, <2>5
<1>9. On(n, p) = On(m, h) \cup {p}
  BY <1>8
<1> QED BY <1>1, <1>2, <1>7, <1>9

(* A list cut behind its k-th block.                                       *)
Cuts(m, n, h, k, b) ==
  /\ Good(m, h) /\ k \in 1 .. Count(m, h) /\ b = Walk(m, h)[k]
  /\ \A x \in Words : n[x] = IF x = b THEN nullptr ELSE m[x]

(* The list falls into the part before the cut and the part behind it.     *)
LEMMA ListCut ==
  ASSUME NEW m, NEW n, NEW h, NEW k, NEW b, Cuts(m, n, h, k, b)
  PROVE  /\ b \in On(m, h)
         /\ Good(n, h) /\ Count(n, h) = k
         /\ Good(n, m[b]) /\ Count(n, m[b]) = Count(m, h) - k
         /\ On(m, h) = On(n, h) \cup On(n, m[b]) /\ On(n, h) \cap On(n, m[b]) = {}
<1> USE DEF Cuts
<1>1. PICK a \in Nat, q \in {Walk(m, h)} : /\ Spelt(m, h, q, a) /\ Count(m, h) = a /\ q = Walk(m, h)
                                           /\ \A x : x \in On(m, h) <=> \E i \in 1 .. a : q[i] = x
  BY ListSpelt
<1>2. k \in 1 .. a /\ k \in Nat /\ b = q[k] /\ b \in Words /\ b \in On(m, h)
  BY <1>1 DEF Spelt
<1>3. PICK d \in Nat : d = a - k /\ a = k + d
  <2>1. a - k \in Nat /\ a = k + (a - k)
    BY <1>2
  <2> QED BY <2>1
<1>4. Spelt(n, h, q, k)
  <2>1. \A i \in 1 .. k : i \in 1 .. a
    BY <1>2
  <2>2. \A i \in 1 .. k : q[i] \in Words
    BY <1>1, <2>1 DEF Spelt
  <2>3. \A i, j \in 1 .. k : q[i] = q[j] => i = j
    BY <1>1, <2>1 DEF Spelt
  <2>4. h = IF k = 0 THEN nullptr ELSE q[1]
    BY <1>1, <1>2 DEF Spelt
  <2>5. ASSUME NEW i \in 1 .. k PROVE n[q[i]] = IF i = k THEN nullptr ELSE q[i + 1]
    <3>1. i = k => n[q[i]] = nullptr
      BY <1>2
    <3>2. i # k => q[i] # b /\ i # a
      BY <1>1, <1>2, <2>1 DEF Spelt
    <3>3. m[q[i]] = IF i = a THEN nullptr ELSE q[i + 1]
      BY <1>1, <2>1 DEF Spelt
    <3> QED BY <2>2, <3>1, <3>2, <3>3
  <2> QED BY <2>2, <2>3, <2>4, <2>5 DEF Spelt
<1> DEFINE r == [i \in 1 .. d |-> q[k + i]]
<1>5. \A i \in 1 .. d : k + i \in 1 .. a /\ r[i] = q[k + i] /\ k + i # k
  BY <1>2, <1>3
<1> HIDE DEF r
<1>6. Spelt(n, m[b], r, d)
  <2>1. \A i \in 1 .. d : r[i] \in Words
    BY <1>1, <1>5 DEF Spelt
  <2>2. ASSUME NEW i \in 1 .. d, NEW j \in 1 .. d, r[i] = r[j] PROVE i = j
    <3>1. k + i = k + j
      BY <1>1, <1>5, <2>2 DEF Spelt
    <3> QED BY <1>2, <3>1
  <2>3. m[b] = IF d = 0 THEN nullptr ELSE r[1]
    <3>1. m[b] = IF k = a THEN nullptr ELSE q[k + 1]
      BY <1>1, <1>2 DEF Spelt
    <3>2. d # 0 => r[1] = q[k + 1]
      BY <1>5
    <3> QED BY <1>2, <1>3, <3>1, <3>2
  <2>4. ASSUME NEW i \in 1 .. d PROVE n[r[i]] = IF i = d THEN nullptr ELSE r[i + 1]
    <3>1. q[k + i] # b /\ q[k + i] \in Words
      BY <1>1, <1>2, <1>5 DEF Spelt
    <3>2. m[q[k + i]] = IF k + i = a THEN nullptr ELSE q[(k + i) + 1]
      BY <1>1, <1>5 DEF Spelt
    <3>3. i # d => i + 1 \in 1 .. d /\ k + (i + 1) = (k + i) + 1
      BY <1>2
    <3>4. i # d => r[i + 1] = q[(k + i) + 1]
      BY <1>5, <3>3
    <3>5. k + i = a <=> i = d
      BY <1>2, <1>3
    <3> QED BY <1>5, <3>1, <3>2, <3>4, <3>5
  <2> QED BY <2>1, <2>2, <2>3, <2>4 DEF Spelt
<1>7. /\ Good(n, h) /\ Count(n, h) = k
      /\ \A x : x \in On(n, h) <=> \E i \in 1 .. k : q[i] = x
  BY <1>2, <1>4, SpeltIsList
<1>8. /\ Good(n, m[b]) /\ Count(n, m[b]) = d
      /\ \A x : x \in On(n, m[b]) <=> \E i \in 1 .. d : r[i] = x
  BY <1>6, SpeltIsList
<1>9. ASSUME NEW x
      PROVE  /\ x \in On(m, h) <=> x \in On(n, h) \/ x \in On(n, m[b])
             /\ ~ (x \in On(n, h) /\ x \in On(n, m[b]))
  <2>1. x \in On(m, h) <=> \E i \in 1 .. a : q[i] = x
    BY <1>1, Zenon
  <2>2. x \in On(n, h) <=> \E i \in 1 .. k : q[i] = x
    BY <1>7, Zenon
  <2>3. x \in On(n, m[b]) <=> \E i \in 1 .. d : r[i] = x
    BY <1>8, Zenon
  <2>4. ASSUME NEW i \in 1 .. a, q[i] = x
        PROVE  (\E j \in 1 .. k : q[j] = x) \/ (\E j \in 1 .. d : r[j] = x)
    <3>1. CASE i <= k
      <4>1. i \in 1 .. k
        BY <3>1
      <4> QED BY <2>4, <4>1
    <3>2. CASE ~ (i <= k)
      <4>1. i - k \in 1 .. d /\ k + (i - k) = i
        BY <1>2, <1>3, <3>2
      <4> QED BY <1>5, <2>4, <4>1
    <3> QED BY <3>1, <3>2
  <2>5. (\E j \in 1 .. k : q[j] = x) => \E i \in 1 .. a : q[i] = x
    BY <1>2
  <2>6. (\E j \in 1 .. d : r[j] = x) => \E i \in 1 .. a : q[i] = x
    BY <1>5
  <2>7. ASSUME NEW i \in 1 .. k, NEW j \in 1 .. d, q[i] = x, r[j] = x PROVE FALSE
    <3>1. i \in 1 .. a /\ k + j \in 1 .. a /\ q[i] = q[k + j] /\ i # k + j
      BY <1>2, <1>5, <2>7
    <3> QED BY <1>1, <3>1 DEF Spelt
  <2> QED BY <2>1, <2>2, <2>3, <2>4, <2>5, <2>6, <2>7
<1>10. On(m, h) = On(n, h) \cup On(n, m[b]) /\ On(n, h) \cap On(n, m[b]) = {}
  BY <1>9
<1> QED BY <1>1, <1>2, <1>3, <1>7, <1>8, <1>10

(* The memory after a list has been linked.                                *)
LEMMA ListLinked ==
  ASSUME NEW m \in [Words -> Links], NEW q \in Seq(Words), IsInjective(q)
  PROVE  /\ Linked(m, q) \in [Words -> Links]
         /\ \A x \in Words : x \notin ToSet(q) => Linked(m, q)[x] = m[x]
         /\ Good(Linked(m, q), First(q)) /\ Walk(Linked(m, q), First(q)) = q
<1>1. PICK n \in Nat : /\ n = Len(q) /\ DOMAIN q = 1 .. n
                       /\ \A i \in 1 .. n : q[i] \in Words
                       /\ \A i, j \in 1 .. n : q[i] = q[j] => i = j
                       /\ \A x : x \in ToSet(q) <=> \E i \in 1 .. n : q[i] = x
  BY ListFacts
<1> DEFINE at(x) == CHOOSE i \in DOMAIN q : q[i] = x
<1>2. \A x \in ToSet(q) : at(x) \in 1 .. n /\ q[at(x)] = x
  BY <1>1
<1>3. \A i \in 1 .. n : at(q[i]) = i /\ q[i] \in ToSet(q)
  BY <1>1, <1>2
<1>4. \A i \in 1 .. n : After(q, i) \in Links
  <2> SUFFICES ASSUME NEW i \in 1 .. n PROVE After(q, i) \in Links
    OBVIOUS
  <2>1. i # n => i + 1 \in 1 .. n
    OBVIOUS
  <2> QED BY <1>1, <2>1 DEF After, Links
<1>5. \A x \in Words : Linked(m, q)[x] = IF x \in ToSet(q) THEN After(q, at(x)) ELSE m[x]
  BY DEF Linked
<1> HIDE DEF at
<1>6. Linked(m, q) \in [Words -> Links]
  <2>1. \A x \in Words : Linked(m, q)[x] \in Links
    BY <1>2, <1>4, <1>5
  <2>2. Linked(m, q) = [x \in Words |-> Linked(m, q)[x]]
    BY DEF Linked
  <2> QED BY <2>1, <2>2
<1>7. \A i \in DOMAIN q : Linked(m, q)[q[i]] = After(q, i)
  BY <1>1, <1>3, <1>5
<1>8. IsChain(Linked(m, q), First(q), q)
  BY <1>7 DEF IsChain
<1> QED BY <1>5, <1>6, <1>8, ChainIsList

-----------------------------------------------------------------------------
(* Blocks taken out of a list.                                             *)

(* A block more at the end of a list of others.                            *)
LEMMA AppendFacts ==
  ASSUME NEW q \in Seq(Words), IsInjective(q), NEW e \in Words, e \notin ToSet(q)
  PROVE  Append(q, e) \in Seq(Words) /\ IsInjective(Append(q, e)) /\ ToSet(Append(q, e)) = ToSet(q) \cup {e}
<1>1. PICK n \in Nat : n = Len(q) /\ (\A i, j \in 1 .. n : q[i] = q[j] => i = j)
                       /\ \A x : x \in ToSet(q) <=> \E i \in 1 .. n : q[i] = x
  BY ListFacts
<1>2. PICK k \in Nat : k = n + 1
  OBVIOUS
<1>3. PICK r : /\ r = Append(q, e) /\ r \in Seq(Words) /\ Len(r) = k
               /\ \A i \in 1 .. n : r[i] = q[i]
               /\ r[k] = e
  <2> DEFINE r == Append(q, e)
  <2>1. r \in Seq(Words)
    OBVIOUS
  <2>2. Len(r) = n + 1
    BY <1>1
  <2>3. \A i \in 1 .. n : r[i] = q[i]
    BY <1>1
  <2>4. r[n + 1] = e
    BY <1>1
  <2>5. Len(r) = k /\ r[k] = e
    BY <1>2, <2>2, <2>4
  <2> QED BY <2>1, <2>3, <2>5
<1>4. /\ \A x : x \in ToSet(r) <=> \E i \in 1 .. k : r[i] = x
      /\ IsInjective(r) <=> \A i, j \in 1 .. k : r[i] = r[j] => i = j
  <2>1. /\ \A x : x \in ToSet(r) <=> \E i \in 1 .. Len(r) : r[i] = x
        /\ IsInjective(r) <=> \A i, j \in 1 .. Len(r) : r[i] = r[j] => i = j
    BY <1>3, ListFacts
  <2> QED BY <1>3, <2>1
<1>5. /\ \A i \in 1 .. k : i \in 1 .. n \/ i = k
      /\ \A i \in 1 .. n : i \in 1 .. k
      /\ k \in 1 .. k
  BY <1>2
<1>6. \A i \in 1 .. n : q[i] # e
  BY <1>1
<1>7. IsInjective(r)
  <2> SUFFICES ASSUME NEW i \in 1 .. k, NEW j \in 1 .. k, r[i] = r[j] PROVE i = j
    BY <1>4
  <2> QED BY <1>1, <1>3, <1>5, <1>6
<1>8. ASSUME NEW x PROVE x \in ToSet(r) <=> x \in ToSet(q) \/ x = e
  <2>1. x \in ToSet(r) <=> \E i \in 1 .. k : r[i] = x
    BY <1>4, Zenon
  <2>2. x \in ToSet(q) <=> \E i \in 1 .. n : q[i] = x
    BY <1>1, Zenon
  <2>3. (\E i \in 1 .. k : r[i] = x) => (\E i \in 1 .. n : q[i] = x) \/ x = e
    BY <1>3, <1>5
  <2>4. (\E i \in 1 .. n : q[i] = x) => \E i \in 1 .. k : r[i] = x
    BY <1>3, <1>5
  <2>5. x = e => \E i \in 1 .. k : r[i] = x
    BY <1>3, <1>5
  <2> QED BY <2>1, <2>2, <2>3, <2>4, <2>5
<1>9. ToSet(r) = ToSet(q) \cup {e}
  BY <1>8
<1> QED BY <1>3, <1>7, <1>9

(* The equation of the recursion in Without, up to n.                      *)
Sieving(f, list, X, n) ==
  f = [i \in 0 .. n |->
         IF i = 0 THEN <<>> ELSE IF list[i] \in X THEN f[i - 1] ELSE Append(f[i - 1], list[i])]

(* The equation has a solution.                                            *)
LEMMA SievingSolved ==
  ASSUME NEW list, NEW X, NEW n \in Nat
  PROVE  \E f : Sieving(f, list, X, n)
<1> DEFINE U == {k \in Nat : ~ \E f : Sieving(f, list, X, k)}
<1> SUFFICES ASSUME U # {} PROVE FALSE
  OBVIOUS
<1>1. PICK k \in U : \A j \in U : k <= j
  <2>1. U \in SUBSET Nat
    OBVIOUS
  <2> HIDE DEF U
  <2> QED BY <2>1, LeastNumber
<1>2. k \in Nat /\ ~ \E f : Sieving(f, list, X, k)
  OBVIOUS
<1>3. CASE k = 0
  <2> DEFINE f == [i \in 0 .. 0 |-> <<>>]
  <2>1. \A i \in 0 .. 0 : i = 0
    OBVIOUS
  <2>2. f = [i \in 0 .. 0 |->
          IF i = 0 THEN <<>> ELSE IF list[i] \in X THEN f[i - 1] ELSE Append(f[i - 1], list[i])]
    BY <2>1
  <2>3. Sieving(f, list, X, 0)
    BY <2>2 DEF Sieving
  <2> QED BY <1>2, <1>3, <2>3
<1>4. CASE k # 0
  <2>1. PICK j \in Nat : k = j + 1
    <3>1. k - 1 \in Nat /\ k = (k - 1) + 1
      BY <1>2, <1>4
    <3> QED BY <3>1
  <2>2. PICK f : Sieving(f, list, X, j)
    <3>1. j \notin U
      BY <1>1, <1>2, <2>1
    <3> QED BY <3>1
  <2>3. \A i \in 0 .. j : f[i] = IF i = 0 THEN <<>> ELSE IF list[i] \in X THEN f[i - 1] ELSE Append(f[i - 1], list[i])
    <3> HIDE DEF U
    <3>1. f = [i \in 0 .. j |->
               IF i = 0 THEN <<>> ELSE IF list[i] \in X THEN f[i - 1] ELSE Append(f[i - 1], list[i])]
      BY <2>2 DEF Sieving
    <3> QED BY <3>1
  <2> DEFINE last == IF list[k] \in X THEN f[j] ELSE Append(f[j], list[k])
             g == [i \in 0 .. k |-> IF i <= j THEN f[i] ELSE last]
  <2>4. \A i \in 0 .. j : g[i] = f[i]
    BY <2>1
  <2>5. g[k] = last
    BY <2>1
  <2> HIDE DEF g, U
  <2>6. ASSUME NEW i \in 0 .. k
        PROVE  g[i] = IF i = 0 THEN <<>> ELSE IF list[i] \in X THEN g[i - 1] ELSE Append(g[i - 1], list[i])
    <3>1. CASE i = 0
      BY <2>3, <2>4, <3>1
    <3>2. CASE i # 0 /\ i <= j
      <4>1. i \in 0 .. j /\ i - 1 \in 0 .. j
        BY <3>2
      <4> QED BY <2>3, <2>4, <3>2, <4>1
    <3>3. CASE i # 0 /\ ~ (i <= j)
      <4>1. i = k /\ i - 1 = j /\ j \in 0 .. j
        BY <2>1, <3>3
      <4> QED BY <2>4, <2>5, <3>3, <4>1
    <3> QED BY <3>1, <3>2, <3>3
  <2>7. g = [i \in 0 .. k |-> g[i]]
    BY DEF g
  <2>8. [i \in 0 .. k |-> g[i]] =
        [i \in 0 .. k |->
           IF i = 0 THEN <<>> ELSE IF list[i] \in X THEN g[i - 1] ELSE Append(g[i - 1], list[i])]
    BY <2>6
  <2>9. Sieving(g, list, X, k)
    BY <2>7, <2>8 DEF Sieving
  <2> QED BY <1>2, <2>9
<1> QED BY <1>3, <1>4

(* What is left of a list.                                                 *)
LEMMA WithoutFacts ==
  ASSUME NEW list \in Seq(Words), IsInjective(list), NEW X
  PROVE  /\ Without(list, X) \in Seq(Words) /\ IsInjective(Without(list, X))
         /\ ToSet(Without(list, X)) = ToSet(list) \ X
<1>1. PICK n \in Nat : /\ n = Len(list)
                       /\ \A i \in 1 .. n : list[i] \in Words
                       /\ \A i, j \in 1 .. n : list[i] = list[j] => i = j
                       /\ \A x : x \in ToSet(list) <=> \E i \in 1 .. n : list[i] = x
  BY ListFacts
<1>2. Without(list, X) = (CHOOSE f : Sieving(f, list, X, n))[n]
  BY <1>1 DEF Without, Sieving
<1>3. PICK f : Sieving(f, list, X, n) /\ Without(list, X) = f[n]
  BY <1>2, SievingSolved
<1>4. \A i \in 0 .. n : f[i] = IF i = 0 THEN <<>> ELSE IF list[i] \in X THEN f[i - 1] ELSE Append(f[i - 1], list[i])
  <2>1. f = [i \in 0 .. n |->
               IF i = 0 THEN <<>> ELSE IF list[i] \in X THEN f[i - 1] ELSE Append(f[i - 1], list[i])]
    BY <1>3 DEF Sieving
  <2> QED BY <2>1
<1> DEFINE Right(i) == /\ f[i] \in Seq(Words) /\ IsInjective(f[i])
                       /\ \A x : x \in ToSet(f[i]) <=> (x \notin X /\ \E j \in 1 .. i : list[j] = x)
           U == {i \in 0 .. n : ~ Right(i)}
<1>5. U = {}
  <2> SUFFICES ASSUME U # {} PROVE FALSE
    OBVIOUS
  <2>1. PICK k \in U : \A j \in U : k <= j
    <3>1. U \in SUBSET Nat
      OBVIOUS
    <3> HIDE DEF U
    <3> QED BY <3>1, LeastNumber
  <2>2. k \in 0 .. n /\ ~ Right(k)
    OBVIOUS
  <2>3. Right(0)
    <3>1. f[0] = <<>>
      BY <1>4
    <3>2. ~ \E j \in 1 .. 0 : TRUE
      OBVIOUS
    <3> QED BY <3>1, <3>2, EmptyFacts
  <2>4. k # 0
    <3> HIDE DEF Right
    <3> QED BY <2>2, <2>3
  <2>5. PICK d \in 0 .. n : k = d + 1 /\ k - 1 = d
    <3>1. k - 1 \in 0 .. n /\ k = (k - 1) + 1
      BY <2>2, <2>4
    <3> QED BY <3>1
  <2>6. Right(d)
    <3>1. d \notin U
      BY <2>1, <2>5
    <3> HIDE DEF Right
    <3> QED BY <3>1
  <2>7. k \in 1 .. n /\ \A j \in 1 .. k : j \in 1 .. d \/ j = k
    BY <2>2, <2>5
  <2>8. \A j \in 1 .. d : j \in 1 .. k /\ j # k /\ j \in 1 .. n
    BY <2>5
  <2>9. f[k] = IF list[k] \in X THEN f[d] ELSE Append(f[d], list[k])
    BY <1>4, <2>2, <2>4, <2>5
  <2> HIDE DEF U
  <2>10. CASE list[k] \in X
    <3>1. \A x : (x \notin X /\ \E j \in 1 .. k : list[j] = x) <=> (x \notin X /\ \E j \in 1 .. d : list[j] = x)
      BY <2>7, <2>8, <2>10
    <3>2. f[k] = f[d]
      BY <2>9, <2>10
    <3>3. Right(k)
      BY <2>6, <3>1, <3>2
    <3> QED BY <2>2, <3>3
  <2>11. CASE list[k] \notin X
    <3>1. list[k] \in Words /\ list[k] \notin ToSet(f[d])
      BY <1>1, <2>6, <2>7, <2>8
    <3>2. f[k] \in Seq(Words) /\ IsInjective(f[k]) /\ ToSet(f[k]) = ToSet(f[d]) \cup {list[k]}
      BY <2>6, <2>9, <2>11, <3>1, AppendFacts
    <3>3. ASSUME NEW x PROVE x \in ToSet(f[k]) <=> (x \notin X /\ \E j \in 1 .. k : list[j] = x)
      <4>1. x \in ToSet(f[d]) <=> (x \notin X /\ \E j \in 1 .. d : list[j] = x)
        BY <2>6
      <4>2. (\E j \in 1 .. k : list[j] = x) <=> (\E j \in 1 .. d : list[j] = x) \/ list[k] = x
        <5>1. k \in 1 .. k
          BY <2>7
        <5> QED BY <2>7, <2>8, <5>1
      <4> QED BY <2>11, <3>2, <4>1, <4>2
    <3>4. Right(k)
      BY <3>2, <3>3
    <3> QED BY <2>2, <3>4
  <2> QED BY <2>10, <2>11
<1>6. Right(n)
  <2>1. n \in 0 .. n
    OBVIOUS
  <2> HIDE DEF Right
  <2> QED BY <1>5, <2>1
<1>7. ToSet(f[n]) = ToSet(list) \ X
  BY <1>1, <1>6
<1> QED BY <1>3, <1>6, <1>7

-----------------------------------------------------------------------------
(* Spans and their blocks.                                                 *)

(* Block i of a span starts and ends inside it.                            *)
LEMMA BlockInside ==
  ASSUME NEW c \in Classes, NEW i \in 1 .. blockNum(c)
  PROVE  /\ (i - 1) * BlockSize[c] \in Nat
         /\ (i - 1) * BlockSize[c] + BlockSize[c] <= SpanPages[c] * PageWords
         /\ BlockSize[c] \in Nat \ {0}
<1>1. PICK d \in Nat \ {0}, w \in Nat : d = BlockSize[c] /\ w = SpanPages[c] * PageWords
  BY ThreadCacheV2Assumption
<1>2. PICK n \in Nat : n = w \div d /\ n * d <= w /\ n * d \in Nat
  <2>1. w \div d \in Nat /\ (w \div d) * d <= w
    BY DivBounds
  <2>2. PICK n \in Nat : n = w \div d
    BY <2>1
  <2> QED BY <2>1, <2>2
<1>3. PICK j \in Nat : j = i - 1 /\ j < n
  <2>1. n = blockNum(c)
    BY <1>1, <1>2 DEF blockNum
  <2> QED BY <2>1
<1>4. j * d + d <= n * d /\ j * d \in Nat
  BY <1>1, <1>2, <1>3, ProductOrder
<1>5. PICK a, b \in Nat : a = j * d /\ b = n * d /\ a + d <= b /\ b <= w
  BY <1>2, <1>4
<1>6. a + d <= w
  BY <1>1, <1>5
<1> QED BY <1>1, <1>3, <1>5, <1>6

(* How many blocks there are.                                              *)
LEMMA BlockNumFacts ==
  ASSUME NEW c \in Classes
  PROVE  /\ blockNum(c) \in Nat
         /\ BlockSize[c] \in Nat \ {0} /\ SpanPages[c] \in Nat \ {0}
         /\ SpanPages[c] * PageWords \in Nat
<1>1. PICK d \in Nat \ {0}, w \in Nat : d = BlockSize[c] /\ w = SpanPages[c] * PageWords
  BY ThreadCacheV2Assumption
<1>2. w \div d \in Nat
  BY DivBounds
<1> QED BY <1>1, <1>2, ThreadCacheV2Assumption DEF blockNum

(* Two blocks of a span do not overlap.                                    *)
LEMMA BlocksDiffer ==
  ASSUME NEW c \in Classes, NEW i \in 1 .. blockNum(c), NEW j \in 1 .. blockNum(c), i < j
  PROVE  (i - 1) * BlockSize[c] + BlockSize[c] <= (j - 1) * BlockSize[c]
<1>1. PICK d \in Nat : d = BlockSize[c]
  BY BlockNumFacts
<1>2. PICK n \in Nat : n = blockNum(c)
  BY BlockNumFacts
<1>3. PICK a, b \in Nat : a = i - 1 /\ b = j - 1 /\ a < b
  <2>1. i - 1 \in Nat /\ j - 1 \in Nat /\ i - 1 < j - 1
    BY <1>2
  <2> QED BY <2>1
<1>4. a * d + d <= b * d
  BY <1>3, ProductOrder
<1> QED BY <1>1, <1>3, <1>4

(* A block of a span lies inside it.                                       *)
LEMMA CutInside ==
  ASSUME NEW c \in Classes, NEW s \in Nat, NEW p \in CutFrom(s, c)
  PROVE  p \in Nat /\ s <= p /\ p + BlockSize[c] <= s + SpanPages[c] * PageWords /\ p \in SpanWords(s, c)
<1>1. PICK i \in 1 .. blockNum(c) : p = s + (i - 1) * BlockSize[c]
  BY DEF CutFrom
<1>2. PICK a \in Nat : a = (i - 1) * BlockSize[c] /\ a + BlockSize[c] <= SpanPages[c] * PageWords
  BY BlockInside
<1>3. PICK w \in Nat, d \in Nat \ {0} : w = SpanPages[c] * PageWords /\ d = BlockSize[c]
  BY BlockNumFacts
<1>4. p = s + a /\ a + d <= w
  BY <1>1, <1>2, <1>3
<1>5. p \in Nat /\ s <= p /\ p + d <= s + w /\ p \in s .. (s + w - 1)
  BY <1>4
<1> QED BY <1>3, <1>5 DEF SpanWords

(* Two blocks of a span do not overlap.                                    *)
LEMMA CutApart ==
  ASSUME NEW c \in Classes, NEW s \in Nat, NEW p \in CutFrom(s, c), NEW q \in CutFrom(s, c), p # q
  PROVE  p + BlockSize[c] <= q \/ q + BlockSize[c] <= p
<1>1. PICK i \in 1 .. blockNum(c) : p = s + (i - 1) * BlockSize[c]
  BY DEF CutFrom
<1>2. PICK j \in 1 .. blockNum(c) : q = s + (j - 1) * BlockSize[c]
  BY DEF CutFrom
<1>3. PICK a, b \in Nat : a = (i - 1) * BlockSize[c] /\ b = (j - 1) * BlockSize[c]
  BY BlockInside
<1>4. PICK d \in Nat : d = BlockSize[c]
  BY BlockNumFacts
<1>5. blockNum(c) \in Nat
  BY BlockNumFacts
<1>6. i # j
  BY <1>1, <1>2
<1>7. CASE i < j
  <2>1. a + d <= b
    BY <1>3, <1>4, <1>7, BlocksDiffer
  <2> QED BY <1>1, <1>2, <1>3, <1>4, <2>1
<1>8. CASE j < i
  <2>1. b + d <= a
    BY <1>3, <1>4, <1>8, BlocksDiffer
  <2> QED BY <1>1, <1>2, <1>3, <1>4, <2>1
<1> QED BY <1>5, <1>6, <1>7, <1>8

(* The list that a span is cut into.                                       *)
LEMMA BlocksFacts ==
  ASSUME NEW c \in Classes, NEW s \in Nat, CutFrom(s, c) \subseteq Words
  PROVE  /\ Blocks(s, c) \in Seq(Words) /\ IsInjective(Blocks(s, c))
         /\ ToSet(Blocks(s, c)) = CutFrom(s, c)
         /\ Len(Blocks(s, c)) = blockNum(c)
         /\ blockNum(c) # 0 => Blocks(s, c)[1] = s
<1>1. PICK n \in Nat : n = blockNum(c)
  BY BlockNumFacts
<1>2. PICK q : q = Blocks(s, c) /\ q = [i \in 1 .. n |-> s + (i - 1) * BlockSize[c]]
  BY <1>1 DEF Blocks
<1>3. \A i \in 1 .. n : q[i] \in CutFrom(s, c) /\ q[i] = s + (i - 1) * BlockSize[c]
  BY <1>1, <1>2 DEF CutFrom
<1>4. q \in [1 .. n -> Words]
  BY <1>2, <1>3
<1>5. q \in Seq(Words) /\ Len(q) = n /\ DOMAIN q = 1 .. n
  BY <1>4
<1>6. ToSet(q) = CutFrom(s, c)
  BY <1>1, <1>3, <1>5 DEF ToSet, CutFrom
<1>7. IsInjective(q)
  <2> SUFFICES ASSUME NEW i \in 1 .. n, NEW j \in 1 .. n, i < j, q[i] = q[j] PROVE FALSE
    <3>1. ASSUME NEW i \in 1 .. n, NEW j \in 1 .. n, q[i] = q[j] PROVE i = j
      BY <3>1
    <3> QED BY <1>5, <3>1 DEF IsInjective
  <2>1. PICK a, b \in Nat : a = (i - 1) * BlockSize[c] /\ b = (j - 1) * BlockSize[c] /\ a + BlockSize[c] <= b
    BY <1>1, BlocksDiffer, BlockInside
  <2>2. PICK d \in Nat \ {0} : d = BlockSize[c]
    BY BlockNumFacts
  <2>3. s + a = s + b
    <3>1. q[i] = s + (i - 1) * BlockSize[c]
      BY <1>3
    <3>2. q[j] = s + (j - 1) * BlockSize[c]
      BY <1>3
    <3> QED BY <2>1, <3>1, <3>2
  <2>4. a + d <= b
    BY <2>1, <2>2
  <2>5. FALSE
    BY <2>3, <2>4
  <2> QED BY <2>5
<1>8. n # 0 => q[1] = s
  <2>1. BlockSize[c] \in Nat
    BY BlockNumFacts
  <2>2. n # 0 => 1 \in 1 .. n /\ (1 - 1) * BlockSize[c] = 0
    BY <2>1
  <2> QED BY <1>3, <2>2
<1> QED BY <1>1, <1>2, <1>5, <1>6, <1>7, <1>8

-----------------------------------------------------------------------------
(* The words of a run of pages.                                            *)
LEMMA RunWords ==
  ASSUME NEW g \in Nat, NEW n \in Nat, NEW h \in Nat, g + n <= h
  PROVE  /\ g * PageWords \in Nat /\ n * PageWords \in Nat /\ h * PageWords \in Nat
         /\ g * PageWords + n * PageWords <= h * PageWords
<1>1. PICK w \in Nat : w = PageWords
  BY WordsFacts
<1>2. PICK k \in Nat : k = g + n
  OBVIOUS
<1>3. k * w = g * w + n * w /\ g * w \in Nat /\ n * w \in Nat /\ h * w \in Nat
  BY <1>2
<1>4. k * w <= h * w
  <2>1. CASE k = h
    BY <1>3, <2>1
  <2>2. CASE k # h
    <3>1. k < h
      BY <1>2, <2>2
    <3>2. k * w + w <= h * w /\ k * w \in Nat /\ h * w \in Nat
      BY <3>1, ProductOrder
    <3> QED BY <3>2
  <2> QED BY <2>1, <2>2
<1> QED BY <1>1, <1>3, <1>4

(* A span starts on the page it is named by.                               *)
LEMMA PageOfFirst ==
  ASSUME NEW g \in Nat
  PROVE  PageOf(FirstWord(g)) = g /\ FirstWord(g) \in Nat \ {0}
<1>1. PICK w \in Nat \ {0} : w = PageWords
  BY WordsFacts
<1>2. PICK a \in Nat : a = g * w
  BY <1>1
<1>3. a \div w = g
  BY <1>2
<1>4. (a + 1) - 1 = a /\ a + 1 \in Nat \ {0}
  BY <1>2
<1> QED BY <1>1, <1>2, <1>3, <1>4 DEF PageOf, FirstWord

(* What the page cache says of a span that is held.                        *)
LEMMA HeldPlace ==
  ASSUME SpansInv, running, NEW g \in DOMAIN held
  PROVE  g \in Nat /\ held[g] \in Nat \ {0} /\ g + held[g] <= NumPages
<1>1. g \in DOMAIN spanMap /\ held[g] = spanMap[g]
  BY HeldFacts
<1>2. /\ g \in Nat /\ spanMap[g] \in Nat \ {0} /\ End(g) = g + spanMap[g]
      /\ PagesOf(g) = {p \in Nat : g <= p /\ p < End(g)}
  BY <1>1, SpanFacts DEF End
<1>3. g + spanMap[g] - 1 \in PagesOf(g)
  BY <1>2
<1>4. g + spanMap[g] - 1 \in Pages
  BY <1>1, <1>3, SpansMapped
<1> QED BY <1>1, <1>2, <1>4, WordsFacts DEF Pages

(* Two runs of pages in use do not overlap.                                *)
LEMMA HeldApart ==
  ASSUME SpansInv, running, NEW g \in DOMAIN held, NEW h \in DOMAIN held, g # h
  PROVE  g + held[g] <= h \/ h + held[h] <= g
<1>1. g \in DOMAIN spanMap /\ held[g] = spanMap[g] /\ h \in DOMAIN spanMap /\ held[h] = spanMap[h]
  BY HeldFacts
<1>2. /\ g \in Nat /\ spanMap[g] \in Nat \ {0} /\ End(g) = g + spanMap[g]
      /\ PagesOf(g) = {p \in Nat : g <= p /\ p < End(g)}
  BY <1>1, SpanFacts DEF End
<1>3. /\ h \in Nat /\ spanMap[h] \in Nat \ {0} /\ End(h) = h + spanMap[h]
      /\ PagesOf(h) = {p \in Nat : h <= p /\ p < End(h)}
  BY <1>1, SpanFacts DEF End
<1>4. CASE g < h
  <2>1. h \in PagesOf(h)
    BY <1>3
  <2>2. h \notin PagesOf(g)
    BY <1>1, <2>1, OneSpan
  <2> QED BY <1>1, <1>2, <1>3, <1>4, <2>2
<1>5. CASE h < g
  <2>1. g \in PagesOf(g)
    BY <1>2
  <2>2. g \notin PagesOf(h)
    BY <1>1, <2>1, OneSpan
  <2> QED BY <1>1, <1>2, <1>3, <1>5, <2>2
<1> QED BY <1>2, <1>3, <1>4, <1>5

(* Where a new span lies.                                                  *)
LEMMA NewSpanPlace ==
  ASSUME SpansInv, NEW n \in Sizes, NEW g \in Pages, allocateSpan(n, g)
  PROVE  /\ running /\ g \in Nat /\ n \in Nat /\ g + n <= NumPages
         /\ g \notin DOMAIN held
         /\ \A h \in DOMAIN held : g + n <= h \/ h + held[h] <= g
<1>1. running /\ (AllocateFromList(n, g) \/ AllocateFromSystem(n, g))
  BY DEF allocateSpan
<1>2. g \in Nat /\ n \in Nat \ {0} /\ NumPages \in Nat
  BY PageCacheV2Assumption DEF Pages, Sizes
<1>3. \A h \in DOMAIN held : h \in DOMAIN spanMap /\ h \notin Listed /\ held[h] = spanMap[h]
  BY HeldFacts
<1>4. \A h \in DOMAIN held : /\ h \in Nat /\ spanMap[h] \in Nat \ {0}
                             /\ PagesOf(h) = {p \in Nat : h <= p /\ p < h + spanMap[h]}
                             /\ PagesOf(h) \subseteq osPages
  BY <1>1, <1>3, SpanFacts, SpansMapped DEF End
<1>5. Run(g, n) \subseteq Pages /\ g \notin DOMAIN held /\ \A h \in DOMAIN held : Run(g, n) \cap PagesOf(h) = {}
  <2>1. CASE AllocateFromList(n, g)
    <3>1. PICK k \in n .. NumPages : g \in freeSpans[k]
      BY <2>1 DEF AllocateFromList, lowerBound
    <3>2. k \in Sizes /\ k \in Nat /\ n <= k
      BY <1>2, <3>1 DEF Sizes
    <3>3. g \in Listed /\ spanMap[g] = k /\ g \in DOMAIN spanMap
      BY <3>1, <3>2, ListedFacts
    <3>4. PagesOf(g) = {p \in Nat : g <= p /\ p < g + k} /\ PagesOf(g) \subseteq Pages
      BY <1>1, <3>3, SpanFacts, SpansMapped DEF End
    <3>5. Run(g, n) \subseteq PagesOf(g)
      BY <1>2, <3>2, <3>4 DEF Run
    <3>6. g \notin DOMAIN held
      BY <1>3, <3>3
    <3>7. \A h \in DOMAIN held : PagesOf(g) \cap PagesOf(h) = {}
      BY <1>3, <3>3, OneSpan
    <3> QED BY <3>4, <3>5, <3>6, <3>7
  <2>2. CASE AllocateFromSystem(n, g)
    <3>1. Run(g, n) \subseteq Pages \ osPages
      BY <2>2 DEF AllocateFromSystem
    <3>2. g \in Run(g, n)
      BY <1>2 DEF Run
    <3>3. \A h \in DOMAIN held : h \in PagesOf(h)
      BY <1>4
    <3> QED BY <1>4, <3>1, <3>2, <3>3
  <2> QED BY <1>1, <2>1, <2>2
<1>6. g + n <= NumPages
  <2>1. g + n - 1 \in Run(g, n)
    BY <1>2 DEF Run
  <2>2. g + n - 1 \in Pages
    BY <1>5, <2>1
  <2> QED BY <1>2, <2>2 DEF Pages
<1>7. ASSUME NEW h \in DOMAIN held PROVE g + n <= h \/ h + held[h] <= g
  <2>1. h \in Nat /\ spanMap[h] \in Nat \ {0} /\ held[h] = spanMap[h]
    BY <1>3, <1>4
  <2>2. h \in PagesOf(h) /\ (g \in PagesOf(h) <=> h <= g /\ g < h + spanMap[h])
    BY <1>2, <1>4
  <2>3. g \in Run(g, n) /\ (h \in Run(g, n) <=> g <= h /\ h < g + n)
    BY <1>2, <2>1 DEF Run
  <2>4. g \notin PagesOf(h) /\ h \notin Run(g, n)
    BY <1>5, <2>2, <2>3
  <2> QED BY <1>2, <2>1, <2>2, <2>3, <2>4
<1> QED BY <1>1, <1>2, <1>5, <1>6, <1>7

-----------------------------------------------------------------------------
(* The spans that have been cut.                                           *)
LEMMA SpanPlace ==
  ASSUME SpansInv, TypeOK, SpansSound, running, NEW s \in DOMAIN spans, NEW c, c = spans[s]
  PROVE  /\ c \in Classes /\ s \in Nat \ {0}
         /\ s + SpanPages[c] * PageWords <= NumPages * PageWords + 1
         /\ SpanWords(s, c) \subseteq Words /\ CutFrom(s, c) \subseteq SpanWords(s, c)
<1>1. c \in Classes /\ s \in Nat \ {0}
  BY WordsFacts DEF TypeOK
<1>2. PICK g \in DOMAIN held : s = FirstWord(g) /\ held[g] = SpanPages[c]
  BY DEF SpansSound
<1>3. g \in Nat /\ SpanPages[c] \in Nat \ {0} /\ g + SpanPages[c] <= NumPages /\ NumPages \in Nat
  BY <1>2, HeldPlace, WordsFacts
<1>4. PICK a, b, e \in Nat : /\ a = g * PageWords /\ b = SpanPages[c] * PageWords /\ e = NumPages * PageWords
                             /\ a + b <= e
  BY <1>3, RunWords
<1>5. s = a + 1 /\ s + b <= e + 1
  BY <1>2, <1>4 DEF FirstWord
<1>6. SpanWords(s, c) \subseteq Words
  BY <1>4, <1>5 DEF SpanWords, Words
<1>7. CutFrom(s, c) \subseteq SpanWords(s, c)
  BY <1>1, CutInside
<1> QED BY <1>1, <1>4, <1>5, <1>6, <1>7

(* The words of a tracker whose span is held as long as the tracker says   *)
(* are those of the span.                                                  *)
LEMMA TrackerPlace ==
  ASSUME SpansInv, TypeOK, SpansSound, running, NEW tracker,
         tracker.span \in DOMAIN held, held[tracker.span] = tracker.numPages,
         NEW s \in DOMAIN spans, s = FirstWord(tracker.span)
  PROVE  CutFrom(s, spans[s]) \subseteq TrackerWords(tracker)
<1>1. PICK g, n \in Nat : g = tracker.span /\ n = tracker.numPages
  BY HeldPlace
<1>2. PageOf(s) = g /\ n = SpanPages[spans[s]]
  BY <1>1, PageOfFirst DEF SpansSound
<1>0. PICK w \in Nat : w = PageWords
  BY WordsFacts
<1>3. PICK a, b \in Nat : a = g * w /\ b = n * w /\ (g + n) * w = a + b
  <2>1. (g + n) * w = g * w + n * w /\ g * w \in Nat /\ n * w \in Nat
    OBVIOUS
  <2> QED BY <2>1
<1>4. FirstWord(g) = a + 1 /\ FirstWord(g + n) = a + b + 1
  BY <1>0, <1>3 DEF FirstWord
<1>5. TrackerWords(tracker) = (a + 1) .. (a + 1 + b - 1)
  <2>1. TrackerWords(tracker) = FirstWord(g) .. (FirstWord(g + n) - 1)
    BY <1>1, Zenon DEF TrackerWords
  <2>2. (a + b + 1) - 1 = a + 1 + b - 1
    OBVIOUS
  <2> QED BY <1>4, <2>1, <2>2
<1>6. SpanWords(s, spans[s]) = (a + 1) .. (a + 1 + b - 1)
  BY <1>0, <1>1, <1>2, <1>3, <1>4 DEF SpanWords
<1> QED BY <1>5, <1>6, SpanPlace

(* Nor do two spans.                                                       *)
LEMMA SpansApart ==
  ASSUME SpansInv, TypeOK, SpansSound, running, NEW s \in DOMAIN spans, NEW t \in DOMAIN spans, s # t
  PROVE  \/ s + SpanPages[spans[s]] * PageWords <= t
         \/ t + SpanPages[spans[t]] * PageWords <= s
<1>1. PICK c, d \in Classes : c = spans[s] /\ d = spans[t]
  BY SpanPlace
<1>2. PICK g \in DOMAIN held : s = FirstWord(g) /\ held[g] = SpanPages[c]
  BY <1>1 DEF SpansSound
<1>3. PICK h \in DOMAIN held : t = FirstWord(h) /\ held[h] = SpanPages[d]
  BY <1>1 DEF SpansSound
<1>4. g \in Nat /\ SpanPages[c] \in Nat /\ h \in Nat /\ SpanPages[d] \in Nat
  BY <1>2, <1>3, HeldPlace
<1>5. g + SpanPages[c] <= h \/ h + SpanPages[d] <= g
  BY <1>2, <1>3, HeldApart
<1>6. PICK a, b, u, v \in Nat : /\ a = g * PageWords /\ b = h * PageWords
                                /\ u = SpanPages[c] * PageWords /\ v = SpanPages[d] * PageWords
  <2>1. g * PageWords \in Nat /\ h * PageWords \in Nat
    BY <1>4, WordsFacts
  <2> QED BY <1>1, <2>1, BlockNumFacts
<1>7. a + u <= b \/ b + v <= a
  BY <1>4, <1>5, <1>6, RunWords
<1>8. s = a + 1 /\ t = b + 1
  BY <1>2, <1>3, <1>6 DEF FirstWord
<1>9. s + u <= t \/ t + v <= s
  BY <1>7, <1>8
<1> QED BY <1>1, <1>6, <1>9

(* Where a block lies.                                                     *)
LEMMA HomePlace ==
  ASSUME SpansInv, TypeOK, SpansSound, running, NEW c \in Classes, NEW p, Home(spans, p, c)
  PROVE  p \in Words /\ p + BlockSize[c] <= NumPages * PageWords + 1
<1>1. PICK s \in DOMAIN spans : spans[s] = c /\ p \in CutFrom(s, c)
  BY DEF Home
<1>2. PICK u, e \in Nat, b \in Nat : u = SpanPages[c] * PageWords /\ e = NumPages * PageWords /\ b = BlockSize[c]
  BY BlockNumFacts, WordsFacts
<1>3. s \in Nat \ {0} /\ s + u <= e + 1 /\ SpanWords(s, c) \subseteq Words
  BY <1>1, <1>2, SpanPlace
<1>4. p \in Nat /\ p + b <= s + u /\ p \in SpanWords(s, c)
  BY <1>1, <1>2, <1>3, CutInside
<1>5. p + b <= e + 1
  BY <1>2, <1>3, <1>4
<1> QED BY <1>2, <1>3, <1>4, <1>5

(* Blocks do not overlap.                                                  *)
LEMMA HomesApart ==
  ASSUME SpansInv, TypeOK, SpansSound, running, NEW c \in Classes, NEW d \in Classes,
         NEW p, NEW q, Home(spans, p, c), Home(spans, q, d), p # q
  PROVE  p + BlockSize[c] <= q \/ q + BlockSize[d] <= p
<1>1. PICK s \in DOMAIN spans : spans[s] = c /\ p \in CutFrom(s, c)
  BY DEF Home
<1>2. PICK t \in DOMAIN spans : spans[t] = d /\ q \in CutFrom(t, d)
  BY DEF Home
<1>3. s \in Nat /\ t \in Nat
  BY SpanPlace
<1>4. CASE s = t
  <2>1. c = d
    BY <1>1, <1>2, <1>4
  <2> QED BY <1>1, <1>2, <1>3, <1>4, <2>1, CutApart
<1>5. CASE s # t
  <2>1. PICK u, v, a, b \in Nat : /\ u = SpanPages[c] * PageWords /\ v = SpanPages[d] * PageWords
                                  /\ a = BlockSize[c] /\ b = BlockSize[d]
    BY BlockNumFacts
  <2>2. p \in Nat /\ s <= p /\ p + a <= s + u
    BY <1>1, <1>3, <2>1, CutInside
  <2>3. q \in Nat /\ t <= q /\ q + b <= t + v
    BY <1>2, <1>3, <2>1, CutInside
  <2>4. s + u <= t \/ t + v <= s
    BY <1>1, <1>2, <1>5, <2>1, SpansApart
  <2>5. p + a <= q \/ q + b <= p
    BY <1>3, <2>1, <2>2, <2>3, <2>4
  <2> QED BY <2>1, <2>5
<1> QED BY <1>4, <1>5

-----------------------------------------------------------------------------
(* What fetchRange delivers.                                               *)

(* Names of the lists.                                                     *)
LEMMA ListNames ==
  /\ \A c \in Classes : <<"central", c>> \in Lists /\ HeadOf(<<"central", c>>) = centralFreeList[c]
  /\ \A t \in Threads, c \in Classes :
       <<t, c>> \in Lists /\ HeadOf(<<t, c>>) = freeList[t][c] /\ t # "central"
  /\ \A l \in Lists : \/ \E c \in Classes : l = <<"central", c>>
                      \/ \E t \in Threads, c \in Classes : l = <<t, c>>
BY ThreadCacheV2Assumption DEF Lists, HeadOf

(* A span that stays where it is keeps its blocks.                         *)
LEMMA HomeKept ==
  ASSUME NEW S, NEW T, \A s \in DOMAIN S : s \in DOMAIN T /\ T[s] = S[s]
  PROVE  \A p, c : Home(S, p, c) => Home(T, p, c)
BY DEF Home

(* The pages of the page cache stay sound when a call leaves them alone.   *)
LEMMA PagesKept ==
  ASSUME SpansInv, SpansSound, UNCHANGED pageVars,
         DOMAIN spans' \subseteq DOMAIN spans, \A s \in DOMAIN spans' : spans'[s] = spans[s]
  PROVE  SpansInv' /\ SpansSound'
<1>1. SpansInv'
  BY SpansNextInv
<1>2. SpansSound'
  BY DEF SpansSound, pageVars
<1> QED BY <1>1, <1>2

(* The blocks of a new span are nobody else's.                             *)
LEMMA NewWordsApart ==
  ASSUME SpansInv, TypeOK, SpansSound, NEW c \in Classes, NEW g \in Pages, SpanPages[c] \in Sizes,
         allocateSpan(SpanPages[c], g), NEW s, s = FirstWord(g)
  PROVE  /\ s \in Words /\ s \notin DOMAIN spans /\ CutFrom(s, c) \subseteq Words
         /\ \A p : \A d \in Classes : Home(spans, p, d) => p \notin CutFrom(s, c)
<1>1. /\ running /\ g \in Nat /\ SpanPages[c] \in Nat \ {0} /\ NumPages \in Nat /\ g + SpanPages[c] <= NumPages
      /\ g \notin DOMAIN held
      /\ \A h \in DOMAIN held : g + SpanPages[c] <= h \/ h + held[h] <= g
  BY NewSpanPlace, BlockNumFacts, WordsFacts
<1>2. PICK a, u, e \in Nat : /\ a = g * PageWords /\ u = SpanPages[c] * PageWords /\ e = NumPages * PageWords
                             /\ a + u <= e
  BY <1>1, RunWords
<1>3. s = a + 1 /\ s \in Nat
  BY <1>2 DEF FirstWord
<1>4. u # 0 /\ s \in Words
  <2>1. PICK n, w \in Nat \ {0} : n = SpanPages[c] /\ w = PageWords
    BY <1>1, WordsFacts
  <2>2. n * w # 0
    BY <2>1
  <2> QED BY <1>2, <1>3, <2>1, <2>2 DEF Words
<1>5. s \notin DOMAIN spans
  <2>1. PageOf(s) = g
    BY <1>1, PageOfFirst
  <2> QED BY <1>1, <2>1 DEF SpansSound
<1>6. \A p \in CutFrom(s, c) : p \in Nat /\ s <= p /\ p + BlockSize[c] <= s + u
  BY <1>2, <1>3, CutInside
<1>7. BlockSize[c] \in Nat \ {0}
  BY BlockNumFacts
<1>8. CutFrom(s, c) \subseteq Words
  <2> SUFFICES ASSUME NEW p \in CutFrom(s, c) PROVE p \in Words
    OBVIOUS
  <2>1. p \in Nat /\ s <= p /\ p + BlockSize[c] <= s + u
    BY <1>6
  <2> QED BY <1>2, <1>3, <1>7, <2>1 DEF Words
<1>9. ASSUME NEW p, NEW d \in Classes, Home(spans, p, d) PROVE p \notin CutFrom(s, c)
  <2>1. PICK t \in DOMAIN spans : spans[t] = d /\ p \in CutFrom(t, d)
    BY <1>9 DEF Home
  <2>2. PICK h \in DOMAIN held : t = FirstWord(h) /\ held[h] = SpanPages[d]
    BY <1>1, <2>1 DEF SpansSound
  <2>3. h \in Nat /\ SpanPages[d] \in Nat
    BY <1>1, <2>2, HeldPlace
  <2>4. PICK b, v \in Nat : b = h * PageWords /\ v = SpanPages[d] * PageWords
    BY <2>3, WordsFacts
  <2>5. t = b + 1 /\ t \in Nat
    BY <2>2, <2>4 DEF FirstWord
  <2>6. p \in Nat /\ t <= p /\ p + BlockSize[d] <= t + v /\ BlockSize[d] \in Nat \ {0}
    BY <2>1, <2>4, <2>5, CutInside, BlockNumFacts
  <2>7. a + u <= b \/ b + v <= a
    <3>1. g + SpanPages[c] <= h \/ h + SpanPages[d] <= g
      BY <1>1, <2>2
    <3> QED BY <1>1, <1>2, <2>3, <2>4, <3>1, RunWords
  <2> QED BY <1>2, <1>3, <1>6, <1>7, <2>4, <2>5, <2>6, <2>7
<1> QED BY <1>3, <1>4, <1>5, <1>8, <1>9

(* What fetchRange has done, in terms of the words N it took: it hands out *)
(* one block, its list is made up of others, and it wrote to no other word.*)
Delivered(c, r, N) ==
  /\ N \subseteq Words /\ \A p \in N : \A d \in Classes : ~ Home(spans, p, d)
  /\ r.block \in Words /\ r.block \in On(word, centralFreeList[c]) \cup N
  /\ r.word \in [Words -> Links]
  /\ Good(r.word, r.head) /\ r.block \notin On(r.word, r.head)
  /\ On(r.word, r.head) \subseteq On(word, centralFreeList[c]) \cup N
  /\ \A x \in Words : x \notin On(word, centralFreeList[c]) \cup N => r.word[x] = word[x]
  /\ \A p, d : Home(spans, p, d) => Home(r.spans, p, d)
  /\ \A p \in On(r.word, r.head) \cup {r.block} : Home(r.spans, p, c)
  /\ DOMAIN r.spans \subseteq Words
  /\ r.spans \in [DOMAIN r.spans -> Classes]

(* What fetchFromCentralCache does with the spans it is given.             *)
Takes(c, r) ==
  /\ spans' = r.spans
  /\ \A p \in r.take : allocateSpan(SpanPages[c], p)
  /\ r.take = {} => UNCHANGED pageVars

(* It takes the first block of its list.                                   *)
LEMMA FetchFromList ==
  ASSUME Sound, NEW c \in Classes, NEW r \in fetchRange(c), centralFreeList[c] # nullptr, Takes(c, r)
  PROVE  Delivered(c, r, {}) /\ SpansInv' /\ SpansSound'
<1> DEFINE h == centralFreeList[c]
<1>2. /\ r.block = h /\ r.word = [word EXCEPT ![h] = nullptr] /\ r.head = word[h]
      /\ r.spans = spans /\ r.take = {}
  BY DEF fetchRange
<1>3. Good(word, h) /\ \A p \in On(word, h) : Home(spans, p, c)
  <2>1. <<"central", c>> \in Lists /\ HeadOf(<<"central", c>>) = h /\ <<"central", c>>[2] = c
    BY ListNames
  <2> QED BY <2>1 DEF Sound, CInv, ListsGood, Placed, Members
<1>4. /\ h \in Words /\ Good(word, word[h]) /\ h \notin On(word, word[h])
      /\ On(word, h) = On(word, word[h]) \cup {h}
  BY <1>3, ListRest
<1>5. word \in [Words -> Links] /\ nullptr \in Links
  BY DEF Sound, CInv, TypeOK, Links
<1>6. r.word \in [Words -> Links] /\ \A x \in Words : r.word[x] = IF x = h THEN nullptr ELSE word[x]
  BY <1>2, <1>4, <1>5
<1>7. Good(r.word, r.head) /\ On(r.word, r.head) = On(word, word[h])
  <2>1. On(word, word[h]) \subseteq Words
    BY <1>4, GoodFacts
  <2>2. \A p \in On(word, word[h]) : r.word[p] = word[p]
    BY <1>4, <1>6, <2>1
  <2>3. Good(r.word, word[h]) /\ On(r.word, word[h]) = On(word, word[h])
    BY <1>4, <2>2, ListKept
  <2> QED BY <1>2, <2>3
<1>8. Delivered(c, r, {})
  <2>1. DOMAIN spans \subseteq Words /\ spans \in [DOMAIN spans -> Classes]
    BY DEF Sound, CInv, TypeOK
  <2> QED BY <1>2, <1>3, <1>4, <1>6, <1>7, <2>1 DEF Delivered
<1>9. SpansInv' /\ SpansSound'
  BY <1>2, PagesKept DEF Sound, CInv, Takes
<1> QED BY <1>8, <1>9

(* Memory n and the list h made of the blocks of a new span but for the    *)
(* first, which may be the only one.                                       *)
NewSpan(s, c, list, h, n) ==
  /\ list = Blocks(s, c) /\ h = First(Tail(list))
  /\ n = IF Len(list) > 1 THEN [Linked(word, list) EXCEPT ![s] = nullptr] ELSE word

(* The list is well made, whether or not it has a block.                   *)
LEMMA NewList ==
  ASSUME word \in [Words -> Links], NEW c \in Classes, NEW s \in Words, CutFrom(s, c) \subseteq Words,
         NEW list, NEW h, NEW n, NewSpan(s, c, list, h, n)
  PROVE  /\ s \in CutFrom(s, c) /\ n \in [Words -> Links]
         /\ \A x \in Words : x \notin CutFrom(s, c) => n[x] = word[x]
         /\ Good(n, h) /\ On(n, h) \subseteq CutFrom(s, c) /\ s \notin On(n, h)
<1>1. PICK k \in Nat \ {0} : k = blockNum(c)
  <2>1. PICK d \in Nat \ {0}, w \in Nat : d = BlockSize[c] /\ w = SpanPages[c] * PageWords /\ d <= w
    BY BlockNumFacts, ThreadCacheV2Assumption
  <2>2. w \div d \in Nat /\ w < (w \div d) * d + d
    BY <2>1, DivBounds
  <2>3. w \div d # 0
    <3>1. w \div d = 0 => w < 0 * d + d
      BY <2>2
    <3> QED BY <2>1, <3>1
  <2> QED BY <2>1, <2>2, <2>3 DEF blockNum
<1>2. /\ list \in Seq(Words) /\ IsInjective(list) /\ ToSet(list) = CutFrom(s, c)
      /\ Len(list) = k /\ list[1] = s /\ s \in Nat
  <2>1. list = Blocks(s, c) /\ s \in Nat /\ blockNum(c) # 0
    BY <1>1, WordsFacts DEF NewSpan
  <2> QED BY <1>1, <2>1, BlocksFacts
<1>3. /\ Tail(list) \in Seq(Words) /\ Len(Tail(list)) = Len(list) - 1
      /\ \A i \in 1 .. Len(Tail(list)) : Tail(list)[i] = list[i + 1]
  <2>1. list # <<>>
    BY <1>2, ListFacts
  <2> QED BY <1>2, <2>1, HeadTailProperties
<1>4. s \in CutFrom(s, c)
  BY <1>2, ListFacts
<1>5. CASE k = 1
  <2>1. Len(list) = 1 /\ Len(Tail(list)) = 0
    BY <1>2, <1>3, <1>5
  <2>2. n = word
    BY <2>1 DEF NewSpan
  <2>3. h = nullptr
    <3>1. PICK u \in Seq(Words) : u = Tail(list)
      BY <1>3
    <3>2. First(u) = nullptr
      BY <2>1, <3>1, ListFacts
    <3> QED BY <3>1, <3>2 DEF NewSpan
  <2>4. Good(n, h) /\ On(n, h) = {}
    BY <2>3, NullList
  <2> QED BY <1>4, <2>2, <2>4
<1>6. CASE k > 1
  <2>1. PICK m : /\ m = Linked(word, list) /\ m \in [Words -> Links]
                 /\ \A x \in Words : x \notin ToSet(list) => m[x] = word[x]
                 /\ Good(m, s) /\ Walk(m, s) = list
    <3>1. First(list) = s
      BY <1>2, ListFacts
    <3> QED BY <1>2, <3>1, ListLinked
  <2>2. On(m, s) = CutFrom(s, c)
    BY <1>2, <2>1 DEF On
  <2>3. s # nullptr
    BY WordsFacts
  <2>4. Good(m, m[s]) /\ s \notin On(m, m[s]) /\ On(m, s) = On(m, m[s]) \cup {s}
    BY <2>1, <2>3, ListRest
  <2>5. h = m[s]
    <3>1. m[s] = After(list, 1)
      <4>1. IsChain(m, s, list) /\ 1 \in DOMAIN list
        BY <1>2, <2>1 DEF Good
      <4> QED BY <1>2, <4>1 DEF IsChain
    <3>2. After(list, 1) = list[2]
      BY <1>2, <1>6 DEF After
    <3>3. 1 \in 1 .. Len(Tail(list)) /\ Tail(list)[1] = list[2]
      BY <1>2, <1>3, <1>6
    <3>4. First(Tail(list)) = Tail(list)[1]
      <4>1. PICK u : u = Tail(list)
        OBVIOUS
      <4>2. u \in Seq(Words) /\ Len(u) # 0
        <5>1. Len(Tail(list)) = k - 1 /\ k - 1 # 0
          BY <1>2, <1>3, <1>6
        <5> QED BY <1>3, <4>1, <5>1
      <4>3. First(u) = u[1]
        BY <4>2, ListFacts
      <4> QED BY <4>1, <4>3
    <3> QED BY <3>1, <3>2, <3>3, <3>4 DEF NewSpan
  <2>6. n \in [Words -> Links] /\ \A x \in Words : n[x] = IF x = s THEN nullptr ELSE m[x]
    <3>1. Len(list) > 1
      BY <1>2, <1>6
    <3>2. n = [m EXCEPT ![s] = nullptr] /\ nullptr \in Links
      BY <2>1, <3>1 DEF NewSpan, Links
    <3> QED BY <2>1, <3>2
  <2>7. Good(n, h) /\ On(n, h) = On(m, m[s])
    <3>1. \A p \in On(m, m[s]) : n[p] = m[p]
      BY <1>2, <2>2, <2>4, <2>6
    <3>2. PICK g : g = m[s]
      OBVIOUS
    <3>3. Good(m, g) /\ \A p \in On(m, g) : n[p] = m[p]
      BY <2>4, <3>1, <3>2
    <3>4. Good(n, g) /\ On(n, g) = On(m, g)
      BY <3>3, ListKept
    <3> QED BY <2>5, <3>2, <3>4
  <2>8. \A x \in Words : x \notin CutFrom(s, c) => n[x] = word[x]
    <3>1. \A x \in Words : x \notin CutFrom(s, c) => x # s /\ m[x] = word[x]
      BY <1>2, <1>4, <2>1
    <3> QED BY <2>6, <3>1
  <2>9. On(n, h) \subseteq CutFrom(s, c) /\ s \notin On(n, h)
    BY <2>2, <2>4, <2>7
  <2> QED BY <1>4, <2>6, <2>7, <2>8, <2>9
<1>7. k = 1 \/ k > 1
  BY <1>1
<1> QED BY <1>5, <1>6, <1>7

(* It cuts a new span.                                                     *)
LEMMA FetchCut ==
  ASSUME Sound, NEW c \in Classes, NEW r \in fetchRange(c), centralFreeList[c] = nullptr, Takes(c, r)
  PROVE  (\E N : Delivered(c, r, N)) /\ SpansInv' /\ SpansSound'
<1>0. PICK g \in 0 .. NumPages - SpanPages[c] : r =
        [block |-> FirstWord(g), head |-> First(Tail(Blocks(FirstWord(g), c))),
         word |-> IF Len(Blocks(FirstWord(g), c)) > 1
                  THEN [Linked(word, Blocks(FirstWord(g), c)) EXCEPT ![FirstWord(g)] = nullptr] ELSE word,
         spans |-> [x \in DOMAIN spans \cup {FirstWord(g)} |-> IF x = FirstWord(g) THEN c ELSE spans[x]],
         trackers |-> IF Len(Blocks(FirstWord(g), c)) > 1
                      THEN Append(spanTrackers,
                                  [span |-> PageOf(FirstWord(g)), numPages |-> SpanPages[c],
                                   blockCount |-> Len(Blocks(FirstWord(g), c)),
                                   freeCount |-> Len(Blocks(FirstWord(g), c)) - 1])
                      ELSE spanTrackers,
         take |-> {PageOf(FirstWord(g))}]
  BY DEF fetchRange
<1>1. /\ r.block = FirstWord(g) /\ r.head = First(Tail(Blocks(FirstWord(g), c)))
      /\ r.word = IF Len(Blocks(FirstWord(g), c)) > 1
                  THEN [Linked(word, Blocks(FirstWord(g), c)) EXCEPT ![FirstWord(g)] = nullptr] ELSE word
      /\ r.spans = [x \in DOMAIN spans \cup {FirstWord(g)} |-> IF x = FirstWord(g) THEN c ELSE spans[x]]
      /\ r.take = {PageOf(FirstWord(g))}
  BY <1>0
<1>2. g \in Nat /\ g \in Pages /\ SpanPages[c] \in Sizes
  BY WordsFacts, BlockNumFacts DEF Pages, Sizes
<1>3. PICK s : s = FirstWord(g) /\ PageOf(s) = g
  BY <1>2, PageOfFirst
<1> DEFINE S == [x \in DOMAIN spans \cup {s} |-> IF x = s THEN c ELSE spans[x]]
<1>4. /\ r.block = s /\ r.head = First(Tail(Blocks(s, c)))
      /\ r.word = IF Len(Blocks(s, c)) > 1 THEN [Linked(word, Blocks(s, c)) EXCEPT ![s] = nullptr] ELSE word
      /\ r.spans = S
      /\ r.take = {g}
  BY <1>1, <1>3
<1> HIDE DEF S
<1>5. allocateSpan(SpanPages[c], g) /\ spans' = S
  BY <1>4 DEF Takes
<1>6. /\ s \in Words /\ s \notin DOMAIN spans /\ CutFrom(s, c) \subseteq Words
      /\ \A p : \A d \in Classes : Home(spans, p, d) => p \notin CutFrom(s, c)
  BY <1>2, <1>3, <1>5, NewWordsApart DEF Sound, CInv
<1>7. /\ s \in CutFrom(s, c) /\ r.word \in [Words -> Links]
      /\ \A x \in Words : x \notin CutFrom(s, c) => r.word[x] = word[x]
      /\ Good(r.word, r.head) /\ On(r.word, r.head) \subseteq CutFrom(s, c) /\ s \notin On(r.word, r.head)
  <2>1. word \in [Words -> Links]
    BY DEF Sound, CInv, TypeOK
  <2>2. PICK list, h, n : NewSpan(s, c, list, h, n)
    BY DEF NewSpan
  <2>3. /\ s \in CutFrom(s, c) /\ n \in [Words -> Links]
        /\ \A x \in Words : x \notin CutFrom(s, c) => n[x] = word[x]
        /\ Good(n, h) /\ On(n, h) \subseteq CutFrom(s, c) /\ s \notin On(n, h)
    BY <1>6, <2>1, <2>2, NewList
  <2>4. r.word = n /\ r.head = h
    BY <1>4, <2>2 DEF NewSpan
  <2> QED BY <2>3, <2>4
<1>8. /\ DOMAIN S = DOMAIN spans \cup {s} /\ S \in [DOMAIN S -> Classes]
      /\ DOMAIN S \subseteq Words
      /\ \A x \in DOMAIN spans : S[x] = spans[x]
      /\ S[s] = c
  <2>1. DOMAIN spans \subseteq Words /\ \A x \in DOMAIN spans : spans[x] \in Classes
    BY DEF Sound, CInv, TypeOK
  <2> QED BY <1>6, <2>1 DEF S
<1>9. \A p \in CutFrom(s, c) : Home(r.spans, p, c)
  BY <1>4, <1>8 DEF Home
<1>10. \A p, d : Home(spans, p, d) => Home(r.spans, p, d)
  BY <1>4, <1>8, HomeKept
<1>11. Delivered(c, r, CutFrom(s, c))
  <2>1. \A p \in On(r.word, r.head) \cup {r.block} : Home(r.spans, p, c)
    BY <1>4, <1>7, <1>9
  <2> QED BY <1>4, <1>6, <1>7, <1>8, <1>10, <2>1 DEF Delivered
<1>12. SpansInv'
  <2>1. PageNext
    BY <1>2, <1>5 DEF PageNext
  <2> QED BY <2>1, SpansNextInv DEF Sound
<1>13. SpansSound'
  <2>1. held' = [x \in DOMAIN held \cup {g} |-> IF x = g THEN SpanPages[c] ELSE held[x]] /\ running /\ running'
    BY <1>5 DEF allocateSpan
  <2>2. g \notin DOMAIN held
    BY <1>2, <1>5, NewSpanPlace DEF Sound
  <2>3. ASSUME NEW x \in DOMAIN spans
        PROVE  /\ x = FirstWord(PageOf(x)) /\ PageOf(x) \in DOMAIN held'
               /\ held'[PageOf(x)] = SpanPages[spans'[x]]
    <3>1. x = FirstWord(PageOf(x)) /\ PageOf(x) \in DOMAIN held /\ held[PageOf(x)] = SpanPages[spans[x]]
      BY <2>1 DEF Sound, CInv, SpansSound
    <3>2. spans'[x] = spans[x]
      BY <1>5, <1>8
    <3> QED BY <2>1, <2>2, <3>1, <3>2
  <2>4. s = FirstWord(PageOf(s)) /\ PageOf(s) \in DOMAIN held' /\ held'[PageOf(s)] = SpanPages[spans'[s]]
    BY <1>3, <1>5, <1>8, <2>1
  <2> QED BY <1>5, <1>8, <2>3, <2>4 DEF SpansSound
<1> QED BY <1>11, <1>12, <1>13

-----------------------------------------------------------------------------
(* What returnRange leaves.                                                *)

(* The blocks of the list at start and of the central list, in memory m.   *)
Region(m, c, start) == On(m, start) \cup On(m, centralFreeList[c])

(* What is assumed of the list that is returned.                           *)
Returnable(m, c, start) ==
  /\ m \in [Words -> Links] /\ start # nullptr
  /\ Good(m, start) /\ Good(m, centralFreeList[c])
  /\ On(m, start) \cap On(m, centralFreeList[c]) = {}
  /\ \A p \in Region(m, c, start) : Home(spans, p, c)

(* The two lists become one.                                               *)
Joint(m, c, start) == [m EXCEPT ![Last(Walk(m, start))] = centralFreeList[c]]

(* returnRange puts its list in front of the central one.                  *)
LEMMA Joined ==
  ASSUME Sound, NEW c \in Classes, NEW m, NEW start, Returnable(m, c, start),
         NEW joined, joined = Joint(m, c, start)
  PROVE  /\ joined \in [Words -> Links]
         /\ \A x \in Words : x \notin Region(m, c, start) => joined[x] = m[x]
         /\ Good(joined, start) /\ On(joined, start) = Region(m, c, start)
<1>1. centralFreeList[c] \in Links
  BY DEF Sound, CInv, TypeOK
<1>2. PICK b : b = Last(Walk(m, start))
  OBVIOUS
<1>3. joined \in [Words -> Links] /\ \A x \in Words : joined[x] = IF x = b THEN centralFreeList[c] ELSE m[x]
  BY <1>1, <1>2 DEF Returnable, Joint
<1>4. b \in On(m, start) /\ Good(joined, start) /\ On(joined, start) = On(m, start) \cup On(m, centralFreeList[c])
  <2>1. \A x \in Words : joined[x] = IF x = Last(Walk(m, start)) THEN centralFreeList[c] ELSE m[x]
    BY <1>2, <1>3
  <2>2. PICK g : g = centralFreeList[c]
    OBVIOUS
  <2>3. start # nullptr /\ Good(m, start) /\ Good(m, g) /\ On(m, start) \cap On(m, g) = {}
    BY <2>2 DEF Returnable
  <2>4. \A x \in Words : joined[x] = IF x = Last(Walk(m, start)) THEN g ELSE m[x]
    BY <2>1, <2>2
  <2>5. /\ Last(Walk(m, start)) \in On(m, start)
        /\ Good(joined, start) /\ On(joined, start) = On(m, start) \cup On(m, g)
    <3>1. Joins(m, joined, start, g)
      BY <2>3, <2>4 DEF Joins
    <3> QED BY <3>1, ListJoin
  <2> QED BY <1>2, <2>2, <2>5
<1> QED BY <1>3, <1>4 DEF Region

(* What a delayed return counts is of its class.                           *)
LEMMA CountsTyped ==
  ASSUME DelayedTyped, NEW t \in Threads, NEW c \in Classes, NEW list,
         \E counts \in {{}, spanFreeCounts(c, list)} : delayed' = [delayed EXCEPT ![t] = counts]
  PROVE  DelayedTyped'
<1>1. PICK counts \in {{}, spanFreeCounts(c, list)} : delayed' = [delayed EXCEPT ![t] = counts]
  OBVIOUS
<1>2. \A u \in counts : u.class = c
  <2> DEFINE found(k) == {i \in DOMAIN list : k \in getSpanTracker(list[i])}
             count(k) == Cardinality(found(k))
             Counts   == {[class |-> c, tracker |-> k, found |-> count(k)] :
                            k \in {j \in DOMAIN spanTrackers : found(j) # {}}}
  <2>0. spanFreeCounts(c, list) = Counts
    BY DEF spanFreeCounts
  <2>1. \A u \in spanFreeCounts(c, list) : u.class = c
    <3>1. \A u \in Counts : u.class = c
      <4> HIDE DEF count, found
      <4> QED OBVIOUS
    <3> HIDE DEF Counts
    <3> QED BY <2>0, <3>1
  <2> QED BY <1>1, <2>1
<1>3. /\ DOMAIN delayed' = Threads
      /\ \A x \in Threads : delayed'[x] = IF x = t THEN counts ELSE delayed[x]
  BY <1>1 DEF DelayedTyped
<1> QED BY <1>2, <1>3 DEF DelayedTyped

(* The two lists are one, no other word is written to, and the spans are   *)
(* the same.                                                               *)
Returned(m, c, start) ==
  /\ word' \in [Words -> Links]
  /\ \A x \in Words : x \notin Region(m, c, start) => word'[x] = m[x]
  /\ Good(word', start) /\ On(word', start) = Region(m, c, start)
  /\ centralFreeList' = [centralFreeList EXCEPT ![c] = start]
  /\ spans' = spans /\ DelayedTyped' /\ SpansInv' /\ SpansSound'

(* What returnRange leaves of a list it is given the length of.            *)
LEMMA ReturnFacts ==
  ASSUME Sound, NEW t \in Threads, NEW c \in Classes, NEW m, NEW start, Returnable(m, c, start),
         NEW count \in Nat, Count(m, start) <= count, returnRange(t, m, c, start, count)
  PROVE  Returned(m, c, start)
<1> DEFINE used == IF Len(Walk(m, start)) <= count THEN Walk(m, start) ELSE SubSeq(Walk(m, start), 1, count)
<1>1. used = Walk(m, start)
  BY DEF Count
<1>2. /\ word' = [m EXCEPT ![Last(used)] = centralFreeList[c]]
      /\ centralFreeList' = [centralFreeList EXCEPT ![c] = start]
      /\ \E counts \in {{}, spanFreeCounts(c, Walk([m EXCEPT ![Last(used)] = centralFreeList[c]], start))} :
           delayed' = [delayed EXCEPT ![t] = counts]
      /\ UNCHANGED <<spans, spanTrackers, intact, pageVars>>
  BY DEF returnRange
<1>3. word' = Joint(m, c, start)
  <2> HIDE DEF used
  <2> QED BY <1>1, <1>2 DEF Joint
<1>4. /\ word' \in [Words -> Links]
      /\ \A x \in Words : x \notin Region(m, c, start) => word'[x] = m[x]
      /\ Good(word', start) /\ On(word', start) = Region(m, c, start)
  BY <1>3, Joined
<1>5. DelayedTyped'
  <2> HIDE DEF used
  <2>1. DelayedTyped
    BY DEF Sound, CInv, TypeOK
  <2> QED BY <1>2, <2>1, CountsTyped
<1>6. SpansInv' /\ SpansSound'
  <2> HIDE DEF used
  <2> QED BY <1>2, PagesKept DEF Sound, CInv
<1> HIDE DEF used
<1> QED BY <1>2, <1>4, <1>5, <1>6 DEF Returned

-----------------------------------------------------------------------------
(* What a call of a thread preserves.                                      *)

(* An assignment to one entry leaves the others.                           *)
LEMMA UpdatedAt ==
  ASSUME NEW V, NEW f \in [Threads -> [Classes -> V]], NEW t \in Threads, NEW c \in Classes, NEW v \in V,
         NEW g, g = [f EXCEPT ![t][c] = v]
  PROVE  /\ g \in [Threads -> [Classes -> V]] /\ g[t][c] = v
         /\ \A u \in Threads, d \in Classes : u # t \/ d # c => g[u][d] = f[u][d]
OBVIOUS

(* What the invariant says of the two lists a call works on.               *)
LEMMA ListsOfCall ==
  ASSUME Sound, NEW t \in Threads, NEW c \in Classes
  PROVE  /\ Good(word, freeList[t][c]) /\ Good(word, centralFreeList[c])
         /\ On(word, freeList[t][c]) \cap On(word, centralFreeList[c]) = {}
         /\ On(word, freeList[t][c]) \cap DOMAIN owned = {}
         /\ On(word, centralFreeList[c]) \cap DOMAIN owned = {}
         /\ \A p \in On(word, freeList[t][c]) \cup On(word, centralFreeList[c]) : Home(spans, p, c)
         /\ \A p \in DOMAIN owned : owned[p] \in Classes /\ p \in Words /\ Home(spans, p, owned[p])
         /\ freeListSize[t][c] = Count(word, freeList[t][c]) /\ freeListSize[t][c] <= Threshold[c]
         /\ freeListSize[t][c] \in Nat /\ Threshold[c] \in Nat \ {0}
         /\ word \in [Words -> Links]
<1>1. PICK l, k \in Lists : /\ l = <<t, c>> /\ k = <<"central", c>> /\ l # k
                            /\ HeadOf(l) = freeList[t][c] /\ HeadOf(k) = centralFreeList[c]
                            /\ l[2] = c /\ k[2] = c
  BY ListNames
<1>2. /\ Good(word, HeadOf(l)) /\ Good(word, HeadOf(k))
      /\ On(word, HeadOf(l)) \cap On(word, HeadOf(k)) = {}
      /\ On(word, HeadOf(l)) \cap DOMAIN owned = {}
      /\ On(word, HeadOf(k)) \cap DOMAIN owned = {}
      /\ \A p \in On(word, HeadOf(l)) : Home(spans, p, l[2])
      /\ \A p \in On(word, HeadOf(k)) : Home(spans, p, k[2])
  BY <1>1 DEF Sound, CInv, ListsGood, Placed, Members
<1>3. \A p \in DOMAIN owned : owned[p] \in Classes /\ p \in Words /\ Home(spans, p, owned[p])
  BY DEF Sound, CInv, TypeOK, Placed
<1>4. /\ freeListSize[t][c] = Count(word, freeList[t][c]) /\ freeListSize[t][c] <= Threshold[c]
      /\ freeListSize[t][c] \in Nat /\ Threshold[c] \in Nat \ {0} /\ word \in [Words -> Links]
  BY ThreadCacheV2Assumption DEF Sound, CInv, SizesExact, TypeOK
<1> QED BY <1>1, <1>2, <1>3, <1>4

(* A call of thread t works on the blocks of its list and of the central   *)
(* list of a class, on those of the program, and on words N of nobody.     *)
Touched(t, c, N) == On(word, freeList[t][c]) \cup On(word, centralFreeList[c]) \cup DOMAIN owned \cup N

Works(t, c, N) ==
  /\ \A p \in N : \A d \in Classes : ~ Home(spans, p, d)
  /\ \A u \in Threads, d \in Classes : u # t \/ d # c =>
       freeList'[u][d] = freeList[u][d] /\ freeListSize'[u][d] = freeListSize[u][d]
  /\ \A d \in Classes : d # c => centralFreeList'[d] = centralFreeList[d]
  /\ \A x \in Words : x \notin Touched(t, c, N) => word'[x] = word[x]
  /\ \A p : p \notin Touched(t, c, N) => \A d \in Classes : Home(spans, p, d) => Home(spans', p, d)

(* What it leaves.                                                         *)
Leaves(t, c, N) ==
  /\ Good(word', freeList'[t][c]) /\ Good(word', centralFreeList'[c])
  /\ On(word', freeList'[t][c]) \cap On(word', centralFreeList'[c]) = {}
  /\ On(word', freeList'[t][c]) \cap DOMAIN owned' = {}
  /\ On(word', centralFreeList'[c]) \cap DOMAIN owned' = {}
  /\ On(word', freeList'[t][c]) \subseteq Touched(t, c, N)
  /\ On(word', centralFreeList'[c]) \subseteq Touched(t, c, N)
  /\ DOMAIN owned' \subseteq Touched(t, c, N)
  /\ \A p \in On(word', freeList'[t][c]) : Home(spans', p, c)
  /\ \A p \in On(word', centralFreeList'[c]) : Home(spans', p, c)
  /\ \A p \in DOMAIN owned' : Home(spans', p, owned'[p])
  /\ freeListSize'[t][c] = Count(word', freeList'[t][c]) /\ freeListSize'[t][c] <= Threshold[c]

(* Other lists, and the blocks on them, are as they were.                  *)
LEMMA CallKeepsInv ==
  ASSUME Sound, NEW t \in Threads, NEW c \in Classes, NEW N, Works(t, c, N), Leaves(t, c, N),
         TypeOK', SpansInv', SpansSound'
  PROVE  Sound'
<1>1. PICK R : R = Touched(t, c, N)
  OBVIOUS
<1>2. PICK i, j \in Lists : /\ i = <<t, c>> /\ j = <<"central", c>> /\ i # j /\ i[2] = c /\ j[2] = c
                            /\ HeadOf(i) = freeList[t][c] /\ HeadOf(j) = centralFreeList[c]
                            /\ HeadOf(i)' = freeList'[t][c] /\ HeadOf(j)' = centralFreeList'[c]
  <2>1. PICK i, j : i = <<t, c>> /\ j = <<"central", c>>
    OBVIOUS
  <2>2. t # "central" /\ i[1] = t /\ i[2] = c /\ j[1] = "central" /\ j[2] = c /\ i # j
    BY <2>1, ThreadCacheV2Assumption
  <2>3. i \in Lists /\ j \in Lists
    BY <2>1, ListNames
  <2>4. /\ HeadOf(i) = freeList[t][c] /\ HeadOf(j) = centralFreeList[c]
        /\ HeadOf(i)' = freeList'[t][c] /\ HeadOf(j)' = centralFreeList'[c]
    BY <2>2 DEF HeadOf
  <2> QED BY <2>1, <2>2, <2>3, <2>4
<1>3. ASSUME NEW l \in Lists, l # i, l # j
      PROVE  /\ Good(word, HeadOf(l)) /\ HeadOf(l)' = HeadOf(l)
             /\ Members(l) \cap R = {} /\ l[2] \in Classes
  <2>1. HeadOf(l)' = HeadOf(l) /\ l[2] \in Classes
    <3>1. CASE \E d \in Classes : l = <<"central", d>>
      <4>1. PICK d \in Classes : l = <<"central", d>>
        BY <3>1
      <4>2. d # c
        BY <1>2, <1>3, <4>1
      <4> QED BY <4>1, <4>2 DEF HeadOf, Works
    <3>2. CASE \E u \in Threads, d \in Classes : l = <<u, d>>
      <4>1. PICK u \in Threads, d \in Classes : l = <<u, d>>
        BY <3>2
      <4>2. (u # t \/ d # c) /\ u # "central"
        BY <1>2, <1>3, <4>1, ThreadCacheV2Assumption
      <4> QED BY <4>1, <4>2 DEF HeadOf, Works
    <3> QED BY <3>1, <3>2, ListNames
  <2>2. /\ Members(l) \cap Members(i) = {} /\ Members(l) \cap Members(j) = {} /\ Members(l) \cap DOMAIN owned = {}
        /\ \A p \in Members(l) : Home(spans, p, l[2])
    BY <1>3 DEF Sound, CInv, Placed
  <2>3. Members(l) \cap N = {}
    BY <2>1, <2>2 DEF Works
  <2>4. Members(l) \cap R = {}
    BY <1>1, <1>2, <2>2, <2>3 DEF Touched, Members
  <2> QED BY <2>1, <2>4 DEF Sound, CInv, ListsGood
<1>4. ASSUME NEW l \in Lists, l # i, l # j
      PROVE  /\ Good(word', HeadOf(l)') /\ Members(l)' = Members(l)
             /\ Count(word', HeadOf(l)') = Count(word, HeadOf(l))
             /\ \A p \in Members(l) : Home(spans', p, l[2])
  <2>1. /\ Good(word, HeadOf(l)) /\ HeadOf(l)' = HeadOf(l) /\ Members(l) \cap R = {} /\ l[2] \in Classes
    BY <1>3, <1>4
  <2>2. \A p \in On(word, HeadOf(l)) : word'[p] = word[p]
    <3>1. On(word, HeadOf(l)) \subseteq Words
      BY <2>1, GoodFacts
    <3> QED BY <1>1, <2>1, <3>1 DEF Works, Members
  <2>3. Good(word', HeadOf(l)) /\ On(word', HeadOf(l)) = On(word, HeadOf(l)) /\ Count(word', HeadOf(l)) = Count(word, HeadOf(l))
    BY <2>1, <2>2, ListKept
  <2>4. \A p \in Members(l) : Home(spans, p, l[2])
    BY DEF Sound, CInv, Placed
  <2>5. \A p \in Members(l) : Home(spans', p, l[2])
    BY <1>1, <2>1, <2>4 DEF Works
  <2> QED BY <2>1, <2>3, <2>5 DEF Members
<1>5. Members(i)' = On(word', freeList'[t][c]) /\ Members(j)' = On(word', centralFreeList'[c])
  BY <1>2 DEF Members
<1>6. ListsGood'
  BY <1>2, <1>4 DEF ListsGood, Leaves
<1>7. /\ Members(i)' \subseteq R /\ Members(j)' \subseteq R /\ DOMAIN owned' \subseteq R
      /\ Members(i)' \cap Members(j)' = {}
      /\ Members(i)' \cap DOMAIN owned' = {} /\ Members(j)' \cap DOMAIN owned' = {}
      /\ \A p \in Members(i)' \cup Members(j)' : Home(spans', p, c)
      /\ \A p \in DOMAIN owned' : Home(spans', p, owned'[p])
  BY <1>1, <1>5 DEF Leaves
<1>8. Placed'
  <2>1. ASSUME NEW l \in Lists, NEW k \in Lists, l # k PROVE Members(l)' \cap Members(k)' = {}
    <3>1. CASE l \in {i, j} /\ k \in {i, j}
      BY <1>7, <2>1, <3>1
    <3>2. CASE l \in {i, j} /\ k \notin {i, j}
      BY <1>3, <1>4, <1>7, <3>2
    <3>3. CASE l \notin {i, j} /\ k \in {i, j}
      BY <1>3, <1>4, <1>7, <3>3
    <3>4. CASE l \notin {i, j} /\ k \notin {i, j}
      <4>1. Members(l) \cap Members(k) = {}
        BY <2>1 DEF Sound, CInv, Placed
      <4> QED BY <1>4, <3>4, <4>1
    <3> QED BY <3>1, <3>2, <3>3, <3>4
  <2>2. ASSUME NEW l \in Lists
        PROVE  Members(l)' \cap DOMAIN owned' = {} /\ \A p \in Members(l)' : Home(spans', p, l[2])
    <3>1. CASE l \in {i, j}
      BY <1>2, <1>7, <3>1
    <3>2. CASE l \notin {i, j}
      BY <1>3, <1>4, <1>7, <3>2
    <3> QED BY <3>1, <3>2
  <2> QED BY <1>7, <2>1, <2>2 DEF Placed
<1>9. SizesExact'
  <2> SUFFICES ASSUME NEW u \in Threads, NEW d \in Classes
               PROVE  freeListSize'[u][d] = Count(word', freeList'[u][d]) /\ freeListSize'[u][d] <= Threshold[d]
    BY DEF SizesExact
  <2>1. CASE u = t /\ d = c
    BY <2>1 DEF Leaves
  <2>2. CASE u # t \/ d # c
    <3>1. /\ freeList'[u][d] = freeList[u][d] /\ freeListSize'[u][d] = freeListSize[u][d]
          /\ freeListSize[u][d] = Count(word, freeList[u][d]) /\ freeListSize[u][d] <= Threshold[d]
      BY <2>2 DEF Works, Sound, CInv, SizesExact
    <3>2. PICK l \in Lists : l = <<u, d>> /\ HeadOf(l) = freeList[u][d] /\ HeadOf(l)' = freeList'[u][d]
      <4>1. PICK l : l = <<u, d>>
        OBVIOUS
      <4>2. u # "central" /\ l[1] = u /\ l[2] = d
        BY <4>1, ThreadCacheV2Assumption
      <4>3. l \in Lists
        BY <4>1, ListNames
      <4>4. HeadOf(l) = freeList[u][d] /\ HeadOf(l)' = freeList'[u][d]
        BY <4>2 DEF HeadOf
      <4> QED BY <4>1, <4>3, <4>4
    <3>3. l # i /\ l # j
      BY <1>2, <2>2, <3>2, ThreadCacheV2Assumption
    <3>4. Count(word', HeadOf(l)') = Count(word, HeadOf(l))
      BY <1>4, <3>3
    <3> QED BY <3>1, <3>2, <3>4
  <2> QED BY <2>1, <2>2
<1> QED BY <1>6, <1>8, <1>9 DEF Sound, CInv

-----------------------------------------------------------------------------
(* allocate.                                                               *)

(* Most calls leave the delayed returns alone.                             *)
LEMMA DelayedKept ==
  ASSUME DelayedTyped, UNCHANGED delayed
  PROVE  DelayedTyped'
BY DEF DelayedTyped

(* Handing out a block the program does not have.                          *)
LEMMA HandOutFacts ==
  ASSUME Sound, NEW m \in [Words -> Links], NEW p \in Words, p \notin DOMAIN owned, NEW c \in Classes, HandOut(m, p, c)
  PROVE  /\ word' \in [Words -> Links] /\ \A x \in Words : x # p => word'[x] = m[x]
         /\ DOMAIN owned' = DOMAIN owned \cup {p} /\ DOMAIN owned' \subseteq Words
         /\ owned' \in [DOMAIN owned' -> Classes] /\ owned'[p] = c
         /\ \A x \in DOMAIN owned : owned'[x] = owned[x]
<1>1. PICK junk \in Junk : word' = [m EXCEPT ![p] = junk]
  BY DEF HandOut
<1>2. junk \in Links
  BY ThreadCacheV2Assumption DEF Links
<1>3. owned' = [x \in DOMAIN owned \cup {p} |-> IF x # p THEN owned[x] ELSE c]
  BY DEF HandOut
<1>4. DOMAIN owned \subseteq Words /\ \A x \in DOMAIN owned : owned[x] \in Classes
  BY DEF Sound, CInv, TypeOK
<1>5. word' \in [Words -> Links] /\ \A x \in Words : x # p => word'[x] = m[x]
  BY <1>1, <1>2
<1>6. /\ DOMAIN owned' = DOMAIN owned \cup {p} /\ owned'[p] = c
      /\ \A x \in DOMAIN owned : owned'[x] = owned[x]
  BY <1>3
<1>7. owned' \in [DOMAIN owned' -> Classes]
  BY <1>3, <1>4
<1> QED BY <1>4, <1>5, <1>6, <1>7

(* allocate from the list of the thread.                                   *)
LEMMA AllocateCachedInv ==
  ASSUME Sound, NEW t \in Threads, NEW c \in Classes, AllocateCached(t, c)
  PROVE  Sound'
<1>1. PICK p : p = freeList[t][c]
  OBVIOUS
<1>2. /\ phase[t] = "up" /\ p # nullptr
      /\ freeListSize' = [freeListSize EXCEPT ![t][c] = @ - 1]
      /\ freeList' = [freeList EXCEPT ![t][c] = word[p]]
      /\ HandOut(word, p, c)
      /\ UNCHANGED <<spans, centralFreeList, delayed, phase, pageVars>>
  BY <1>1 DEF AllocateCached
<1>3. /\ Good(word, p) /\ Good(word, centralFreeList[c])
      /\ On(word, p) \cap On(word, centralFreeList[c]) = {}
      /\ On(word, p) \cap DOMAIN owned = {}
      /\ On(word, centralFreeList[c]) \cap DOMAIN owned = {}
      /\ \A q \in On(word, p) \cup On(word, centralFreeList[c]) : Home(spans, q, c)
      /\ \A q \in DOMAIN owned : owned[q] \in Classes /\ q \in Words /\ Home(spans, q, owned[q])
      /\ freeListSize[t][c] = Count(word, p) /\ freeListSize[t][c] <= Threshold[c]
      /\ freeListSize[t][c] \in Nat /\ Threshold[c] \in Nat \ {0}
      /\ word \in [Words -> Links]
  BY <1>1, ListsOfCall
<1>4. PICK h : h = word[p]
  OBVIOUS
<1>5. /\ p \in Words /\ Good(word, h) /\ p \notin On(word, h)
      /\ On(word, p) = On(word, h) \cup {p} /\ Count(word, p) = Count(word, h) + 1
  BY <1>2, <1>3, <1>4, ListRest
<1>6. /\ word' \in [Words -> Links] /\ \A x \in Words : x # p => word'[x] = word[x]
      /\ DOMAIN owned' = DOMAIN owned \cup {p} /\ DOMAIN owned' \subseteq Words
      /\ owned' \in [DOMAIN owned' -> Classes] /\ owned'[p] = c
      /\ \A x \in DOMAIN owned : owned'[x] = owned[x]
  BY <1>2, <1>3, <1>5, HandOutFacts
<1>7. On(word, h) \subseteq Words /\ On(word, centralFreeList[c]) \subseteq Words /\ Count(word, h) \in Nat /\ h \in Links
  BY <1>3, <1>5, GoodFacts
<1>8. Good(word', h) /\ On(word', h) = On(word, h) /\ Count(word', h) = Count(word, h)
  <2>1. \A q \in On(word, h) : word'[q] = word[q]
    BY <1>5, <1>6, <1>7
  <2> QED BY <1>5, <2>1, ListKept
<1>9. Good(word', centralFreeList[c]) /\ On(word', centralFreeList[c]) = On(word, centralFreeList[c])
  <2>1. \A q \in On(word, centralFreeList[c]) : word'[q] = word[q]
    BY <1>3, <1>5, <1>6, <1>7
  <2> QED BY <1>3, <2>1, ListKept
<1>10. PICK z \in Nat : z = freeListSize[t][c] - 1
  BY <1>3, <1>5, <1>7
<1>11. /\ freeList' \in [Threads -> [Classes -> Links]] /\ freeList'[t][c] = h
       /\ \A u \in Threads, d \in Classes : u # t \/ d # c => freeList'[u][d] = freeList[u][d]
  <2>1. freeList \in [Threads -> [Classes -> Links]]
    BY DEF Sound, CInv, TypeOK
  <2> QED BY <1>2, <1>4, <1>7, <2>1, UpdatedAt
<1>12. /\ freeListSize' \in [Threads -> [Classes -> Nat]] /\ freeListSize'[t][c] = z
       /\ \A u \in Threads, d \in Classes : u # t \/ d # c => freeListSize'[u][d] = freeListSize[u][d]
  <2>1. freeListSize \in [Threads -> [Classes -> Nat]]
    BY DEF Sound, CInv, TypeOK
  <2>2. freeListSize' = [freeListSize EXCEPT ![t][c] = z]
    BY <1>2, <1>10, <2>1
  <2> QED BY <2>1, <2>2, UpdatedAt
<1>13. TypeOK'
  <2>1. DelayedTyped'
    BY <1>2, DelayedKept DEF Sound, CInv, TypeOK
  <2> QED BY <1>2, <1>6, <1>11, <1>12, <2>1 DEF Sound, CInv, TypeOK
<1>14. SpansInv' /\ SpansSound'
  BY <1>2, PagesKept DEF Sound, CInv
<1>15. Works(t, c, {})
  <2>1. p \in Touched(t, c, {})
    BY <1>1, <1>5 DEF Touched
  <2> QED BY <1>2, <1>6, <1>11, <1>12, <2>1 DEF Works
<1>16. Leaves(t, c, {})
  <2>1. Touched(t, c, {}) = On(word, h) \cup {p} \cup On(word, centralFreeList[c]) \cup DOMAIN owned
    BY <1>1, <1>5 DEF Touched
  <2>2. centralFreeList'[c] = centralFreeList[c] /\ spans' = spans
    BY <1>2
  <2>3. freeListSize'[t][c] = Count(word', freeList'[t][c]) /\ freeListSize'[t][c] <= Threshold[c]
    BY <1>3, <1>5, <1>7, <1>8, <1>10, <1>11, <1>12
  <2>4. \A q \in DOMAIN owned' : Home(spans', q, owned'[q])
    BY <1>3, <1>5, <1>6, <2>2
  <2> QED BY <1>3, <1>5, <1>6, <1>8, <1>9, <1>11, <2>1, <2>2, <2>3, <2>4 DEF Leaves
<1> QED BY <1>13, <1>14, <1>15, <1>16, CallKeepsInv

(* allocate from the central cache.                                        *)
LEMMA FetchPages ==
  ASSUME Sound, NEW t \in Threads, NEW c \in Classes, fetchFromCentralCache(t, c)
  PROVE  /\ \E r \in fetchRange(c) : \E N :
              /\ Delivered(c, r, N) /\ Takes(c, r) /\ HandOut(r.word, r.block, c)
              /\ centralFreeList' = [centralFreeList EXCEPT ![c] = r.head]
              /\ freeList' = [freeList EXCEPT ![t][c] = r.word[r.block]]
              /\ freeListSize' = [freeListSize EXCEPT ![t][c] = @ + Remain(r.word, r.word[r.block])]
              /\ intact' = (r.word[r.block] = nullptr)
         /\ freeList[t][c] = nullptr /\ SpansInv' /\ SpansSound' /\ UNCHANGED <<delayed, phase>>
<1>1. PICK r \in fetchRange(c) :
        /\ freeList[t][c] = nullptr
        /\ Takes(c, r)
        /\ centralFreeList' = [centralFreeList EXCEPT ![c] = r.head]
        /\ freeList' = [freeList EXCEPT ![t][c] = r.word[r.block]]
        /\ freeListSize' = [freeListSize EXCEPT ![t][c] = @ + Remain(r.word, r.word[r.block])]
        /\ HandOut(r.word, r.block, c)
        /\ intact' = (r.word[r.block] = nullptr)
        /\ UNCHANGED <<delayed, phase>>
  BY DEF fetchFromCentralCache, Takes
<1>2. (\E N : Delivered(c, r, N)) /\ SpansInv' /\ SpansSound'
  <2>1. CASE centralFreeList[c] # nullptr
    BY <1>1, <2>1, FetchFromList
  <2>2. CASE centralFreeList[c] = nullptr
    BY <1>1, <2>2, FetchCut
  <2> QED BY <2>1, <2>2
<1> QED BY <1>1, <1>2

(* The list of the thread stays empty if the block is handed out without a *)
(* link.                                                                   *)
LEMMA FetchInv ==
  ASSUME Sound, NEW t \in Threads, NEW c \in Classes, fetchFromCentralCache(t, c), intact'
  PROVE  Sound'
<1>1. freeList[t][c] = nullptr /\ SpansInv' /\ SpansSound' /\ UNCHANGED <<delayed, phase>>
  BY FetchPages
<1>0. PICK r \in fetchRange(c) : \E N :
        /\ Delivered(c, r, N) /\ Takes(c, r) /\ HandOut(r.word, r.block, c)
        /\ centralFreeList' = [centralFreeList EXCEPT ![c] = r.head]
        /\ freeList' = [freeList EXCEPT ![t][c] = r.word[r.block]]
        /\ freeListSize' = [freeListSize EXCEPT ![t][c] = @ + Remain(r.word, r.word[r.block])]
        /\ r.word[r.block] = nullptr
  BY FetchPages
<1>2. PICK N :
        /\ Delivered(c, r, N) /\ Takes(c, r) /\ HandOut(r.word, r.block, c)
        /\ centralFreeList' = [centralFreeList EXCEPT ![c] = r.head]
        /\ freeList' = [freeList EXCEPT ![t][c] = r.word[r.block]]
        /\ freeListSize' = [freeListSize EXCEPT ![t][c] = @ + Remain(r.word, r.word[r.block])]
        /\ r.word[r.block] = nullptr
  BY <1>0
<1>3. PICK p, m, h : p = r.block /\ m = r.word /\ h = r.head
  OBVIOUS
<1>4. PICK B : B = On(word, centralFreeList[c])
  OBVIOUS
<1>5. /\ N \subseteq Words /\ \A q \in N : \A d \in Classes : ~ Home(spans, q, d)
      /\ p \in Words /\ p \in B \cup N
      /\ m \in [Words -> Links] /\ m[p] = nullptr
      /\ Good(m, h) /\ p \notin On(m, h) /\ On(m, h) \subseteq B \cup N
      /\ \A x \in Words : x \notin B \cup N => m[x] = word[x]
      /\ \A q, d : Home(spans, q, d) => Home(r.spans, q, d)
      /\ \A q \in On(m, h) \cup {p} : Home(r.spans, q, c)
      /\ DOMAIN r.spans \subseteq Words
      /\ r.spans \in [DOMAIN r.spans -> Classes]
  BY <1>2, <1>3, <1>4 DEF Delivered
<1>6. /\ Good(word, nullptr) /\ B \cap DOMAIN owned = {}
      /\ \A q \in DOMAIN owned : owned[q] \in Classes /\ q \in Words /\ Home(spans, q, owned[q])
      /\ freeListSize[t][c] = Count(word, nullptr) /\ Threshold[c] \in Nat \ {0}
  BY <1>1, <1>4, ListsOfCall
<1>7. p \notin DOMAIN owned
  BY <1>5, <1>6
<1>8. /\ word' \in [Words -> Links] /\ \A x \in Words : x # p => word'[x] = m[x]
      /\ DOMAIN owned' = DOMAIN owned \cup {p} /\ DOMAIN owned' \subseteq Words
      /\ owned' \in [DOMAIN owned' -> Classes] /\ owned'[p] = c
      /\ \A x \in DOMAIN owned : owned'[x] = owned[x]
  <2>1. HandOut(m, p, c)
    BY <1>2, <1>3
  <2> QED BY <1>5, <1>7, <2>1, HandOutFacts
<1>9. Good(word', h) /\ On(word', h) = On(m, h) /\ h \in Links
  <2>1. On(m, h) \subseteq Words /\ h \in Links
    BY <1>5, GoodFacts
  <2>2. \A q \in On(m, h) : word'[q] = m[q]
    BY <1>5, <1>8, <2>1
  <2> QED BY <1>5, <2>1, <2>2, ListKept
<1>10. freeListSize[t][c] = 0 /\ Remain(m, nullptr) = 0
  BY <1>6, NullList DEF Remain, Count
<1>11. /\ freeList' \in [Threads -> [Classes -> Links]] /\ freeList'[t][c] = nullptr
       /\ \A u \in Threads, d \in Classes : u # t \/ d # c => freeList'[u][d] = freeList[u][d]
  <2>1. freeList \in [Threads -> [Classes -> Links]] /\ nullptr \in Links
    BY DEF Sound, CInv, TypeOK, Links
  <2>2. freeList' = [freeList EXCEPT ![t][c] = nullptr]
    BY <1>2, <1>3, <1>5
  <2> QED BY <2>1, <2>2, UpdatedAt
<1>12. /\ freeListSize' \in [Threads -> [Classes -> Nat]] /\ freeListSize'[t][c] = 0
       /\ \A u \in Threads, d \in Classes : u # t \/ d # c => freeListSize'[u][d] = freeListSize[u][d]
  <2>1. freeListSize \in [Threads -> [Classes -> Nat]]
    BY DEF Sound, CInv, TypeOK
  <2>2. freeListSize' = [freeListSize EXCEPT ![t][c] = 0]
    <3>1. freeListSize' = [freeListSize EXCEPT ![t][c] = freeListSize[t][c] + Remain(m, nullptr)]
      BY <1>2, <1>3, <1>5, <2>1
    <3> QED BY <1>10, <3>1
  <2> QED BY <2>1, <2>2, UpdatedAt
<1>13. /\ centralFreeList' = [centralFreeList EXCEPT ![c] = h] /\ spans' = r.spans
  BY <1>2, <1>3 DEF Takes
<1>14. /\ centralFreeList' \in [Classes -> Links] /\ centralFreeList'[c] = h
       /\ \A d \in Classes : d # c => centralFreeList'[d] = centralFreeList[d]
  <2>1. centralFreeList \in [Classes -> Links]
    BY DEF Sound, CInv, TypeOK
  <2> QED BY <1>9, <1>13, <2>1
<1>15. TypeOK'
  <2>1. DelayedTyped'
    BY <1>1, DelayedKept DEF Sound, CInv, TypeOK
  <2> QED BY <1>1, <1>5, <1>8, <1>11, <1>12, <1>13, <1>14, <2>1 DEF Sound, CInv, TypeOK
<1>16. Works(t, c, N)
  <2>1. B \cup N \subseteq Touched(t, c, N)
    BY <1>4 DEF Touched
  <2>2. \A x \in Words : x \notin Touched(t, c, N) => word'[x] = word[x]
    BY <1>5, <1>8, <2>1
  <2> QED BY <1>5, <1>11, <1>12, <1>13, <1>14, <2>2 DEF Works
<1>17. Leaves(t, c, N)
  <2>1. Touched(t, c, N) = On(word, freeList[t][c]) \cup B \cup DOMAIN owned \cup N
    BY <1>4 DEF Touched
  <2>2. Good(word', nullptr) /\ On(word', nullptr) = {} /\ Count(word', nullptr) = 0
    BY NullList
  <2>3. On(m, h) \cap DOMAIN owned = {}
    BY <1>5, <1>6
  <2>4. \A q \in DOMAIN owned' : Home(spans', q, owned'[q])
    BY <1>5, <1>6, <1>8, <1>13
  <2>5. freeListSize'[t][c] = Count(word', freeList'[t][c]) /\ freeListSize'[t][c] <= Threshold[c]
    BY <1>6, <1>11, <1>12, <2>2
  <2>6. \A q \in On(word', centralFreeList'[c]) : Home(spans', q, c)
    BY <1>5, <1>9, <1>13, <1>14
  <2>7. On(word', centralFreeList'[c]) \cap DOMAIN owned' = {}
    BY <1>5, <1>8, <1>9, <1>14, <2>3
  <2> QED BY <1>5, <1>8, <1>9, <1>11, <1>14, <2>1, <2>2, <2>4, <2>5, <2>6, <2>7 DEF Leaves
<1> QED BY <1>1, <1>15, <1>16, <1>17, CallKeepsInv

-----------------------------------------------------------------------------
(* deallocate.                                                             *)

(* Of several blocks returnToCentralCache keeps some and not all.          *)
LEMMA KeepNumFacts ==
  ASSUME NEW batch \in Nat, batch > 1
  PROVE  KeepNum(batch) \in Nat /\ 1 <= KeepNum(batch) /\ KeepNum(batch) < batch
<1>1. PICK k \in Nat : KeepShare = k + 2
  <2>1. KeepShare \in Nat \ {0, 1}
    BY ThreadCacheV2Assumption
  <2>2. KeepShare - 2 \in Nat /\ KeepShare = (KeepShare - 2) + 2
    BY <2>1
  <2> QED BY <2>2
<1>2. PICK q \in Nat : q = batch \div KeepShare /\ q * (k + 2) <= batch
  <2>1. KeepShare \in Nat \ {0}
    BY <1>1
  <2>2. batch \div KeepShare \in Nat /\ (batch \div KeepShare) * KeepShare <= batch
    BY <2>1, DivBounds
  <2> QED BY <1>1, <2>2
<1>3. q < batch
  <2>1. PICK x \in Nat : x = q * k
    OBVIOUS
  <2>2. q * (k + 2) = x + 2 * q
    BY <2>1
  <2> QED BY <1>2, <2>2
<1>4. KeepNum(batch) = Max({q, 1})
  BY <1>2 DEF KeepNum
<1>5. Max({q, 1}) \in {q, 1} /\ Max({q, 1}) >= 1
  <2>1. \E x \in {q, 1} : \A y \in {q, 1} : x >= y
    <3>1. CASE q >= 1
      BY <3>1
    <3>2. CASE ~ (q >= 1)
      BY <3>2
    <3> QED BY <3>1, <3>2
  <2>2. Max({q, 1}) = CHOOSE x \in {q, 1} : \A y \in {q, 1} : x >= y
    BY DEF Max
  <2> QED BY <2>1, <2>2
<1> QED BY <1>3, <1>4, <1>5

(* A block the program gives back, pushed in front of the thread's list.   *)
WithPushed(t, c, p) == [word EXCEPT ![p] = freeList[t][c]]

(* Which leaves both lists in order.                                       *)
LEMMA PushFacts ==
  ASSUME Sound, NEW t \in Threads, NEW p \in DOMAIN owned, NEW c, c = owned[p],
         NEW m, m = WithPushed(t, c, p)
  PROVE  /\ c \in Classes /\ p \in Words /\ Home(spans, p, c)
         /\ m \in [Words -> Links] /\ \A x \in Words : x # p => m[x] = word[x]
         /\ Good(m, p) /\ On(m, p) = On(word, freeList[t][c]) \cup {p}
         /\ Count(m, p) = freeListSize[t][c] + 1
         /\ Good(m, centralFreeList[c]) /\ On(m, centralFreeList[c]) = On(word, centralFreeList[c])
<1>1. c \in Classes /\ p \in Words
  BY DEF Sound, CInv, TypeOK
<1>2. PICK h : h = freeList[t][c]
  OBVIOUS
<1>3. /\ Good(word, h) /\ Good(word, centralFreeList[c])
      /\ On(word, h) \cap DOMAIN owned = {}
      /\ On(word, centralFreeList[c]) \cap DOMAIN owned = {}
      /\ Home(spans, p, c)
      /\ freeListSize[t][c] = Count(word, h)
      /\ word \in [Words -> Links]
  BY <1>1, <1>2, ListsOfCall
<1>4. h \in Links /\ On(word, h) \subseteq Words /\ On(word, centralFreeList[c]) \subseteq Words
  BY <1>3, GoodFacts
<1>5. m \in [Words -> Links] /\ \A x \in Words : m[x] = IF x = p THEN h ELSE word[x]
  BY <1>1, <1>2, <1>3, <1>4 DEF WithPushed
<1>6. Pushes(word, m, h, p)
  BY <1>1, <1>3, <1>5 DEF Pushes
<1>7. Good(m, p) /\ On(m, p) = On(word, h) \cup {p} /\ Count(m, p) = Count(word, h) + 1
  BY <1>6, ListPushed
<1>8. Good(m, centralFreeList[c]) /\ On(m, centralFreeList[c]) = On(word, centralFreeList[c])
  <2>1. \A x \in On(word, centralFreeList[c]) : m[x] = word[x]
    BY <1>3, <1>4, <1>5
  <2> QED BY <1>3, <2>1, ListKept
<1> QED BY <1>1, <1>2, <1>3, <1>5, <1>7, <1>8

(* What remains to be shown of a deallocation that leaves p at the head of *)
(* the list, with g in place of the central list.                          *)
Frees(t, p, c, k, g) ==
  /\ p \in DOMAIN owned /\ c = owned[p] /\ phase' = phase
  /\ owned' = [x \in DOMAIN owned \ {p} |-> owned[x]]
  /\ k \in Nat /\ k <= Threshold[c] /\ g \in Links
  /\ freeList' = [freeList EXCEPT ![t][c] = p]
  /\ freeListSize' = [freeListSize EXCEPT ![t][c] = k]
  /\ centralFreeList' = [centralFreeList EXCEPT ![c] = g]
  /\ word' \in [Words -> Links] /\ Good(word', p) /\ Count(word', p) = k /\ Good(word', g)
  /\ On(word', p) \cap On(word', g) = {}
  /\ On(word', p) \cup On(word', g)
       \subseteq On(word, freeList[t][c]) \cup On(word, centralFreeList[c]) \cup {p}
  /\ \A x \in Words : x \notin On(word, freeList[t][c]) \cup On(word, centralFreeList[c]) \cup {p}
       => word'[x] = word[x]
  /\ spans' = spans /\ DelayedTyped' /\ SpansInv' /\ SpansSound'

(* Nothing more is to be shown.                                            *)
LEMMA DeallocationInv ==
  ASSUME Sound, NEW t \in Threads, NEW p, NEW c, NEW k, NEW g, Frees(t, p, c, k, g)
  PROVE  Sound'
<1> USE DEF Frees
<1>1. c \in Classes /\ p \in Words
  BY DEF Sound, CInv, TypeOK
<1>2. PICK A, B : A = On(word, freeList[t][c]) /\ B = On(word, centralFreeList[c])
  OBVIOUS
<1>3. /\ A \cap DOMAIN owned = {} /\ B \cap DOMAIN owned = {}
      /\ \A q \in DOMAIN owned : owned[q] \in Classes /\ q \in Words /\ Home(spans, q, owned[q])
  BY <1>1, <1>2, ListsOfCall
<1>4. /\ freeList' \in [Threads -> [Classes -> Links]] /\ freeList'[t][c] = p
      /\ \A u \in Threads, d \in Classes : u # t \/ d # c => freeList'[u][d] = freeList[u][d]
  <2>1. freeList \in [Threads -> [Classes -> Links]] /\ p \in Links
    BY <1>1 DEF Sound, CInv, TypeOK, Links
  <2> QED BY <1>1, <2>1, UpdatedAt
<1>5. /\ freeListSize' \in [Threads -> [Classes -> Nat]] /\ freeListSize'[t][c] = k
      /\ \A u \in Threads, d \in Classes : u # t \/ d # c => freeListSize'[u][d] = freeListSize[u][d]
  <2>1. freeListSize \in [Threads -> [Classes -> Nat]]
    BY DEF Sound, CInv, TypeOK
  <2> QED BY <1>1, <2>1, UpdatedAt
<1>6. /\ centralFreeList' \in [Classes -> Links] /\ centralFreeList'[c] = g
      /\ \A d \in Classes : d # c => centralFreeList'[d] = centralFreeList[d]
  <2>1. centralFreeList \in [Classes -> Links]
    BY DEF Sound, CInv, TypeOK
  <2> QED BY <1>1, <2>1
<1>7. /\ DOMAIN owned' = DOMAIN owned \ {p} /\ DOMAIN owned' \subseteq Words
      /\ \A x \in DOMAIN owned' : owned'[x] = owned[x]
      /\ owned' \in [DOMAIN owned' -> Classes]
  BY <1>3
<1>8. TypeOK'
  BY <1>4, <1>5, <1>6, <1>7 DEF Sound, CInv, TypeOK
<1>9. A \cup B \cup {p} \subseteq Touched(t, c, {}) /\ Touched(t, c, {}) = A \cup B \cup DOMAIN owned
  BY <1>2 DEF Touched
<1>10. Works(t, c, {})
  <2>1. \A x \in Words : x \notin Touched(t, c, {}) => word'[x] = word[x]
    BY <1>2, <1>9
  <2> QED BY <1>4, <1>5, <1>6, <2>1 DEF Works
<1>11. Leaves(t, c, {})
  <2>1. On(word', p) \subseteq A \cup B \cup {p} /\ On(word', g) \subseteq A \cup B \cup {p}
    BY <1>2
  <2>2. (A \cup B \cup {p}) \cap DOMAIN owned' = {}
    BY <1>3, <1>7
  <2>3. ASSUME NEW q \in DOMAIN owned' PROVE Home(spans', q, owned'[q])
    <3>1. q \notin A \cup B \cup {p} /\ owned'[q] = owned[q] /\ owned[q] \in Classes /\ Home(spans, q, owned[q])
      BY <1>3, <1>7, <2>2
    <3> QED BY <3>1
  <2>4. On(word', p) \cap DOMAIN owned' = {} /\ On(word', g) \cap DOMAIN owned' = {}
    BY <2>1, <2>2
  <2>5. On(word', p) \subseteq Touched(t, c, {}) /\ On(word', g) \subseteq Touched(t, c, {})
    BY <1>9, <2>1
  <2>6. DOMAIN owned' \subseteq Touched(t, c, {})
    BY <1>7, <1>9
  <2>7. /\ \A x \in On(word', p) : Home(spans', x, c)
        /\ \A x \in On(word', g) : Home(spans', x, c)
    <3>1. \A x \in A \cup B \cup {p} : Home(spans, x, c)
      BY <1>1, <1>2, <1>3, ListsOfCall
    <3> QED BY <2>1, <3>1
  <2> QED BY <1>4, <1>5, <1>6, <2>3, <2>4, <2>5, <2>6, <2>7 DEF Leaves
<1> QED BY <1>1, <1>8, <1>10, <1>11, CallKeepsInv

(* deallocate, with and without a return to the central cache.             *)
LEMMA GiveBackInv ==
  ASSUME Sound, running, NEW t \in Threads, NEW p \in DOMAIN owned, deallocate(t, p)
  PROVE  Sound'
<1>1. PICK c : c = owned[p]
  OBVIOUS
<1>2. PICK m : m = WithPushed(t, c, p)
  OBVIOUS
<1>3. PICK size : size = freeListSize[t][c] + 1
  OBVIOUS
<1>4. c = owned[p] /\ m = WithPushed(t, c, p) /\ size = freeListSize[t][c] + 1
  BY <1>1, <1>2, <1>3
<1>5. /\ owned' = [x \in DOMAIN owned \ {p} |-> owned[x]]
      /\ UNCHANGED phase
      /\ IF size > Threshold[c] /\ size > 1 THEN returnToCentralCache(t, c, m, p, size)
         ELSE /\ word' = m
              /\ freeList' = [freeList EXCEPT ![t][c] = p]
              /\ freeListSize' = [freeListSize EXCEPT ![t][c] = size]
              /\ UNCHANGED <<spans, spanTrackers, centralFreeList, delayed, intact, pageVars>>
  BY <1>4 DEF deallocate, WithPushed
<1>6. PICK A, B : A = On(word, freeList[t][c]) /\ B = On(word, centralFreeList[c])
  OBVIOUS
<1>7. /\ c \in Classes /\ p \in Words /\ Home(spans, p, c)
      /\ m \in [Words -> Links] /\ \A x \in Words : x # p => m[x] = word[x]
      /\ Good(m, p) /\ On(m, p) = A \cup {p}
      /\ Count(m, p) = size
      /\ Good(m, centralFreeList[c]) /\ On(m, centralFreeList[c]) = B
  BY <1>4, <1>6, PushFacts
<1>8. /\ A \cap B = {} /\ A \cap DOMAIN owned = {} /\ B \cap DOMAIN owned = {}
      /\ \A q \in A \cup B : Home(spans, q, c)
      /\ freeListSize[t][c] <= Threshold[c]
      /\ freeListSize[t][c] \in Nat /\ Threshold[c] \in Nat \ {0}
  BY <1>6, <1>7, ListsOfCall
<1>9. size \in Nat /\ size <= Threshold[c] + 1
  BY <1>4, <1>8
<1>10. /\ centralFreeList[c] \in Links /\ DOMAIN spans \subseteq Words
      /\ spans \in [DOMAIN spans -> Classes]
      /\ centralFreeList = [centralFreeList EXCEPT ![c] = centralFreeList[c]]
  BY <1>7 DEF Sound, CInv, TypeOK
<1>11. p \notin A \cup B
  BY <1>8
<1>12. CASE ~ (size > Threshold[c] /\ size > 1)
  <2>1. /\ word' = m
        /\ freeList' = [freeList EXCEPT ![t][c] = p]
        /\ freeListSize' = [freeListSize EXCEPT ![t][c] = size]
        /\ UNCHANGED <<spans, spanTrackers, centralFreeList, delayed, intact, pageVars>>
    BY <1>5, <1>12
  <2>2. SpansInv' /\ SpansSound' /\ DelayedTyped'
    BY <2>1, PagesKept, DelayedKept DEF Sound, CInv, TypeOK
  <2>3. size <= Threshold[c]
    BY <1>8, <1>9, <1>12
  <2>4. Frees(t, p, c, size, centralFreeList[c])
    <3>1. (A \cup {p}) \cap B = {}
      BY <1>8, <1>11
    <3> QED BY <1>4, <1>5, <1>6, <1>7, <1>9, <1>10, <2>1, <2>2, <2>3, <3>1 DEF Frees
  <2> QED BY <2>4, DeallocationInv
<1>13. CASE size > Threshold[c] /\ size > 1
  <2>1. returnToCentralCache(t, c, m, p, size)
    BY <1>5, <1>13
  <2>2. PICK k : k = KeepNum(size) /\ k \in Nat /\ 1 <= k /\ k < size
    BY <1>9, <1>13, KeepNumFacts
  <2>3. PICK split, n : split = Walk(m, p)[k] /\ n = CutAfter(m, split)
    OBVIOUS
  <2>4. /\ freeList' = [freeList EXCEPT ![t][c] = p]
        /\ freeListSize' = [freeListSize EXCEPT ![t][c] = k]
        /\ IF m[split] = nullptr
           THEN word' = n /\ UNCHANGED <<spans, spanTrackers, centralFreeList, delayed, intact, pageVars>>
           ELSE returnRange(t, n, c, m[split], size - k)
    BY <2>1, <2>2, <2>3 DEF returnToCentralCache
  <2>5. /\ n \in [Words -> Links] /\ split \in A \cup {p}
        /\ Good(n, p) /\ Count(n, p) = k
        /\ Good(n, m[split]) /\ Count(n, m[split]) = size - k
        /\ A \cup {p} = On(n, p) \cup On(n, m[split]) /\ On(n, p) \cap On(n, m[split]) = {}
        /\ \A x \in Words : x \notin A \cup {p} => n[x] = m[x]
    <3>1. k \in 1 .. Count(m, p)
      BY <1>7, <1>9, <2>2
    <3>2. n \in [Words -> Links] /\ \A x \in Words : n[x] = IF x = split THEN nullptr ELSE m[x]
      <4>1. n = [m EXCEPT ![split] = nullptr] /\ nullptr \in Links
        BY <2>3 DEF CutAfter, Links
      <4> QED BY <1>7, <4>1
    <3>3. Cuts(m, n, p, k, split)
      BY <1>7, <2>3, <3>1, <3>2 DEF Cuts
    <3>4. /\ split \in On(m, p)
          /\ Good(n, p) /\ Count(n, p) = k
          /\ Good(n, m[split]) /\ Count(n, m[split]) = Count(m, p) - k
          /\ On(m, p) = On(n, p) \cup On(n, m[split]) /\ On(n, p) \cap On(n, m[split]) = {}
      BY <3>3, ListCut
    <3> QED BY <1>7, <3>2, <3>4
  <2>6. Good(n, centralFreeList[c]) /\ On(n, centralFreeList[c]) = B
    <3>1. B \subseteq Words
      BY <1>7, GoodFacts
    <3>2. \A x \in B : n[x] = m[x]
      BY <1>8, <1>11, <2>5, <3>1
    <3> QED BY <1>7, <3>2, ListKept
  <2>7. k <= Threshold[c]
    BY <1>8, <1>9, <2>2
  <2>8. CASE m[split] = nullptr
    <3>1. word' = n /\ UNCHANGED <<spans, spanTrackers, centralFreeList, delayed, intact, pageVars>>
      BY <2>4, <2>8
    <3>2. SpansInv' /\ SpansSound' /\ DelayedTyped'
      BY <3>1, PagesKept, DelayedKept DEF Sound, CInv, TypeOK
    <3>3. On(n, p) \cap B = {} /\ On(n, p) \subseteq A \cup {p}
      BY <1>8, <1>11, <2>5
    <3>4. \A x \in Words : x \notin A \cup B \cup {p} => n[x] = word[x]
      BY <1>7, <2>5
    <3>5. Frees(t, p, c, k, centralFreeList[c])
      BY <1>4, <1>5, <1>6, <1>10, <2>2, <2>4, <2>5, <2>6, <2>7, <3>1, <3>2, <3>3, <3>4 DEF Frees
    <3> QED BY <3>5, DeallocationInv
  <2>9. CASE m[split] # nullptr
    <3>1. PICK start : start = m[split]
      OBVIOUS
    <3>2. returnRange(t, n, c, start, size - k)
      BY <2>4, <2>9, <3>1
    <3>3. PICK R : R = Region(n, c, start) /\ R = On(n, start) \cup B
      BY <2>6 DEF Region
    <3>4. On(n, p) \cap R = {} /\ R \subseteq A \cup B \cup {p} /\ On(n, p) \subseteq A \cup {p}
      BY <1>8, <1>11, <2>5, <3>1, <3>3
    <3>5. Returnable(n, c, start)
      <4>1. On(n, start) \cap On(n, centralFreeList[c]) = {}
        BY <1>8, <1>11, <2>5, <2>6, <3>1
      <4>2. \A q \in Region(n, c, start) : Home(spans, q, c)
        BY <1>7, <1>8, <3>3, <3>4
      <4> QED BY <2>5, <2>6, <2>9, <3>1, <4>1, <4>2 DEF Returnable
    <3>6. /\ word' \in [Words -> Links]
          /\ \A x \in Words : x \notin R => word'[x] = n[x]
          /\ Good(word', start) /\ On(word', start) = R
          /\ centralFreeList' = [centralFreeList EXCEPT ![c] = start]
          /\ spans' = spans /\ DelayedTyped' /\ SpansInv' /\ SpansSound'
      <4>1. PICK d \in Nat : d = size - k
        BY <1>9, <2>2
      <4>2. Count(n, start) <= d /\ returnRange(t, n, c, start, d)
        BY <2>5, <3>1, <3>2, <4>1
      <4>3. Returned(n, c, start)
        BY <1>7, <3>5, <4>2, ReturnFacts
      <4> QED BY <3>3, <4>3 DEF Returned
    <3>7. Good(word', p) /\ On(word', p) = On(n, p) /\ Count(word', p) = Count(n, p)
      <4>1. On(n, p) \subseteq Words
        BY <2>5, GoodFacts
      <4>2. \A x \in On(n, p) : word'[x] = n[x]
        BY <3>4, <3>6, <4>1
      <4> QED BY <2>5, <4>2, ListKept
    <3>8. start \in Links
      BY <3>6, GoodFacts
    <3>9. /\ On(word', p) \cap On(word', start) = {}
          /\ On(word', p) \cup On(word', start) \subseteq A \cup B \cup {p}
      BY <3>4, <3>6, <3>7
    <3>10. \A x \in Words : x \notin A \cup B \cup {p} => word'[x] = word[x]
      BY <1>7, <2>5, <3>4, <3>6
    <3>11. Frees(t, p, c, k, start)
      BY <1>4, <1>5, <1>6, <2>2, <2>4, <2>5, <2>7, <3>6, <3>7, <3>8, <3>9, <3>10 DEF Frees
    <3> QED BY <3>11, DeallocationInv
  <2> QED BY <2>8, <2>9
<1> QED BY <1>12, <1>13

-----------------------------------------------------------------------------
(* ~ThreadCache.                                                           *)

(* The whole list of a class goes to the central cache.                    *)
LEMMA FlushClassInv ==
  ASSUME Sound, running, NEW t \in Threads, NEW c \in Classes, FlushClass(t, c)
  PROVE  Sound'
<1>1. PICK start : start = freeList[t][c]
  OBVIOUS
<1>2. returnRange(t, word, c, start, freeListSize[t][c])
  BY <1>1 DEF FlushClass
<1>3. /\ start # nullptr
      /\ freeList' = [freeList EXCEPT ![t][c] = nullptr]
      /\ freeListSize' = [freeListSize EXCEPT ![t][c] = 0]
      /\ UNCHANGED <<phase, owned>>
  BY <1>1 DEF FlushClass, Flushes
<1>4. PICK A, B : A = On(word, start) /\ B = On(word, centralFreeList[c])
  OBVIOUS
<1>5. /\ Good(word, start) /\ Good(word, centralFreeList[c])
      /\ A \cap B = {} /\ A \cap DOMAIN owned = {} /\ B \cap DOMAIN owned = {}
      /\ \A q \in A \cup B : Home(spans, q, c)
      /\ \A q \in DOMAIN owned : owned[q] \in Classes /\ q \in Words /\ Home(spans, q, owned[q])
      /\ freeListSize[t][c] = Count(word, start) /\ freeListSize[t][c] \in Nat
      /\ Threshold[c] \in Nat \ {0} /\ word \in [Words -> Links]
  BY <1>1, <1>4, ListsOfCall
<1>6. PICK R : R = Region(word, c, start) /\ R = A \cup B
  BY <1>4 DEF Region
<1>7. /\ word' \in [Words -> Links]
      /\ \A x \in Words : x \notin R => word'[x] = word[x]
      /\ Good(word', start) /\ On(word', start) = R
      /\ centralFreeList' = [centralFreeList EXCEPT ![c] = start]
      /\ spans' = spans /\ DelayedTyped' /\ SpansInv' /\ SpansSound'
  <2>1. PICK d \in Nat : d = freeListSize[t][c]
    BY <1>5
  <2>2. Count(word, start) <= d /\ returnRange(t, word, c, start, d)
    BY <1>2, <1>5, <2>1
  <2>3. Returnable(word, c, start)
    BY <1>3, <1>4, <1>5, <1>6 DEF Returnable
  <2>4. Returned(word, c, start)
    BY <1>5, <2>2, <2>3, ReturnFacts
  <2> QED BY <1>6, <2>4 DEF Returned
<1>8. /\ freeList' \in [Threads -> [Classes -> Links]] /\ freeList'[t][c] = nullptr
       /\ \A u \in Threads, d \in Classes : u # t \/ d # c => freeList'[u][d] = freeList[u][d]
  <2>1. freeList \in [Threads -> [Classes -> Links]] /\ nullptr \in Links
    BY DEF Sound, CInv, TypeOK, Links
  <2> QED BY <1>3, <2>1, UpdatedAt
<1>9. /\ freeListSize' \in [Threads -> [Classes -> Nat]] /\ freeListSize'[t][c] = 0
       /\ \A u \in Threads, d \in Classes : u # t \/ d # c => freeListSize'[u][d] = freeListSize[u][d]
  <2>1. freeListSize \in [Threads -> [Classes -> Nat]]
    BY DEF Sound, CInv, TypeOK
  <2> QED BY <1>3, <2>1, UpdatedAt
<1>10. /\ centralFreeList' \in [Classes -> Links] /\ centralFreeList'[c] = start
       /\ \A d \in Classes : d # c => centralFreeList'[d] = centralFreeList[d]
  <2>1. centralFreeList \in [Classes -> Links] /\ start \in Links
    BY <1>7, GoodFacts DEF Sound, CInv, TypeOK
  <2> QED BY <1>7, <2>1
<1>11. TypeOK'
  BY <1>3, <1>7, <1>8, <1>9, <1>10 DEF Sound, CInv, TypeOK
<1>12. R \subseteq Touched(t, c, {}) /\ DOMAIN owned \subseteq Touched(t, c, {})
  BY <1>1, <1>4, <1>6 DEF Touched
<1>13. Works(t, c, {})
  <2>1. \A x \in Words : x \notin Touched(t, c, {}) => word'[x] = word[x]
    BY <1>7, <1>12
  <2> QED BY <1>7, <1>8, <1>9, <1>10, <2>1 DEF Works
<1>14. Leaves(t, c, {})
  <2>1. Good(word', nullptr) /\ On(word', nullptr) = {} /\ Count(word', nullptr) = 0
    BY NullList
  <2>2. On(word', start) \cap DOMAIN owned' = {} /\ On(word', start) \subseteq Touched(t, c, {})
    BY <1>3, <1>5, <1>6, <1>7, <1>12
  <2>3. ASSUME NEW q \in DOMAIN owned' PROVE Home(spans', q, owned'[q])
    <3>1. q \notin R /\ owned'[q] = owned[q] /\ owned[q] \in Classes /\ Home(spans, q, owned[q])
      BY <1>3, <1>5, <1>6
    <3> QED BY <1>7, <3>1
  <2>4. \A x \in On(word', start) : Home(spans', x, c)
    BY <1>5, <1>6, <1>7
  <2>5. freeListSize'[t][c] = Count(word', freeList'[t][c]) /\ freeListSize'[t][c] <= Threshold[c]
    BY <1>5, <1>8, <1>9, <2>1
  <2>6. DOMAIN owned' \subseteq Touched(t, c, {})
    BY <1>3, <1>12
  <2> QED BY <1>7, <1>8, <1>10, <2>1, <2>2, <2>3, <2>4, <2>5, <2>6 DEF Leaves
<1> QED BY <1>7, <1>11, <1>13, <1>14, CallKeepsInv

(* Neither the lists nor the spans change.                                 *)
LEMMA NothingMoved ==
  ASSUME Sound, UNCHANGED <<word, spans, centralFreeList, freeList, freeListSize, owned>>,
         phase' \in [Threads -> {"up", "exiting"}], DelayedTyped', SpansInv', SpansSound'
  PROVE  Sound'
<1>1. TypeOK'
  BY DEF Sound, CInv, TypeOK
<1>2. \A l : HeadOf(l)' = HeadOf(l)
  BY DEF HeadOf
<1>3. ListsGood'
  BY <1>2 DEF Sound, CInv, ListsGood
<1>4. Placed'
  BY <1>2 DEF Sound, CInv, Placed, Members
<1>5. SizesExact'
  BY DEF Sound, CInv, SizesExact
<1> QED BY <1>1, <1>3, <1>4, <1>5 DEF Sound, CInv

(* A thread begins to end.                                                 *)
LEMMA ExitInv ==
  ASSUME Sound, NEW t \in Threads, Exit(t)
  PROVE  Sound'
<1>1. phase' \in [Threads -> {"up", "exiting"}]
  BY DEF Exit, Sound, CInv, TypeOK
<1>2. SpansInv' /\ SpansSound' /\ DelayedTyped'
  BY PagesKept, DelayedKept DEF Exit, Sound, CInv, TypeOK
<1> QED BY <1>1, <1>2, NothingMoved DEF Exit

(* A list that is not flushed is empty, so a new thread cache is the old   *)
(* one.                                                                    *)
LEMMA RestartInv ==
  ASSUME Sound, NEW t \in Threads, Restart(t)
  PROVE  Sound'
<1>1. /\ freeList \in [Threads -> [Classes -> Links]]
      /\ freeListSize \in [Threads -> [Classes -> Nat]]
      /\ phase \in [Threads -> {"up", "exiting"}]
  BY DEF Sound, CInv, TypeOK
<1>2. ASSUME NEW c \in Classes PROVE freeList[t][c] = nullptr /\ freeListSize[t][c] = 0
  <2>1. Good(word, freeList[t][c]) /\ freeListSize[t][c] = Count(word, freeList[t][c])
    BY ListsOfCall
  <2>2. freeList[t][c] = nullptr \/ freeListSize[t][c] = 0
    BY <1>1 DEF Restart, Flushes
  <2> QED BY <2>1, <2>2, GoodFacts
<1>3. freeList' = freeList
  <2>1. \A u \in Threads, c \in Classes : freeList'[u][c] = freeList[u][c]
    BY <1>1, <1>2 DEF Restart
  <2>2. freeList' \in [Threads -> [Classes -> Links]]
    <3>1. nullptr \in Links
      BY DEF Links
    <3> QED BY <1>1, <3>1 DEF Restart
  <2> QED BY <1>1, <2>1, <2>2
<1>4. freeListSize' = freeListSize
  <2>1. \A u \in Threads, c \in Classes : freeListSize'[u][c] = freeListSize[u][c]
    BY <1>1, <1>2 DEF Restart
  <2>2. freeListSize' \in [Threads -> [Classes -> Nat]]
    BY <1>1 DEF Restart
  <2> QED BY <1>1, <2>1, <2>2
<1>5. phase' \in [Threads -> {"up", "exiting"}]
  BY <1>1 DEF Restart
<1>6. SpansInv' /\ SpansSound' /\ DelayedTyped'
  BY PagesKept, DelayedKept DEF Restart, Sound, CInv, TypeOK
<1> QED BY <1>3, <1>4, <1>5, <1>6, NothingMoved DEF Restart

(* The page cache is destroyed; the links stay in memory.                  *)
LEMMA FinishInv ==
  ASSUME Sound, Finish
  PROVE  Sound'
<1>1. SpansInv'
  BY SpansNextInv DEF Finish, PageNext, Sound
<1>2. SpansSound'
  BY DEF Finish, DestroyCache, SpansSound
<1>3. DelayedTyped'
  BY DelayedKept DEF Finish, Sound, CInv, TypeOK
<1> QED BY <1>1, <1>2, <1>3, NothingMoved DEF Finish, Sound, CInv, TypeOK

-----------------------------------------------------------------------------
(* The delayed return.                                                     *)

(* A central list has been shortened, and no block in use has lost the     *)
(* span it was cut from.                                                   *)
Shortened(c, g) ==
  /\ UNCHANGED <<freeList, freeListSize, phase, owned>>
  /\ centralFreeList' = [centralFreeList EXCEPT ![c] = g]
  /\ word' \in [Words -> Links]
  /\ \A x \in Words : x \notin On(word, centralFreeList[c]) => word'[x] = word[x]
  /\ Good(word', g) /\ On(word', g) \subseteq On(word, centralFreeList[c])
  /\ DOMAIN spans' \subseteq Words /\ spans' \in [DOMAIN spans' -> Classes]
  /\ \A p \in InUse' : \A d \in Classes : Home(spans, p, d) => Home(spans', p, d)
  /\ DelayedTyped' /\ SpansInv' /\ SpansSound'

(* Every other list is as it was.                                          *)
LEMMA ShortenedInv ==
  ASSUME Sound, NEW c \in Classes, NEW g, Shortened(c, g)
  PROVE  Sound'
<1> USE DEF Shortened
<1>1. PICK j \in Lists : /\ j = <<"central", c>> /\ j[2] = c
                         /\ HeadOf(j) = centralFreeList[c] /\ HeadOf(j)' = centralFreeList'[c]
  <2>1. PICK j : j = <<"central", c>>
    OBVIOUS
  <2>2. j[1] = "central" /\ j[2] = c
    BY <2>1
  <2>3. j \in Lists
    BY <2>1, ListNames
  <2> QED BY <2>1, <2>2, <2>3 DEF HeadOf
<1>2. centralFreeList' \in [Classes -> Links] /\ centralFreeList'[c] = g
  <2>1. centralFreeList \in [Classes -> Links] /\ g \in Links
    BY GoodFacts DEF Sound, CInv, TypeOK
  <2> QED BY <2>1
<1>3. TypeOK'
  BY <1>2 DEF Sound, CInv, TypeOK
<1>4. ASSUME NEW l \in Lists, l # j
      PROVE  /\ Good(word', HeadOf(l)') /\ Members(l)' = Members(l)
             /\ Count(word', HeadOf(l)') = Count(word, HeadOf(l))
  <2>1. HeadOf(l)' = HeadOf(l)
    <3>1. CASE \E d \in Classes : l = <<"central", d>>
      <4>1. PICK d \in Classes : l = <<"central", d>>
        BY <3>1
      <4>2. d # c /\ centralFreeList \in [Classes -> Links]
        BY <1>1, <1>4, <4>1 DEF Sound, CInv, TypeOK
      <4>3. l[1] = "central" /\ l[2] = d
        BY <4>1
      <4> QED BY <4>2, <4>3 DEF HeadOf
    <3>2. CASE \E u \in Threads, d \in Classes : l = <<u, d>>
      <4>1. PICK u \in Threads, d \in Classes : l = <<u, d>>
        BY <3>2
      <4>2. l[1] # "central"
        BY <4>1, ThreadCacheV2Assumption
      <4> QED BY <4>2 DEF HeadOf
    <3> QED BY <3>1, <3>2, ListNames
  <2>2. Good(word, HeadOf(l)) /\ Members(l) \cap Members(j) = {}
    BY <1>4 DEF Sound, CInv, ListsGood, Placed
  <2>3. \A p \in On(word, HeadOf(l)) : word'[p] = word[p]
    <3>1. On(word, HeadOf(l)) \subseteq Words
      BY <2>2, GoodFacts
    <3> QED BY <1>1, <2>2, <3>1 DEF Members
  <2>4. /\ Good(word', HeadOf(l)) /\ On(word', HeadOf(l)) = On(word, HeadOf(l))
        /\ Count(word', HeadOf(l)) = Count(word, HeadOf(l))
    BY <2>2, <2>3, ListKept
  <2> QED BY <2>1, <2>4 DEF Members
<1>5. Good(word', HeadOf(j)') /\ Members(j)' \subseteq Members(j)
  BY <1>1, <1>2 DEF Members
<1>6. \A l \in Lists : Members(l)' \subseteq Members(l) /\ Good(word', HeadOf(l)')
  BY <1>4, <1>5
<1>7. ListsGood'
  BY <1>6 DEF ListsGood
<1>8. \A l \in Lists : Members(l)' \subseteq InUse'
  <2>1. ASSUME NEW l \in Lists PROVE Members(l)' = ToSet(ListOf(l))'
    BY DEF Members, On, HeadOf, ListOf
  <2> QED BY <2>1 DEF InUse
<1>9. Placed'
  <2>1. \A l, k \in Lists : l # k => Members(l)' \cap Members(k)' = {}
    BY <1>6 DEF Sound, CInv, Placed
  <2>2. \A l \in Lists : Members(l)' \cap DOMAIN owned' = {}
    BY <1>6 DEF Sound, CInv, Placed
  <2>3. \A l \in Lists : \A p \in Members(l)' : Home(spans', p, l[2])
    <3>1. \A l \in Lists : l[2] \in Classes
      BY DEF Lists
    <3> QED BY <1>6, <1>8, <3>1 DEF Sound, CInv, Placed
  <2>4. \A p \in DOMAIN owned' : Home(spans', p, owned'[p])
    <3>1. \A p \in DOMAIN owned : p \in InUse' /\ owned[p] \in Classes /\ Home(spans, p, owned[p])
      BY DEF Sound, CInv, Placed, TypeOK, InUse
    <3> QED BY <3>1
  <2> QED BY <2>1, <2>2, <2>3, <2>4 DEF Placed
<1>10. SizesExact'
  <2> SUFFICES ASSUME NEW t \in Threads, NEW d \in Classes
               PROVE  freeListSize'[t][d] = Count(word', freeList'[t][d]) /\ freeListSize'[t][d] <= Threshold[d]
    BY DEF SizesExact
  <2>1. PICK l \in Lists : l # j /\ HeadOf(l) = freeList[t][d] /\ HeadOf(l)' = freeList'[t][d]
    <3>1. PICK l : l = <<t, d>>
      OBVIOUS
    <3>2. l[1] = t /\ l[2] = d /\ t # "central" /\ l # j
      BY <1>1, <3>1, ThreadCacheV2Assumption
    <3>3. l \in Lists
      BY <3>1, ListNames
    <3> QED BY <3>2, <3>3 DEF HeadOf
  <2> QED BY <1>4, <2>1 DEF Sound, CInv, SizesExact
<1> QED BY <1>3, <1>7, <1>9, <1>10 DEF Sound, CInv

(* What updateSpanFreeCount does with the pages it does as a caller of the *)
(* page cache that gives back what it was handed.                          *)
LEMMA UpdatePages ==
  ASSUME SpansInv, NEW t \in Threads, NEW u \in delayed[t], updateSpanFreeCount(t, u)
  PROVE  SpansInv'
<1>1. UNCHANGED pageVars \/ \E p \in DOMAIN held : deallocateSpan(p)
  BY DEF updateSpanFreeCount
<1>2. [PageNext]_pageVars
  BY <1>1 DEF PageNext
<1> QED BY <1>2, SpansNextInv

(* What is left of a list is a list, or is lost whole.                     *)
LEMMA UnlinkedFacts ==
  ASSUME NEW m \in [Words -> Links], NEW h, Good(m, h), NEW X,
         NEW list, list = Walk(m, h), NEW n, n = Linked(m, Without(list, X)),
         NEW g, g = UnlinkedHead(list, X)
  PROVE  /\ n \in [Words -> Links] /\ Good(n, g) /\ On(n, g) \subseteq On(m, h)
         /\ \A x \in Words : x \notin On(m, h) => n[x] = m[x]
<1>1. list \in Seq(Words) /\ IsInjective(list) /\ ToSet(list) = On(m, h)
  BY DEF Good, IsChain, On
<1>2. PICK q : /\ q = Without(list, X) /\ q \in Seq(Words) /\ IsInjective(q)
               /\ ToSet(q) \subseteq On(m, h)
  BY <1>1, WithoutFacts
<1>3. /\ n \in [Words -> Links]
      /\ \A x \in Words : x \notin ToSet(q) => n[x] = m[x]
      /\ Good(n, First(q)) /\ Walk(n, First(q)) = q
  BY <1>2, ListLinked
<1>4. g = First(q) \/ g = nullptr
  BY <1>2 DEF UnlinkedHead
<1>5. Good(n, g) /\ On(n, g) \subseteq On(m, h)
  <2>1. CASE g = First(q)
    BY <1>2, <1>3, <2>1 DEF On
  <2>2. CASE g = nullptr
    BY <2>2, NullList
  <2> QED BY <1>4, <2>1, <2>2
<1> QED BY <1>2, <1>3, <1>5

(* A span given back takes no block in use with it if memory is intact.    *)
LEMMA UpdateInv ==
  ASSUME Sound, running, NEW t \in Threads, NEW u \in delayed[t], updateSpanFreeCount(t, u), intact'
  PROVE  Sound'
<1>1. PICK c \in Classes : c = u.class
  BY DEF Sound, CInv, TypeOK, DelayedTyped
<1>2. PICK tracker, list, X : /\ tracker = spanTrackers[u.tracker] /\ list = Walk(word, centralFreeList[c])
                              /\ X = TrackerWords(tracker)
  OBVIOUS
<1>3. /\ delayed' = [delayed EXCEPT ![t] = @ \ {u}]
      /\ UNCHANGED <<freeList, freeListSize, phase, owned>>
      /\ \/ UNCHANGED <<word, centralFreeList, spans, pageVars>>
         \/ /\ word' = Linked(word, Without(list, X))
            /\ centralFreeList' = [centralFreeList EXCEPT ![c] = UnlinkedHead(list, X)]
            /\ \/ /\ tracker.span \in DOMAIN held /\ held[tracker.span] = tracker.numPages
                  /\ deallocateSpan(tracker.span)
                  /\ spans' = [x \in DOMAIN spans \ {FirstWord(tracker.span)} |-> spans[x]]
                  /\ intact' = (InUse' \cap X = {})
               \/ UNCHANGED <<spans, pageVars>>
  BY <1>1, <1>2 DEF updateSpanFreeCount
<1>4. DelayedTyped'
  <2>1. DelayedTyped
    BY DEF Sound, CInv, TypeOK
  <2>2. /\ DOMAIN delayed' = Threads
        /\ \A x \in Threads : delayed'[x] \subseteq delayed[x]
    BY <1>3, <2>1 DEF DelayedTyped
  <2> QED BY <2>1, <2>2 DEF DelayedTyped
<1>5. CASE UNCHANGED <<word, centralFreeList, spans, pageVars>>
  <2>1. SpansInv' /\ SpansSound'
    BY <1>5, PagesKept DEF Sound, CInv
  <2>2. phase' \in [Threads -> {"up", "exiting"}]
    BY <1>3 DEF Sound, CInv, TypeOK
  <2> QED BY <1>3, <1>4, <1>5, <2>1, <2>2, NothingMoved
<1>6. CASE /\ word' = Linked(word, Without(list, X))
           /\ centralFreeList' = [centralFreeList EXCEPT ![c] = UnlinkedHead(list, X)]
           /\ \/ /\ tracker.span \in DOMAIN held /\ held[tracker.span] = tracker.numPages
                 /\ deallocateSpan(tracker.span)
                 /\ spans' = [x \in DOMAIN spans \ {FirstWord(tracker.span)} |-> spans[x]]
                 /\ intact' = (InUse' \cap X = {})
              \/ UNCHANGED <<spans, pageVars>>
  <2>1. PICK g : g = UnlinkedHead(list, X)
    OBVIOUS
  <2>2. /\ word' \in [Words -> Links] /\ Good(word', g) /\ On(word', g) \subseteq On(word, centralFreeList[c])
        /\ \A x \in Words : x \notin On(word, centralFreeList[c]) => word'[x] = word[x]
    <3>1. Good(word, centralFreeList[c]) /\ word \in [Words -> Links]
      <4>1. <<"central", c>> \in Lists /\ HeadOf(<<"central", c>>) = centralFreeList[c]
        BY ListNames
      <4> QED BY <4>1 DEF Sound, CInv, ListsGood, TypeOK
    <3> QED BY <1>2, <1>6, <2>1, <3>1, UnlinkedFacts
  <2>3. DOMAIN spans \subseteq Words /\ \A x \in DOMAIN spans : spans[x] \in Classes
    BY DEF Sound, CInv, TypeOK
  <2>4. CASE UNCHANGED <<spans, pageVars>>
    <3>1. SpansInv' /\ SpansSound'
      BY <2>4, PagesKept DEF Sound, CInv
    <3>2. spans \in [DOMAIN spans -> Classes]
      BY DEF Sound, CInv, TypeOK
    <3>3. Shortened(c, g)
      BY <1>3, <1>4, <1>6, <2>1, <2>2, <2>3, <2>4, <3>1, <3>2 DEF Shortened
    <3> QED BY <3>3, ShortenedInv
  <2>5. CASE /\ tracker.span \in DOMAIN held /\ held[tracker.span] = tracker.numPages
             /\ deallocateSpan(tracker.span)
             /\ spans' = [x \in DOMAIN spans \ {FirstWord(tracker.span)} |-> spans[x]]
             /\ intact' = (InUse' \cap X = {})
    <3>1. InUse' \cap X = {}
      BY <2>5
    <3>2. PICK s : s = FirstWord(tracker.span)
      OBVIOUS
    <3>3. /\ DOMAIN spans' = DOMAIN spans \ {s} /\ \A x \in DOMAIN spans' : spans'[x] = spans[x]
          /\ spans' \in [DOMAIN spans' -> Classes]
      BY <2>3, <2>5, <3>2
    <3>4. ASSUME NEW p \in InUse', NEW d \in Classes, Home(spans, p, d) PROVE Home(spans', p, d)
      <4>1. PICK x \in DOMAIN spans : spans[x] = d /\ p \in CutFrom(x, d)
        BY <3>4 DEF Home
      <4>2. x # s
        <5>1. x = s => CutFrom(x, d) \subseteq X
          BY <1>2, <2>5, <3>2, <4>1, TrackerPlace DEF Sound, CInv
        <5> QED BY <3>1, <3>4, <4>1, <5>1
      <4> QED BY <3>3, <4>1, <4>2 DEF Home
    <3>5. SpansInv'
      BY UpdatePages DEF Sound
    <3>6. SpansSound'
      <4>1. held' = [x \in DOMAIN held \ {tracker.span} |-> held[x]]
        BY <2>5 DEF deallocateSpan
      <4> SUFFICES ASSUME NEW x \in DOMAIN spans'
                   PROVE  /\ x = FirstWord(PageOf(x)) /\ PageOf(x) \in DOMAIN held'
                          /\ held'[PageOf(x)] = SpanPages[spans'[x]]
        BY DEF SpansSound
      <4>2. x \in DOMAIN spans /\ x # s /\ spans'[x] = spans[x]
        BY <3>3
      <4>3. x = FirstWord(PageOf(x)) /\ PageOf(x) \in DOMAIN held /\ held[PageOf(x)] = SpanPages[spans[x]]
        BY <4>2 DEF Sound, CInv, SpansSound
      <4>4. PageOf(x) # tracker.span
        BY <3>2, <4>2, <4>3
      <4> QED BY <4>1, <4>2, <4>3, <4>4
    <3>7. Shortened(c, g)
      BY <1>3, <1>4, <1>6, <2>1, <2>2, <2>3, <3>3, <3>4, <3>5, <3>6 DEF Shortened
    <3> QED BY <3>7, ShortenedInv
  <2> QED BY <1>6, <2>4, <2>5
<1> QED BY <1>3, <1>5, <1>6

-----------------------------------------------------------------------------
(* At first there are no spans and every list is empty.                    *)
LEMMA InitSound == Init => Sound
<1> SUFFICES ASSUME Init PROVE Sound
  OBVIOUS
<1> USE DEF Init
<1>1. SpansInv
  BY SpansInitInv
<1>2. TypeOK
  <2>1. word \in [Words -> Links] /\ centralFreeList \in [Classes -> Links]
    BY DEF Links
  <2>2. freeList \in [Threads -> [Classes -> Links]]
    BY DEF Links
  <2>3. freeListSize \in [Threads -> [Classes -> Nat]]
    OBVIOUS
  <2>4. DOMAIN spans = {} /\ DOMAIN owned = {}
    OBVIOUS
  <2>5. DelayedTyped
    BY DEF DelayedTyped
  <2> QED BY <2>1, <2>2, <2>3, <2>4, <2>5 DEF TypeOK
<1>3. \A l \in Lists : HeadOf(l) = nullptr
  <2> SUFFICES ASSUME NEW l \in Lists PROVE HeadOf(l) = nullptr
    OBVIOUS
  <2>1. CASE \E c \in Classes : l = <<"central", c>>
    BY <2>1 DEF HeadOf
  <2>2. CASE \E t \in Threads, c \in Classes : l = <<t, c>>
    BY <2>2, ThreadCacheV2Assumption DEF HeadOf
  <2> QED BY <2>1, <2>2, ListNames
<1>4. ListsGood /\ Placed
  BY <1>3, NullList DEF ListsGood, Placed, Members
<1>5. SizesExact
  BY NullList, ThreadCacheV2Assumption DEF SizesExact
<1>6. SpansSound
  BY DEF SpansSound
<1> QED BY <1>1, <1>2, <1>4, <1>5, <1>6 DEF Sound, CInv

(* A call that leaves memory intact keeps Sound, and every call leaves the *)
(* page cache in order.                                                    *)
LEMMA NextInv == Inv /\ [Next]_vars => Inv'
<1> SUFFICES ASSUME Inv, [Next]_vars PROVE Inv'
  OBVIOUS
<1>1. ASSUME Sound, running, NEW t \in Threads, NEW c \in Classes,
             AllocateCached(t, c) \/ FlushClass(t, c)
      PROVE  Sound'
  BY <1>1, AllocateCachedInv, FlushClassInv
<1>2. ASSUME Sound, running, NEW t \in Threads, Exit(t) \/ Restart(t) PROVE Sound'
  BY <1>2, ExitInv, RestartInv
<1>3. ASSUME Sound, running, NEW t \in Threads, NEW p \in DOMAIN owned, deallocate(t, p)
      PROVE  Sound'
  BY <1>3, GiveBackInv
<1>4. ASSUME Sound, NEW t \in Threads, NEW c \in Classes, fetchFromCentralCache(t, c)
      PROVE  Inv'
  <2>1. SpansInv'
    BY <1>4, FetchPages
  <2>2. intact' => Sound'
    BY <1>4, FetchInv
  <2> QED BY <2>1, <2>2 DEF Sound, Inv
<1>5. ASSUME Sound, running, NEW t \in Threads, NEW u \in delayed[t], updateSpanFreeCount(t, u)
      PROVE  Inv'
  <2>1. SpansInv'
    BY <1>5, UpdatePages DEF Sound
  <2>2. intact' => Sound'
    BY <1>5, UpdateInv
  <2> QED BY <2>1, <2>2 DEF Sound, Inv
<1>6. CASE running /\ intact /\ Next /\ ~ Finish
  <2>1. Sound
    BY <1>6 DEF Inv, Sound
  <2> QED BY <1>1, <1>2, <1>3, <1>4, <1>5, <1>6, <2>1 DEF Next, Sound, Inv
<1>7. CASE Finish
  <2>1. SpansInv'
    BY <1>7, SpansNextInv DEF Finish, PageNext, Inv
  <2>2. intact' = intact
    BY <1>7 DEF Finish
  <2>3. intact => Sound'
    BY <1>7, FinishInv DEF Inv, Sound
  <2> QED BY <2>1, <2>2, <2>3 DEF Sound, Inv
<1>8. CASE UNCHANGED vars
  <2>1. UNCHANGED <<word, spans, centralFreeList, freeList, freeListSize, owned>> /\ UNCHANGED pageVars
    BY <1>8 DEF vars, pageVars
  <2>2. SpansInv'
    BY <2>1, SpansNextInv DEF Inv
  <2>3. UNCHANGED <<delayed, phase, intact>>
    BY <1>8 DEF vars
  <2>4. ASSUME Sound PROVE Sound'
    <3>1. phase' \in [Threads -> {"up", "exiting"}]
      BY <2>3, <2>4 DEF Sound, CInv, TypeOK
    <3>2. SpansSound' /\ DelayedTyped'
      BY <2>1, <2>3, <2>4, PagesKept, DelayedKept DEF Sound, CInv, TypeOK
    <3> QED BY <2>1, <2>2, <2>4, <3>1, <3>2, NothingMoved
  <2> QED BY <2>2, <2>3, <2>4 DEF Sound, Inv
<1> QED BY <1>6, <1>7, <1>8 DEF Next

(* Init has the invariant.                                                 *)
LEMMA InitInv == Init => Inv
BY InitSound DEF Sound, Inv

(* The inductive invariant holds in every reachable state, for any         *)
(* threads, classes, sizes, thresholds and memory, whatever the program    *)
(* leaves in its blocks, whatever the trackers count and whenever spans    *)
(* are given back: the page cache's part always, the lists' part as long   *)
(* as no span has been given back with blocks in use or with a length not  *)
(* its own, and no single block has been handed out with a link.           *)
THEOREM InvHolds == Spec => []Inv
BY InitInv, NextInv, PTL DEF Spec

(* The property the run checks follows from the invariant.                 *)
LEMMA ListsAreSound == Inv => ListsSound
<1> SUFFICES ASSUME Inv, intact
             PROVE  /\ \A l \in Lists : IsInjective(ListOf(l))
                    /\ \A p \in Words :
                         \A l, k \in {m \in Lists : p \in ToSet(ListOf(m))} :
                           l = k /\ p \notin DOMAIN owned
                    /\ \A t \in Threads, c \in Classes :
                         freeListSize[t][c] = Len(ListOf(<<t, c>>)) /\ freeListSize[t][c] <= Threshold[c]
  BY DEF ListsSound
<1> Sound
  BY DEF Inv, Sound
<1>1. \A l : ListOf(l) = Walk(word, HeadOf(l))
  BY DEF ListOf, HeadOf
<1>2. \A l \in Lists : IsInjective(ListOf(l))
  BY <1>1 DEF Sound, CInv, ListsGood, Good, IsChain
<1>3. ASSUME NEW p \in Words, NEW l \in {m \in Lists : p \in ToSet(ListOf(m))},
             NEW k \in {m \in Lists : p \in ToSet(ListOf(m))}
      PROVE  l = k /\ p \notin DOMAIN owned
  <2>1. l \in Lists /\ k \in Lists /\ p \in Members(l) /\ p \in Members(k)
    BY <1>1 DEF Members, On
  <2> QED BY <2>1 DEF Sound, CInv, Placed
<1>4. ASSUME NEW t \in Threads, NEW c \in Classes
      PROVE  freeListSize[t][c] = Len(ListOf(<<t, c>>)) /\ freeListSize[t][c] <= Threshold[c]
  <2>1. HeadOf(<<t, c>>) = freeList[t][c]
    BY ListNames
  <2> QED BY <1>1, <2>1 DEF Sound, CInv, SizesExact, Count
<1> QED BY <1>2, <1>3, <1>4

(* Up to the first of those faults the links in memory make lists that end *)
(* and share no block with each other or with the program, and             *)
(* freeListSize_, which deallocate counts apart from the links, is their   *)
(* length and within the threshold.                                        *)
THEOREM ListsAlwaysSound == Spec => []ListsSound
BY InvHolds, ListsAreSound, PTL

-----------------------------------------------------------------------------
(* What the program holds.                                                 *)
ObjectsApart ==
  running =>
    /\ \A p \in DOMAIN owned : p + BlockSize[owned[p]] <= NumPages * PageWords + 1
    /\ \A p, q \in DOMAIN owned :
         p # q => p + BlockSize[owned[p]] <= q \/ q + BlockSize[owned[q]] <= p

(* For they are blocks of spans.                                           *)
LEMMA ObjectsAreApart == Sound => ObjectsApart
<1> SUFFICES ASSUME Sound, running
             PROVE  /\ \A p \in DOMAIN owned : p + BlockSize[owned[p]] <= NumPages * PageWords + 1
                    /\ \A p, q \in DOMAIN owned :
                         p # q => p + BlockSize[owned[p]] <= q \/ q + BlockSize[owned[q]] <= p
  BY DEF ObjectsApart
<1>1. \A p \in DOMAIN owned : owned[p] \in Classes /\ Home(spans, p, owned[p])
  BY DEF Sound, CInv, TypeOK, Placed
<1> QED BY <1>1, HomePlace, HomesApart DEF Sound, CInv

(* A block the program gets is not one it has.                             *)
HandsOut(p, c) ==
  /\ p \notin DOMAIN owned /\ c \in Classes /\ running'
  /\ owned' = [x \in DOMAIN owned \cup {p} |-> IF x # p THEN owned[x] ELSE c]

(* The first block of the thread's list is free.                           *)
LEMMA AllocateCachedNew ==
  ASSUME Sound, running, NEW t \in Threads, NEW c \in Classes, AllocateCached(t, c)
  PROVE  \E p : HandsOut(p, c)
<1>1. PICK p : p = freeList[t][c]
  OBVIOUS
<1>2. p # nullptr /\ HandOut(word, p, c) /\ UNCHANGED pageVars
  BY <1>1 DEF AllocateCached
<1>3. Good(word, p) /\ On(word, p) \cap DOMAIN owned = {}
  BY <1>1, ListsOfCall
<1>4. p \notin DOMAIN owned
  BY <1>2, <1>3, GoodFacts
<1> QED BY <1>2, <1>4 DEF HandsOut, HandOut, pageVars

(* So is what fetchRange delivers.                                         *)
LEMMA FetchNew ==
  ASSUME Sound, running, NEW t \in Threads, NEW c \in Classes, fetchFromCentralCache(t, c)
  PROVE  \E p : HandsOut(p, c)
<1>0. PICK r \in fetchRange(c) :
        \E N : Delivered(c, r, N) /\ Takes(c, r) /\ HandOut(r.word, r.block, c)
  BY FetchPages
<1>1. PICK N : Delivered(c, r, N) /\ Takes(c, r) /\ HandOut(r.word, r.block, c)
  BY <1>0
<1>2. PICK p : p = r.block
  OBVIOUS
<1>3. p \in On(word, centralFreeList[c]) \cup N /\ \A q \in N : \A d \in Classes : ~ Home(spans, q, d)
  BY <1>1, <1>2 DEF Delivered
<1>4. /\ On(word, centralFreeList[c]) \cap DOMAIN owned = {}
      /\ \A q \in DOMAIN owned : owned[q] \in Classes /\ Home(spans, q, owned[q])
  BY ListsOfCall
<1>5. p \notin DOMAIN owned
  BY <1>3, <1>4
<1>6. running'
  BY <1>1 DEF Takes, allocateSpan, pageVars
<1> QED BY <1>1, <1>2, <1>5, <1>6 DEF HandsOut, HandOut

(* To hand out such a block is an Alloc of its size.                       *)
LEMMA HandsOutAllocates ==
  ASSUME Sound, Sound', ObjectsApart', NEW p, NEW c, HandsOut(p, c)
  PROVE  \E n \in Malloc!Lengths, s \in Malloc!Units : Malloc!Alloc(n, s)
<1>1. PICK e \in Nat : e = NumPages * PageWords
  BY WordsFacts
<1>2. PICK n : n = BlockSize[c]
  OBVIOUS
<1>3. c \in Classes /\ n \in Nat \ {0} /\ \A d \in Classes : BlockSize[d] \in Nat \ {0} /\ d # Twice
  BY <1>2, BlockNumFacts DEF HandsOut, Classes, Twice
<1>4. /\ DOMAIN owned' = DOMAIN owned \cup {p} /\ owned'[p] = c
      /\ \A x \in DOMAIN owned : x # p /\ owned'[x] = owned[x] /\ owned[x] \in Classes
      /\ \A x \in DOMAIN owned' : x \in 1 .. e
  BY <1>1, <1>3 DEF HandsOut, Sound, CInv, TypeOK, Words
<1>5. /\ p \in 1 .. e /\ p + n <= e + 1
      /\ \A q \in DOMAIN owned : q + BlockSize[owned[q]] <= p \/ p + n <= q
  BY <1>1, <1>2, <1>4 DEF ObjectsApart, HandsOut
<1> DEFINE live == [x \in DOMAIN owned |-> IF owned[x] = Twice THEN 0 ELSE BlockSize[owned[x]]]
<1>6. \A q \in DOMAIN owned : live[q] = BlockSize[owned[q]] /\ live[q] \in Nat /\ q \in Nat
  BY <1>3, <1>4
<1>7. live' = [x \in DOMAIN owned \cup {p} |-> IF x = p THEN n ELSE live[x]]
  BY <1>2, <1>3, <1>4
<1>8. {t \in DOMAIN live : (t .. (t + live[t] - 1)) \cap (p .. (p + n - 1)) = {}} = DOMAIN live
  <2>1. \A t \in DOMAIN owned : (t .. (t + live[t] - 1)) \cap (p .. (p + n - 1)) = {}
    <3> HIDE DEF live
    <3> QED BY <1>3, <1>5, <1>6
  <2>2. DOMAIN live = DOMAIN owned
    OBVIOUS
  <2> QED BY <2>1, <2>2
<1>9. (p .. (p + n - 1)) \subseteq 0 .. (e + 1) - 1
  BY <1>3, <1>5
<1>10. n \in 1 .. e + 1 /\ p \in 0 .. (e + 1) - 1 /\ n \in n .. (n + 0)
  BY <1>3, <1>5
<1>11. Malloc!Alloc(n, p)
  <2> HIDE DEF live
  <2>1. {t \in DOMAIN live : (t .. (t + live[t] - 1)) \cap (p .. (p + n - 1)) # {}} = {}
    BY <1>8
  <2>2. DOMAIN live = DOMAIN owned
    BY DEF live
  <2> QED BY <1>1, <1>7, <1>9, <1>10, <2>1, <2>2 DEF Malloc!Alloc, Malloc!Overlapping, Malloc!Run, Malloc!Units, live
<1> QED BY <1>1, <1>10, <1>11 DEF Malloc!Lengths, Malloc!Units

(* And deallocate is a Free.                                               *)
LEMMA GivingBackFrees ==
  ASSUME Sound, NEW t \in Threads, NEW p \in DOMAIN owned, deallocate(t, p)
  PROVE  \E s \in Malloc!Units : Malloc!Free(s)
<1>1. owned' = [x \in DOMAIN owned \ {p} |-> owned[x]]
  BY DEF deallocate
<1>2. p \in Malloc!Units
  <2>1. PICK e \in Nat : e = NumPages * PageWords
    BY WordsFacts
  <2>2. p \in 1 .. e
    BY <2>1 DEF Sound, CInv, TypeOK, Words
  <2> QED BY <2>1, <2>2 DEF Malloc!Units
<1> QED BY <1>1, <1>2 DEF Malloc!Free

(* malloc's contract for v2's front up to the first fault: the objects of  *)
(* the program lie in the memory, never overlap and stay until they are    *)
(* freed.                                                                  *)
THEOREM RefinesMalloc == Spec => MallocUntilFault
<1> DEFINE Apart == intact => ObjectsApart
<1>1. Init => Malloc!Init
  BY DEF Init, Malloc!Init
<1>2. Inv => Apart
  BY ObjectsAreApart DEF Inv, Sound
<1>3. Inv /\ Inv' /\ Apart' /\ [Next]_vars => [intact' => Malloc!Next]_owned
  <2> SUFFICES ASSUME Inv, Inv', Apart', [Next]_vars, intact', owned' # owned
               PROVE  Malloc!Next
    OBVIOUS
  <2>1. Sound' /\ ObjectsApart'
    BY DEF Inv, Sound
  <2>2. Next /\ running /\ intact
    BY DEF Next, Finish, vars
  <2>3. Sound
    BY <2>2 DEF Inv, Sound
  <2>4. ASSUME NEW t \in Threads, NEW c \in Classes,
               AllocateCached(t, c) \/ fetchFromCentralCache(t, c)
        PROVE  Malloc!Next
    BY <2>1, <2>2, <2>3, <2>4, AllocateCachedNew, FetchNew, HandsOutAllocates DEF Malloc!Next
  <2>5. ASSUME NEW t \in Threads, NEW p \in DOMAIN owned, deallocate(t, p)
        PROVE  Malloc!Next
    BY <2>3, <2>5, GivingBackFrees DEF Malloc!Next
  <2>6. ASSUME NEW t \in Threads, NEW c \in Classes, FlushClass(t, c)
        PROVE  FALSE
    BY <2>6 DEF FlushClass
  <2>7. ASSUME NEW t \in Threads, Exit(t) \/ Restart(t) \/ \E u \in delayed[t] : updateSpanFreeCount(t, u)
        PROVE  FALSE
    BY <2>7 DEF Exit, Restart, updateSpanFreeCount
  <2>8. ~ Finish
    BY DEF Finish
  <2> QED BY <2>2, <2>4, <2>5, <2>6, <2>7, <2>8 DEF Next
<1> HIDE DEF Apart
<1>4. Spec => []Inv
  BY InvHolds
<1> QED BY <1>1, <1>2, <1>3, <1>4, PTL DEF Spec, MallocUntilFault
=============================================================================
