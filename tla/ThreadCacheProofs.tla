-------------------------- MODULE ThreadCacheProofs --------------------------
(***************************************************************************)
(* Proofs about ThreadCache for any threads, classes, sizes and limits.    *)
(*                                                                         *)
(* Inv is inductive.  It holds the invariant of the central cache, about   *)
(* the blocks on lists and with the program, and the parts of the thread   *)
(* caches: what the lists hold, what the program owns, and what a thread   *)
(* inside the central cache or past its end looks like.                    *)
(***************************************************************************)
EXTENDS ThreadCache, FiniteSetTheorems, TLAPS

(* The central cache again, with the theorems about it.                    *)
Shards == INSTANCE CentralCacheProofs WITH out <- Outside

TypeOK ==
  /\ freeList \in [Threads -> [Classes -> SUBSET Nat]]
  /\ freeListSize \in [Threads -> [Classes -> Nat]]
  /\ phase \in [Threads -> {"up", "exiting", "down"}]
  /\ owned \in [DOMAIN owned -> Classes \cup {Large}]

LargeSpans == {s \in DOMAIN spans : spans[s].sizeClass = Large}

(* An object lies in a span of its class; the large objects are the spans  *)
(* of large objects.                                                       *)
OwnedExact ==
  /\ \A c \in Classes : \A p \in Objects(c) :
       \E s \in Central!findSpan(p) : spans[s].sizeClass = c
  /\ Objects(Large) = {s * PageBytes : s \in LargeSpans}

(* A thread that fetches has an empty list, carries a batch at most and    *)
(* has not ended; one that has ended left nothing behind.                  *)
CallExact(t) ==
  /\ call[t].op \in {"fetchLock", "fetch"} =>
       /\ phase[t] = "up"
       /\ freeList[t][call[t].class] = {}
       /\ IsFiniteSet(call[t].chain)
       /\ Cardinality(call[t].chain) <= BatchNum[call[t].class]
  /\ phase[t] = "down" =>
       /\ call[t] = Central!Idle
       /\ \A c \in Classes : freeList[t][c] = {}

CallsExact == \A t \in Threads : CallExact(t)

(* The inductive invariant.                                                *)
Inv == /\ TypeOK /\ ListsApart /\ SizesExact /\ OwnedExact /\ CallsExact
       /\ Shards!Inv
-----------------------------------------------------------------------------
(* Central and Shards are the same central cache: what its operators mean  *)
(* does not depend on the name it goes by.                                 *)

(* What CentralCache assumes of its constants.                             *)
LEMMA Constants == Shards!CentralCacheAssumption
BY ThreadCacheAssumption
DEF Central!CentralCacheAssumption, Shards!CentralCacheAssumption, Central!Classes, Shards!Classes

(* The span of an address.                                                 *)
LEMMA SameSpan == \A p : Central!findSpan(p) = Shards!findSpan(p)
BY DEF Central!findSpan, Shards!findSpan

(* Taking a span from the page cache.                                      *)
LEMMA SameAlloc == \A n, s : Central!PageLevel!Alloc(n, s) <=> Shards!PageLevel!Alloc(n, s)
BY DEF Central!PageLevel!Alloc, Shards!PageLevel!Alloc,
       Central!PageLevel!Overlapping, Shards!PageLevel!Overlapping,
       Central!PageLevel!Run, Shards!PageLevel!Run,
       Central!PageLevel!Units, Shards!PageLevel!Units

(* Giving a span back.                                                     *)
LEMMA SameFree == \A s : Central!deallocateSpan(s) <=> Shards!deallocateSpan(s)
BY DEF Central!deallocateSpan, Shards!deallocateSpan, Central!PageLevel!Free, Shards!PageLevel!Free

(* Calls of fetchRange and returnRange.                                    *)
LEMMA SameCalls ==
  \A t, c : /\ Central!FetchCall(t, c) <=> Shards!FetchCall(t, c)
            /\ \A chain : Central!ReturnCall(t, c, chain) <=> Shards!ReturnCall(t, c, chain)
BY DEF Central!FetchCall, Shards!FetchCall, Central!ReturnCall, Shards!ReturnCall,
       Central!Idle, Shards!Idle

(* Spans of large objects.                                                 *)
LEMMA SameLarge ==
  \A n, s : /\ Central!AllocLargeSpan(n, s) <=> Shards!AllocLargeSpan(n, s)
            /\ Central!FreeLargeSpan(s) <=> Shards!FreeLargeSpan(s)
BY SameAlloc, SameFree
DEF Central!AllocLargeSpan, Shards!AllocLargeSpan, Central!FreeLargeSpan, Shards!FreeLargeSpan,
    Central!Large, Shards!Large

(* Sizes of sets.                                                          *)
LEMMA SameCardinality == \A S : Central!Cardinality(S) = Cardinality(S)
                              /\ Shards!Cardinality(S) = Cardinality(S)
BY DEF Central!Cardinality, Shards!Cardinality, Cardinality

(* The condition of the loop of fetchRange.                                *)
LEMMA SameFetching == \A t : Central!Fetching(t) <=> Shards!Fetching(t)
BY SameCardinality DEF Central!Fetching, Shards!Fetching

(* Taking the lock of a shard.                                             *)
LEMMA SameAcquire ==
  \A t : /\ Central!FetchAcquire(t) <=> Shards!FetchAcquire(t)
         /\ Central!ReturnAcquire(t) <=> Shards!ReturnAcquire(t)
BY DEF Central!FetchAcquire, Shards!FetchAcquire, Central!ReturnAcquire, Shards!ReturnAcquire,
       Central!Acquire, Shards!Acquire

(* The ends of fetchRange and returnRange.                                 *)
LEMMA SameEnd ==
  \A t : /\ Central!ReturnEnd(t) <=> Shards!ReturnEnd(t)
         /\ Central!FetchEnd(t) <=> Shards!FetchEnd(t)
         /\ Central!FetchThrows(t) <=> Shards!FetchThrows(t)
BY SameFetching
DEF Central!ReturnEnd, Shards!ReturnEnd, Central!FetchEnd, Shards!FetchEnd,
    Central!FetchThrows, Shards!FetchThrows,
    Central!Idle, Shards!Idle

(* An iteration of fetchRange.                                             *)
LEMMA SameTake == \A t : Central!TakeBlock(t) <=> Shards!TakeBlock(t)
BY SameFetching
DEF Central!TakeBlock, Shards!TakeBlock, Central!StillPartial, Shards!StillPartial

(* createSpan.                                                             *)
LEMMA SameCreate == \A t : Central!CreateSpan(t) <=> Shards!CreateSpan(t)
BY SameFetching
DEF Central!CreateSpan, Shards!CreateSpan, Central!BlockAddrs, Shards!BlockAddrs,
    Central!Pages, Shards!Pages, Central!PageLevel!Alloc, Shards!PageLevel!Alloc,
    Central!PageLevel!Overlapping, Shards!PageLevel!Overlapping,
    Central!PageLevel!Run, Shards!PageLevel!Run, Central!PageLevel!Units, Shards!PageLevel!Units

(* An iteration of returnRange, which may end with an exception.           *)
LEMMA SameReturn ==
  \A t : /\ Central!ReturnBlock(t) <=> Shards!ReturnBlock(t)
         /\ Central!ReturnThrows(t) <=> Shards!ReturnThrows(t)
BY DEF Central!ReturnBlock, Shards!ReturnBlock, Central!ReturnThrows, Shards!ReturnThrows,
       Central!Idle, Shards!Idle, Central!Owners, Shards!Owners,
       Central!PutBack, Shards!PutBack, Central!ReleaseSpan, Shards!ReleaseSpan,
       Central!AllBack, Shards!AllBack, Central!unlinkPartial, Shards!unlinkPartial,
       Central!findSpan, Shards!findSpan, Central!deallocateSpan, Shards!deallocateSpan,
       Central!PageLevel!Free, Shards!PageLevel!Free

(* What a thread does inside the central cache is a step of Shards.        *)
LEMMA SameSteps ==
  \A t : CentralStep(t) \/ Central!FetchEnd(t) => Shards!Step(t)
BY SameAcquire, SameEnd, SameTake, SameCreate, SameReturn DEF CentralStep, Shards!Step, Shards!Proceed

-----------------------------------------------------------------------------
(* What Inv says of blocks on lists, on their way, and with the program.   *)

OfClass(b, c) == \E s \in Central!findSpan(b) : spans[s].sizeClass = c

(* Blocks out of their spans.                                              *)
Away == Shards!InTransit \cup Outside

(* A block away from its span was cut from one span of a small class.      *)
LEMMA AwayHome ==
  ASSUME Shards!Inv, NEW b \in Away
  PROVE  \E s \in Shards!SmallSpans :
           /\ b \in Shards!Blocks(s) /\ Central!findSpan(b) = {s}
           /\ s \in DOMAIN spans /\ spans[s].sizeClass \in Classes
<1>1. PICK s \in Shards!SmallSpans : b \in Shards!Blocks(s) /\ Shards!findSpan(b) = {s}
  BY Shards!BlockOut, Constants DEF Away, Shards!Away, Shards!CentralCacheAssumption
<1>2. s \in DOMAIN spans /\ spans[s].sizeClass \in Shards!Classes
  BY Shards!SmallSpanFacts, Constants DEF Shards!CentralCacheAssumption
<1> QED BY <1>1, <1>2, SameSpan DEF Shards!Classes, Classes

(* So it is of one class.                                                  *)
LEMMA OneClass ==
  ASSUME Shards!Inv, NEW b \in Away
  PROVE  /\ \A c, d : OfClass(b, c) /\ OfClass(b, d) => c = d
         /\ \E c \in Classes : OfClass(b, c)
BY AwayHome DEF OfClass

(* It stays of that class while it is away.                                *)
LEMMA ClassKept ==
  ASSUME Shards!Inv, Shards!Inv', Shards!SpansPersist,
         NEW b, b \in Away, b \in Away', NEW c, OfClass(b, c)
  PROVE  OfClass(b, c)'
<1>1. PICK s \in Shards!findSpan(b) : spans[s].sizeClass = c
  BY SameSpan DEF OfClass
<1>2. s \in Shards!findSpan(b)' /\ spans'[s].sizeClass = spans[s].sizeClass
  BY <1>1, Shards!HomeKept, Constants DEF Away, Shards!Away, Shards!CentralCacheAssumption
<1>3. Shards!findSpan(b)' = Central!findSpan(b)'
  BY DEF Central!findSpan, Shards!findSpan
<1> QED BY <1>1, <1>2, <1>3 DEF OfClass

(* Lists and objects of the classes are away, and lists are finite.        *)
LEMMA ListFacts ==
  ASSUME Inv, NEW t \in Threads, NEW c \in Classes
  PROVE  /\ freeList[t][c] \subseteq Outside
         /\ \A b \in freeList[t][c] : b \in Away /\ OfClass(b, c)
         /\ IsFiniteSet(freeList[t][c])
         /\ freeListSize[t][c] = Cardinality(freeList[t][c])
         /\ freeListSize[t][c] \in Nat /\ freeListSize[t][c] <= MaxCachedBlocks[c]
         /\ MaxCachedBlocks[c] \in Nat
<1>1. freeList[t][c] \subseteq Outside
  BY DEF Outside, OnLists
<1>2. \A b \in freeList[t][c] : b \in Away /\ OfClass(b, c)
  BY <1>1 DEF Away, Inv, ListsApart, OfClass
<1>3. Outside \subseteq 0 .. NumPages * PageBytes - 1
  BY DEF Inv, Shards!Inv, Shards!TypeOK, Shards!Bytes
<1>4. IsFiniteSet(0 .. NumPages * PageBytes - 1)
  <2>1. NumPages * PageBytes - 1 \in Int
    BY Constants DEF Shards!CentralCacheAssumption
  <2> QED BY <2>1, FS_Interval
<1>5. IsFiniteSet(freeList[t][c])
  BY <1>1, <1>3, <1>4, FS_Subset
<1> QED BY <1>1, <1>2, <1>5, ThreadCacheAssumption DEF Inv, SizesExact, TypeOK

(* A small object is away from its span and of the class asked for.        *)
LEMMA ObjectFacts ==
  ASSUME Inv, NEW c \in Classes, NEW p \in Objects(c)
  PROVE  p \in Outside /\ p \in Away /\ OfClass(p, c) /\ p \in DOMAIN owned /\ owned[p] = c
BY DEF Outside, Away, Objects, Inv, OwnedExact, OfClass

(* A large object is no block.                                             *)
LargeApart == Objects(Large) \cap Away = {}

(* Its span is of no class, and no other span holds its address.           *)
LEMMA LargeIsApart == Shards!Inv /\ OwnedExact => LargeApart
<1> SUFFICES ASSUME Shards!Inv, OwnedExact, NEW p \in Objects(Large), p \in Away
             PROVE  FALSE
  BY DEF LargeApart
<1>1. PICK s \in LargeSpans : p = s * PageBytes
  BY DEF OwnedExact
<1>2. s \in DOMAIN spans /\ spans[s].sizeClass = Large
  BY DEF LargeSpans
<1>3. Central!findSpan(p) = {s}
  BY <1>1, <1>2, SameSpan, Shards!SpanBytes, Constants
  DEF Shards!FirstByte, Shards!CentralCacheAssumption
<1>4. Large \notin Classes
  BY Constants DEF Large, Classes, Shards!CentralCacheAssumption
<1> QED BY <1>2, <1>3, <1>4, AwayHome

(* So it is after a step.                                                  *)
LEMMA LargeStaysApart == Shards!Inv' /\ OwnedExact' => LargeApart'
BY LargeIsApart, PTL

-----------------------------------------------------------------------------
(* How the program's objects and the lists change.                         *)

(* An address the program did not have becomes an object of class c.       *)
LEMMA OwnFresh ==
  ASSUME Inv, NEW p, p \notin DOMAIN owned, NEW c \in Classes \cup {Large}, Own(p, c)
  PROVE  /\ owned' \in [DOMAIN owned' -> Classes \cup {Large}]
         /\ DOMAIN owned' = DOMAIN owned \cup {p} /\ owned'[p] = c
         /\ \A q \in DOMAIN owned : owned'[q] = owned[q]
         /\ \A d : Objects(d)' = Objects(d) \cup (IF d = c THEN {p} ELSE {})
<1>1. owned' = [q \in DOMAIN owned \cup {p} |-> IF q = p THEN c ELSE owned[q]]
  BY DEF Own
<1>2. /\ DOMAIN owned' = DOMAIN owned \cup {p} /\ owned'[p] = c
      /\ \A q \in DOMAIN owned : owned'[q] = owned[q]
  BY <1>1
<1>3. owned' \in [DOMAIN owned' -> Classes \cup {Large}]
  BY <1>1 DEF Inv, TypeOK
<1>4. \A d : Objects(d)' = Objects(d) \cup (IF d = c THEN {p} ELSE {})
  BY <1>2 DEF Objects
<1> QED BY <1>2, <1>3, <1>4

(* The program gives up an object.                                         *)
LEMMA Disowned ==
  ASSUME Inv, NEW p \in DOMAIN owned, Disown(p)
  PROVE  /\ owned' \in [DOMAIN owned' -> Classes \cup {Large}]
         /\ DOMAIN owned' = DOMAIN owned \ {p}
         /\ \A q \in DOMAIN owned \ {p} : owned'[q] = owned[q]
         /\ \A d : Objects(d)' = Objects(d) \ {p}
BY DEF Disown, Objects, Inv, TypeOK

(* The list of t and c becomes list, counted as size.                      *)
ListBecomes(t, c, list, size) ==
  /\ freeList' = [freeList EXCEPT ![t][c] = list]
  /\ freeListSize' = [freeListSize EXCEPT ![t][c] = size]

(* The others stay as they are.                                            *)
ListsOtherwise(t, c, list, size) ==
  /\ freeList' \in [Threads -> [Classes -> SUBSET Nat]]
  /\ freeListSize' \in [Threads -> [Classes -> Nat]]
  /\ freeList'[t][c] = list /\ freeListSize'[t][c] = size
  /\ \A u \in Threads, d \in Classes :
       u # t \/ d # c => /\ freeList'[u][d] = freeList[u][d]
                         /\ freeListSize'[u][d] = freeListSize[u][d]
  /\ \A u \in Threads : u # t => freeList'[u] = freeList[u]

(* That is what EXCEPT says.                                               *)
LEMMA ListChanged ==
  ASSUME Inv, NEW t \in Threads, NEW c \in Classes, NEW list \in SUBSET Nat, NEW size \in Nat,
         ListBecomes(t, c, list, size)
  PROVE  ListsOtherwise(t, c, list, size)
<1>1. /\ DOMAIN freeList = Threads /\ DOMAIN freeListSize = Threads
      /\ \A u \in Threads : /\ freeList[u] \in [Classes -> SUBSET Nat]
                            /\ freeListSize[u] \in [Classes -> Nat]
  BY DEF Inv, TypeOK
<1>2. /\ freeList' = [freeList EXCEPT ![t] = [freeList[t] EXCEPT ![c] = list]]
      /\ freeListSize' = [freeListSize EXCEPT ![t] = [freeListSize[t] EXCEPT ![c] = size]]
  BY DEF ListBecomes
<1> DEFINE f == [freeList[t] EXCEPT ![c] = list]
           g == [freeListSize[t] EXCEPT ![c] = size]
<1>3. /\ f \in [Classes -> SUBSET Nat] /\ f[c] = list
      /\ g \in [Classes -> Nat] /\ g[c] = size
      /\ \A d \in Classes : d # c => f[d] = freeList[t][d] /\ g[d] = freeListSize[t][d]
  BY <1>1
<1>4. freeList' = [freeList EXCEPT ![t] = f] /\ freeListSize' = [freeListSize EXCEPT ![t] = g]
  BY <1>2
<1> HIDE DEF f, g
<1>5. /\ freeList'[t] = f /\ freeListSize'[t] = g
      /\ \A u \in Threads : u # t => freeList'[u] = freeList[u] /\ freeListSize'[u] = freeListSize[u]
  BY <1>1, <1>4
<1>6. /\ freeList' \in [Threads -> [Classes -> SUBSET Nat]]
      /\ freeListSize' \in [Threads -> [Classes -> Nat]]
  BY <1>3, <1>4 DEF Inv, TypeOK
<1> QED BY <1>3, <1>5, <1>6 DEF ListsOtherwise

(* The counters stay exact if this one is.                                 *)
LEMMA SizesKept ==
  ASSUME Inv, NEW t \in Threads, NEW c \in Classes, NEW list \in SUBSET Nat, NEW size \in Nat,
         ListBecomes(t, c, list, size), size = Cardinality(list), size <= MaxCachedBlocks[c]
  PROVE  SizesExact'
<1>0. ListsOtherwise(t, c, list, size)
  BY ListChanged
<1> SUFFICES ASSUME NEW u \in Threads, NEW d \in Classes
             PROVE  /\ freeListSize'[u][d] = Cardinality(freeList'[u][d])
                    /\ freeListSize'[u][d] <= MaxCachedBlocks[d]
  BY DEF SizesExact
<1>1. CASE u = t /\ d = c
  BY <1>0, <1>1 DEF ListsOtherwise
<1>2. CASE u # t \/ d # c
  <2>1. freeList'[u][d] = freeList[u][d] /\ freeListSize'[u][d] = freeListSize[u][d]
    BY <1>0, <1>2 DEF ListsOtherwise
  <2> QED BY <2>1 DEF Inv, SizesExact
<1> QED BY <1>1, <1>2

-----------------------------------------------------------------------------
(* What an action has to show.                                             *)

(* A step of the central cache, or none.                                   *)
PoolStep == Shards!Next \/ UNCHANGED Shards!centralVars

(* It keeps the invariant of the central cache.                            *)
LEMMA ShardsInv ==
  ASSUME Inv, PoolStep
  PROVE  Shards!Inv'
BY Shards!NextInv, Constants DEF Inv, PoolStep, Shards!CentralCacheAssumption

(* Inv holds again if lists and objects hold blocks that were away and of  *)
(* their class.                                                            *)
LEMMA LocalParts ==
  ASSUME Inv, Shards!Inv', Shards!SpansPersist, TypeOK', SizesExact', CallsExact',
         \A t, u \in Threads : \A c, d \in Classes :
           t # u \/ c # d => freeList'[t][c] \cap freeList'[u][d] = {},
         \A t \in Threads : \A c, d \in Classes : freeList'[t][c] \cap Objects(d)' = {},
         \A t \in Threads, c \in Classes : \A b \in freeList'[t][c] : b \in Away /\ OfClass(b, c),
         \A c \in Classes : \A p \in Objects(c)' : p \in Away /\ OfClass(p, c),
         Objects(Large)' = {s * PageBytes : s \in LargeSpans'}
  PROVE  Inv'
<1>1. \A b \in Outside' : b \in Away'
  BY DEF Away
<1>2. \A t \in Threads, c \in Classes : freeList'[t][c] \subseteq Outside'
  BY DEF Outside, OnLists
<1>3. \A c \in Classes : Objects(c)' \subseteq Outside'
  BY DEF Outside
<1>4. Shards!Inv
  BY DEF Inv
<1>5. \A t \in Threads, c \in Classes : \A b \in freeList'[t][c] : OfClass(b, c)'
  BY <1>1, <1>2, <1>4, ClassKept
<1>6. \A c \in Classes : \A p \in Objects(c)' : OfClass(p, c)'
  BY <1>1, <1>3, <1>4, ClassKept
<1>7. OwnedExact'
  BY <1>6 DEF OwnedExact, OfClass
<1>8. LargeApart'
  BY <1>7, LargeStaysApart
<1>9. OnLists' \cap DOMAIN owned' = {}
  <2> SUFFICES ASSUME NEW t \in Threads, NEW c \in Classes,
                      NEW b \in freeList'[t][c], b \in DOMAIN owned'
               PROVE  FALSE
    BY DEF OnLists
  <2>1. PICK d \in Classes \cup {Large} : b \in Objects(d)'
    BY DEF TypeOK, Objects
  <2> QED BY <1>1, <1>2, <1>8, <2>1 DEF LargeApart
<1>10. ListsApart'
  BY <1>5, <1>9 DEF ListsApart, OfClass
<1> QED BY <1>7, <1>10 DEF Inv

(* Or if lists and objects have not changed.                               *)
LEMMA UnchangedParts ==
  ASSUME Inv, Shards!Inv', Shards!SpansPersist, LargeSpans' = LargeSpans, CallsExact',
         UNCHANGED <<freeList, freeListSize, phase, owned>>
  PROVE  Inv'
<1>1. TypeOK' /\ SizesExact'
  BY DEF Inv, TypeOK, SizesExact
<1>2. \A d : Objects(d)' = Objects(d)
  BY DEF Objects
<1>3. \A t \in Threads : \A c, d \in Classes : freeList'[t][c] \cap Objects(d)' = {}
  BY <1>2 DEF Inv, ListsApart, OnLists, Objects
<1>4. \A t, u \in Threads : \A c, d \in Classes :
        t # u \/ c # d => freeList'[t][c] \cap freeList'[u][d] = {}
  BY DEF Inv, ListsApart
<1>5. \A t \in Threads, c \in Classes : \A b \in freeList'[t][c] : b \in Away /\ OfClass(b, c)
  BY ListFacts
<1>6. \A c \in Classes : \A p \in Objects(c)' : p \in Away /\ OfClass(p, c)
  BY <1>2, ObjectFacts
<1>7. Objects(Large)' = {s * PageBytes : s \in LargeSpans'}
  BY <1>2 DEF Inv, OwnedExact
<1> QED BY <1>1, <1>3, <1>4, <1>5, <1>6, <1>7, LocalParts

(* Of the calls only one thread's has to be shown.                         *)
LEMMA OneCall ==
  ASSUME Inv, NEW t \in Threads, CallExact(t)',
         \A u \in Threads : u # t => call'[u] = call[u] /\ freeList'[u] = freeList[u] /\ phase'[u] = phase[u]
  PROVE  CallsExact'
BY DEF Inv, CallsExact, CallExact

(* Nothing has happened to the central cache.                              *)
LEMMA PoolKept ==
  ASSUME Inv, UNCHANGED poolVars, Outside' = Outside
  PROVE  PoolStep /\ Shards!Inv' /\ Shards!SpansPersist /\ LargeSpans' = LargeSpans
<1>1. PoolStep
  BY DEF poolVars, Shards!centralVars, PoolStep
<1>2. Shards!SpansPersist /\ LargeSpans' = LargeSpans
  BY DEF poolVars, Shards!SpansPersist, LargeSpans
<1> QED BY <1>1, <1>2, ShardsInv

(* A thread that is not inside the central cache and has not ended.        *)
LEMMA RunningFacts ==
  ASSUME Inv, NEW t \in Threads, Running(t)
  PROVE  /\ phase[t] = "up" /\ call[t] = Central!Idle /\ call[t].op = "none" /\ call[t].chain = {}
         /\ DOMAIN call = Threads /\ DOMAIN phase = Threads
BY DEF Running, Central!Idle, Inv, TypeOK, Shards!Inv, Shards!TypeOK

-----------------------------------------------------------------------------
(* The actions.                                                            *)

(* A block moves from a list to the program.                               *)
LEMMA AllocateCachedInv ==
  ASSUME Inv, NEW t \in Threads, NEW c \in Classes, AllocateCached(t, c)
  PROVE  Inv' /\ PoolStep
<1>1. PICK p \in freeList[t][c] :
        /\ Running(t)
        /\ freeList' = [freeList EXCEPT ![t][c] = Pop(@, p)]
        /\ freeListSize' = [freeListSize EXCEPT ![t][c] = @ - 1]
        /\ Own(p, c)
        /\ UNCHANGED phase
        /\ UNCHANGED poolVars
  BY DEF AllocateCached
<1>2. p \in OnLists /\ p \notin DOMAIN owned /\ p \in Away /\ OfClass(p, c)
  BY ListFacts DEF OnLists, Inv, ListsApart
<1>3. PICK list \in SUBSET Nat, size \in Nat :
        /\ list = freeList[t][c] \ {p} /\ size = freeListSize[t][c] - 1
        /\ size = Cardinality(list) /\ size <= MaxCachedBlocks[c]
  <2>1. /\ IsFiniteSet(freeList[t][c]) /\ freeListSize[t][c] = Cardinality(freeList[t][c])
        /\ freeListSize[t][c] <= MaxCachedBlocks[c] /\ MaxCachedBlocks[c] \in Nat
        /\ freeListSize[t][c] \in Nat
    BY ListFacts
  <2>2. /\ IsFiniteSet(freeList[t][c] \ {p})
        /\ Cardinality(freeList[t][c] \ {p}) = freeListSize[t][c] - 1
    BY <2>1, FS_RemoveElement
  <2>3. Cardinality(freeList[t][c] \ {p}) \in Nat
    BY <2>2, FS_CardinalityType
  <2>4. freeList[t][c] \ {p} \in SUBSET Nat
    BY DEF Inv, TypeOK
  <2> QED BY <2>1, <2>2, <2>3, <2>4
<1>5. ListBecomes(t, c, list, size)
  BY <1>1, <1>3 DEF Pop, ListBecomes
<1>6. ListsOtherwise(t, c, list, size)
  BY <1>5, ListChanged
<1>7. /\ owned' \in [DOMAIN owned' -> Classes \cup {Large}]
      /\ \A d : Objects(d)' = Objects(d) \cup (IF d = c THEN {p} ELSE {})
  BY <1>1, <1>2, OwnFresh
<1>8. \A u \in Threads, d \in Classes :
        freeList'[u][d] = freeList[u][d] \ {p}
  BY <1>3, <1>6 DEF Inv, ListsApart, ListsOtherwise
<1>9. Outside' = Outside
  <2>1. OnLists' = OnLists \ {p}
    BY <1>8 DEF OnLists
  <2>2. (UNION {Objects(d) : d \in Classes})' = (UNION {Objects(d) : d \in Classes}) \cup {p}
    BY <1>7
  <2> QED BY <1>2, <2>1, <2>2 DEF Outside
<1>10. PoolStep /\ Shards!Inv' /\ Shards!SpansPersist /\ LargeSpans' = LargeSpans
  BY <1>1, <1>9, PoolKept
<1>11. TypeOK'
  BY <1>1, <1>6, <1>7 DEF Inv, TypeOK, ListsOtherwise
<1>12. SizesExact'
  BY <1>3, <1>5, SizesKept
<1>13. CallsExact'
  <2>1. \A u \in Threads : u # t => freeList'[u] = freeList[u]
    BY <1>6 DEF ListsOtherwise
  <2> QED BY <1>1, <2>1, RunningFacts, OneCall DEF CallExact, poolVars
<1>14. \A u, v \in Threads : \A d, e \in Classes :
         u # v \/ d # e => freeList'[u][d] \cap freeList'[v][e] = {}
  BY <1>8 DEF Inv, ListsApart
<1>15. \A u \in Threads : \A d, e \in Classes : freeList'[u][d] \cap Objects(e)' = {}
  <2>1. \A u \in Threads : \A d, e \in Classes : freeList[u][d] \cap Objects(e) = {}
    BY DEF Inv, ListsApart, OnLists, Objects
  <2> QED BY <1>7, <1>8, <2>1
<1>16. \A u \in Threads, d \in Classes : \A b \in freeList'[u][d] : b \in Away /\ OfClass(b, d)
  BY <1>8, ListFacts
<1>17. \A d \in Classes : \A q \in Objects(d)' : q \in Away /\ OfClass(q, d)
  BY <1>2, <1>7, ObjectFacts
<1>18. Objects(Large)' = {s * PageBytes : s \in LargeSpans'}
  <2>1. c # Large
    BY Constants DEF Large, Classes, Shards!CentralCacheAssumption
  <2> QED BY <1>7, <1>10, <2>1 DEF Inv, OwnedExact
<1> QED BY <1>10, <1>11, <1>12, <1>13, <1>14, <1>15, <1>16, <1>17, <1>18, LocalParts

(* A thread turns to the central cache.                                    *)
LEMMA FetchInv ==
  ASSUME Inv, NEW t \in Threads, NEW c \in Classes, fetchFromCentralCache(t, c)
  PROVE  Inv' /\ PoolStep
<1>1. /\ Running(t) /\ freeList[t][c] = {} /\ UNCHANGED localVars
      /\ Shards!FetchCall(t, c)
  BY SameCalls DEF fetchFromCentralCache
<1>2. /\ call' = [call EXCEPT ![t] = [op |-> "fetchLock", class |-> c, chain |-> {}]]
      /\ UNCHANGED <<live, spans, partial, lock, Outside>>
  BY <1>1 DEF Shards!FetchCall
<1>3. PoolStep /\ Shards!Inv'
  <2>1. Shards!Next
    BY <1>1 DEF Shards!Next, Classes, Shards!Classes
  <2> QED BY <2>1, ShardsInv DEF PoolStep
<1>4. Shards!SpansPersist /\ LargeSpans' = LargeSpans
  BY <1>2 DEF Shards!SpansPersist, LargeSpans
<1>5. UNCHANGED <<freeList, freeListSize, phase, owned>>
  BY <1>1 DEF localVars
<1>6. CallsExact'
  <2>1. /\ \A u \in Threads : u # t => call'[u] = call[u]
        /\ call'[t] = [op |-> "fetchLock", class |-> c, chain |-> {}]
    BY <1>1, <1>2, RunningFacts
  <2>2. IsFiniteSet({}) /\ Cardinality({}) = 0 /\ 0 <= BatchNum[c]
    BY FS_EmptySet, Constants DEF Shards!CentralCacheAssumption, Shards!Classes, Classes
  <2>3. CallExact(t)'
    BY <1>1, <1>5, <2>1, <2>2, RunningFacts DEF CallExact
  <2> QED BY <1>5, <2>1, <2>3, OneCall
<1> QED BY <1>3, <1>4, <1>5, <1>6, UnchangedParts

(* A thread goes on inside the central cache.                              *)
LEMMA CallStep ==
  ASSUME Inv, NEW t \in Threads, CentralStep(t)
  PROVE  CallsExact'
<1> DEFINE c == call[t].class
<1>1. UNCHANGED <<freeList, freeListSize, phase, owned>>
  BY DEF CentralStep, localVars
<1>2. call \in [Threads -> [op : Shards!Ops, class : Shards!Classes, chain : SUBSET Shards!Bytes]]
  BY DEF Inv, Shards!Inv, Shards!TypeOK
<1>3. CallExact(t)
  BY DEF Inv, CallsExact
<1>4. call[t].op # "none"
  BY DEF CentralStep, Central!FetchAcquire, Central!CreateSpan, Central!TakeBlock, Central!Fetching,
         Central!FetchThrows, Central!ReturnAcquire, Central!ReturnBlock, Central!ReturnThrows,
         Central!ReturnEnd
<1>5. phase[t] # "down"
  BY <1>3, <1>4 DEF CallExact, Central!Idle
<1>6. ASSUME NEW op, call' = [call EXCEPT ![t].op = op],
             op = "fetch" => call[t].op = "fetchLock", op \in {"fetch", "return"}
      PROVE  CallsExact'
  <2>1. /\ call'[t].op = op /\ call'[t].class = c /\ call'[t].chain = call[t].chain
        /\ \A u \in Threads : u # t => call'[u] = call[u]
    BY <1>2, <1>6
  <2>2. CallExact(t)'
    BY <1>1, <1>3, <1>5, <1>6, <2>1 DEF CallExact
  <2> QED BY <1>1, <2>1, <2>2, OneCall
<1>7. CASE Central!FetchAcquire(t)
  BY <1>6, <1>7 DEF Central!FetchAcquire, Central!Acquire
<1>8. CASE Central!ReturnAcquire(t)
  BY <1>6, <1>8 DEF Central!ReturnAcquire, Central!Acquire
<1>9. CASE Central!CreateSpan(t)
  <2>1. UNCHANGED call
    BY <1>9 DEF Central!CreateSpan
  <2> QED BY <1>1, <2>1 DEF Inv, CallsExact, CallExact
<1>10. CASE Central!TakeBlock(t)
  <2>1. PICK b : call' = [call EXCEPT ![t].chain = @ \cup {b}]
    BY <1>10 DEF Central!TakeBlock
  <2>2. /\ call'[t].op = call[t].op /\ call'[t].class = c
        /\ call'[t].chain = call[t].chain \cup {b}
        /\ \A u \in Threads : u # t => call'[u] = call[u]
    BY <1>2, <2>1
  <2>3. call[t].op = "fetch" /\ Cardinality(call[t].chain) < BatchNum[c]
    BY <1>10, SameCardinality DEF Central!TakeBlock, Central!Fetching
  <2>4. IsFiniteSet(call[t].chain)
    BY <1>3, <2>3 DEF CallExact
  <2>5. c \in Classes /\ BatchNum[c] \in Nat
    BY <1>2, Constants DEF Shards!Classes, Classes, Shards!CentralCacheAssumption
  <2> HIDE DEF c
  <2>6. /\ IsFiniteSet(call[t].chain \cup {b})
        /\ Cardinality(call[t].chain \cup {b}) <= BatchNum[c]
    <3>1. /\ IsFiniteSet(call[t].chain \cup {b})
          /\ \/ Cardinality(call[t].chain \cup {b}) = Cardinality(call[t].chain)
             \/ Cardinality(call[t].chain \cup {b}) = Cardinality(call[t].chain) + 1
      BY <2>4, FS_AddElement
    <3>2. Cardinality(call[t].chain) \in Nat
      BY <2>4, FS_CardinalityType
    <3> QED BY <2>3, <2>5, <3>1, <3>2
  <2>7. CallExact(t)'
    BY <1>1, <1>3, <1>5, <2>2, <2>3, <2>6 DEF CallExact, c
  <2> QED BY <1>1, <2>2, <2>7, OneCall
<1>11. CASE Central!ReturnBlock(t)
  <2>1. PICK b : call' = [call EXCEPT ![t].chain = @ \ {b}]
    BY <1>11 DEF Central!ReturnBlock
  <2>2. /\ call'[t].op = call[t].op
        /\ \A u \in Threads : u # t => call'[u] = call[u]
    BY <1>2, <2>1
  <2>3. call[t].op = "return"
    BY <1>11 DEF Central!ReturnBlock
  <2>4. CallExact(t)'
    BY <1>1, <1>5, <2>2, <2>3 DEF CallExact
  <2> QED BY <1>1, <2>2, <2>4, OneCall
<1>12. CASE Central!FetchThrows(t) \/ Central!ReturnThrows(t) \/ Central!ReturnEnd(t)
  <2>1. /\ call'[t].op = "none"
        /\ \A u \in Threads : u # t => call'[u] = call[u]
    BY <1>2, <1>12
    DEF Central!FetchThrows, Central!ReturnThrows, Central!ReturnEnd, Central!Idle
  <2>2. CallExact(t)'
    BY <1>1, <1>5, <2>1 DEF CallExact
  <2> QED BY <1>1, <2>1, <2>2, OneCall
<1> QED BY <1>7, <1>8, <1>9, <1>10, <1>11, <1>12 DEF CentralStep

(* The two ways to name the spans of large objects.                        *)
LEMMA SameLargeSpans == LargeSpans = Shards!LargeSpans /\ LargeSpans' = Shards!LargeSpans'
BY DEF LargeSpans, Shards!LargeSpans, Large, Shards!Large

(* Lists and objects do not see what happens inside.                       *)
LEMMA CentralStepInv ==
  ASSUME Inv, NEW t \in Threads, CentralStep(t)
  PROVE  Inv' /\ PoolStep
<1>1. Shards!Step(t)
  BY SameSteps
<1>2. PoolStep /\ Shards!Inv'
  <2>1. Shards!Next
    BY <1>1 DEF Shards!Next
  <2> QED BY <2>1, ShardsInv DEF PoolStep
<1>3. Shards!SpansPersist /\ LargeSpans' = LargeSpans
  <2>1. Shards!Inv
    BY DEF Inv
  <2>2. Shards!SpansPersist /\ Shards!LargeSpans' = Shards!LargeSpans
    BY <1>1, <2>1, Shards!StepPersists, Constants DEF Shards!CentralCacheAssumption
  <2> QED BY <2>2, SameLargeSpans
<1>4. UNCHANGED <<freeList, freeListSize, phase, owned>>
  BY DEF CentralStep, localVars
<1> QED BY <1>2, <1>3, <1>4, CallStep, UnchangedParts

(* A block that has just been fetched is not the program's.                *)
LEMMA FetchedIsFresh ==
  ASSUME Inv, NEW t \in Threads, NEW p \in call[t].chain
  PROVE  p \notin DOMAIN owned
<1>1. p \in Shards!InTransit
  BY DEF Shards!InTransit
<1>2. p \notin Outside /\ p \in Away
  BY <1>1 DEF Inv, Shards!Inv, Shards!BlocksConserved, Away
<1>3. \A d \in Classes : p \notin Objects(d)
  BY <1>2 DEF Outside
<1>4. p \notin Objects(Large)
  BY <1>2, LargeIsApart DEF LargeApart, Inv
<1> QED BY <1>3, <1>4 DEF Inv, TypeOK, Objects

(* fetchRange has returned: one block is the program's, the others make    *)
(* the list.                                                               *)
LEMMA FetchReturnsInv ==
  ASSUME Inv, NEW t \in Threads, FetchReturns(t)
  PROVE  Inv' /\ PoolStep
<1>1. PICK c, got : c = call[t].class /\ got = call[t].chain
  OBVIOUS
<1>2. /\ \/ got = {} /\ UNCHANGED localVars
         \/ \E p \in got :
              /\ freeList' = [freeList EXCEPT ![t][c] = got \ {p}]
              /\ freeListSize' = [freeListSize EXCEPT ![t][c] = SizeAfterFetch(@, got)]
              /\ Own(p, c)
              /\ UNCHANGED phase
      /\ Central!FetchEnd(t)
  BY <1>1 DEF FetchReturns
<1>3. /\ call[t].op = "fetch" /\ call' = [call EXCEPT ![t] = Central!Idle]
      /\ UNCHANGED <<live, spans, partial>>
  BY <1>2 DEF Central!FetchEnd
<1>4. /\ DOMAIN call = Threads /\ c \in Classes
      /\ got \subseteq Shards!InTransit /\ got \subseteq Shards!Bytes
      /\ got \cap Outside = {}
      /\ \A b \in got : OfClass(b, c) /\ b \in Away
  <2>1. DOMAIN call = Threads /\ c \in Classes /\ got \subseteq Shards!Bytes
    BY <1>1 DEF Inv, Shards!Inv, Shards!TypeOK, Shards!Classes, Classes
  <2>2. got \subseteq Shards!InTransit
    BY <1>1 DEF Shards!InTransit
  <2>3. got \cap Outside = {}
    BY <2>2 DEF Inv, Shards!Inv, Shards!BlocksConserved
  <2>4. \A b \in got : \E s \in Shards!findSpan(b) : spans[s].sizeClass = c
    BY <1>1 DEF Inv, Shards!Inv, Shards!LockExact
  <2> QED BY <2>1, <2>2, <2>3, <2>4, SameSpan DEF OfClass, Away
<1>5. PoolStep /\ Shards!Inv'
  <2>1. Shards!Next
    BY <1>2, SameSteps DEF Shards!Next
  <2> QED BY <2>1, ShardsInv DEF PoolStep
<1>6. Shards!SpansPersist /\ LargeSpans' = LargeSpans
  BY <1>3 DEF Shards!SpansPersist, LargeSpans
<1>7. CallExact(t)
  BY DEF Inv, CallsExact
<1>8. /\ phase[t] = "up" /\ freeList[t][c] = {}
      /\ IsFiniteSet(got) /\ Cardinality(got) <= BatchNum[c]
  BY <1>1, <1>3, <1>7 DEF CallExact
<1>9. /\ call'[t].op = "none"
      /\ \A u \in Threads : u # t => call'[u] = call[u]
  BY <1>3, <1>4 DEF Central!Idle
<1>10. CASE got = {} /\ UNCHANGED localVars
  <2>1. UNCHANGED <<freeList, freeListSize, phase, owned>>
    BY <1>10 DEF localVars
  <2>2. CallExact(t)'
    BY <1>8, <1>9, <2>1 DEF CallExact
  <2>3. CallsExact'
    BY <1>9, <2>1, <2>2, OneCall
  <2> QED BY <1>5, <1>6, <2>1, <2>3, UnchangedParts
<1>11. ASSUME NEW p \in got,
              freeList' = [freeList EXCEPT ![t][c] = got \ {p}],
              freeListSize' = [freeListSize EXCEPT ![t][c] = SizeAfterFetch(@, got)],
              Own(p, c), UNCHANGED phase
       PROVE  Inv'
  <2>1. p \notin DOMAIN owned
    BY <1>1, FetchedIsFresh
  <2>2. PICK list \in SUBSET Nat, size \in Nat :
          /\ list = got \ {p} /\ size = SizeAfterFetch(freeListSize[t][c], got)
          /\ size = Cardinality(list) /\ size <= MaxCachedBlocks[c]
    <3>1. IsFiniteSet(got \ {p}) /\ Cardinality(got \ {p}) = Cardinality(got) - 1
      BY <1>8, <1>11, FS_RemoveElement
    <3>2. Cardinality(got) \in Nat /\ Cardinality(got \ {p}) \in Nat
      BY <1>8, <3>1, FS_CardinalityType
    <3>3. freeListSize[t][c] = 0
      BY <1>4, <1>8, FS_EmptySet DEF Inv, SizesExact
    <3>4. got \ {p} \in SUBSET Nat
      BY <1>4 DEF Shards!Bytes
    <3>5. BatchNum[c] <= MaxCachedBlocks[c] /\ BatchNum[c] \in Nat /\ MaxCachedBlocks[c] \in Nat
      BY <1>4, Constants, ThreadCacheAssumption
      DEF Shards!CentralCacheAssumption, Shards!Classes, Classes
    <3> QED BY <1>8, <3>1, <3>2, <3>3, <3>4, <3>5 DEF SizeAfterFetch
  <2>3. ListBecomes(t, c, list, size)
    BY <1>11, <2>2 DEF ListBecomes
  <2>4. ListsOtherwise(t, c, list, size)
    BY <1>4, <2>3, ListChanged
  <2>5. /\ owned' \in [DOMAIN owned' -> Classes \cup {Large}]
        /\ \A d : Objects(d)' = Objects(d) \cup (IF d = c THEN {p} ELSE {})
    BY <1>4, <1>11, <2>1, OwnFresh
  <2>6. TypeOK'
    BY <1>11, <2>4, <2>5 DEF Inv, TypeOK, ListsOtherwise
  <2>7. SizesExact'
    BY <1>4, <2>2, <2>3, SizesKept
  <2>8. CallsExact'
    <3>1. \A u \in Threads : u # t => freeList'[u] = freeList[u]
      BY <2>4 DEF ListsOtherwise
    <3>2. CallExact(t)'
      BY <1>8, <1>9, <1>11 DEF CallExact
    <3> QED BY <1>9, <1>11, <3>1, <3>2, OneCall
  <2>9. \A u \in Threads, d \in Classes :
          freeList'[u][d] = IF u = t /\ d = c THEN got \ {p} ELSE freeList[u][d]
    BY <2>2, <2>4 DEF ListsOtherwise
  <2>10. \A u \in Threads, d \in Classes : freeList[u][d] \subseteq Outside
    BY ListFacts
  <2>11. \A u, v \in Threads : \A d, e \in Classes :
           u # v \/ d # e => freeList'[u][d] \cap freeList'[v][e] = {}
    BY <1>4, <2>9, <2>10 DEF Inv, ListsApart
  <2>12. \A u \in Threads : \A d, e \in Classes : freeList'[u][d] \cap Objects(e)' = {}
    <3>1. \A u \in Threads : \A d, e \in Classes : freeList[u][d] \cap Objects(e) = {}
      BY DEF Inv, ListsApart, OnLists, Objects
    <3>2. \A e \in Classes : Objects(e) \subseteq Outside
      BY DEF Outside
    <3> QED BY <1>4, <2>5, <2>9, <2>10, <3>1, <3>2
  <2>13. \A u \in Threads, d \in Classes : \A b \in freeList'[u][d] : b \in Away /\ OfClass(b, d)
    BY <1>4, <2>9, ListFacts
  <2>14. \A d \in Classes : \A q \in Objects(d)' : q \in Away /\ OfClass(q, d)
    BY <1>4, <2>5, ObjectFacts
  <2>15. Objects(Large)' = {s * PageBytes : s \in LargeSpans'}
    <3>1. c # Large
      BY <1>4, Constants DEF Large, Classes, Shards!CentralCacheAssumption
    <3> QED BY <1>6, <2>5, <3>1 DEF Inv, OwnedExact
  <2> QED BY <1>5, <1>6, <2>6, <2>7, <2>8, <2>11, <2>12, <2>13, <2>14, <2>15, LocalParts
<1> QED BY <1>2, <1>5, <1>10, <1>11

(* A large object is new memory.                                           *)
LEMMA LargeIsFresh ==
  ASSUME Inv, NEW n \in LargePages, NEW s \in Pages, Shards!AllocLargeSpan(n, s)
  PROVE  s * PageBytes \notin DOMAIN owned
<1>1. Central!findSpan(s * PageBytes) = {}
  <2>1. Shards!Inv
    BY DEF Inv
  <2>2. n \in Nat \ {0} /\ s \in Shards!Pages
    BY Constants DEF Shards!CentralCacheAssumption, Pages, Shards!Pages
  <2>3. Shards!PageLevel!Alloc(n, s)
    BY DEF Shards!AllocLargeSpan
  <2> QED BY <2>1, <2>2, <2>3, SameSpan, Shards!NewSpanByte, Constants
          DEF Shards!FirstByte, Shards!CentralCacheAssumption
<1>2. \A c \in Classes : s * PageBytes \notin Objects(c)
  BY <1>1 DEF Inv, OwnedExact
<1>3. s * PageBytes \notin Objects(Large)
  <2> SUFFICES ASSUME NEW r \in LargeSpans, s * PageBytes = r * PageBytes
               PROVE  FALSE
    BY DEF Inv, OwnedExact
  <2>1. r \in DOMAIN spans /\ Shards!Inv
    BY DEF LargeSpans, Inv
  <2>2. Central!findSpan(r * PageBytes) = {r}
    BY <2>1, SameSpan, Shards!SpanBytes, Constants
    DEF Shards!FirstByte, Shards!CentralCacheAssumption
  <2> QED BY <1>1, <2>2
<1> QED BY <1>2, <1>3 DEF Inv, TypeOK, Objects

(* A large object gets a span of its own.                                  *)
LEMMA AllocateLargeInv ==
  ASSUME Inv, NEW t \in Threads, NEW n \in LargePages, AllocateLarge(t, n)
  PROVE  Inv' /\ PoolStep
<1>1. PICK s \in Pages :
        /\ Running(t)
        /\ Own(s * PageBytes, Large)
        /\ UNCHANGED <<freeList, freeListSize, phase>>
        /\ Shards!AllocLargeSpan(n, s)
  BY SameLarge DEF AllocateLarge
<1>2. UNCHANGED call
  BY <1>1 DEF Shards!AllocLargeSpan
<1>3. PoolStep /\ Shards!Inv'
  <2>1. Shards!Next
    BY <1>1 DEF Shards!Next, Pages, Shards!Pages
  <2> QED BY <2>1, ShardsInv DEF PoolStep
<1>4. Shards!SpansPersist /\ LargeSpans' = LargeSpans \cup {s}
  <2>1. Shards!Inv /\ s \in Shards!Pages
    BY DEF Inv, Pages, Shards!Pages
  <2>2. Shards!SpansPersist /\ Shards!LargeSpans' = Shards!LargeSpans \cup {s}
    BY <1>1, <2>1, Shards!AllocLargePersists, Constants DEF Shards!CentralCacheAssumption
  <2> QED BY <2>2, SameLargeSpans
<1>5. PICK p : p = s * PageBytes
  OBVIOUS
<1>6. /\ owned' \in [DOMAIN owned' -> Classes \cup {Large}]
      /\ \A d : Objects(d)' = Objects(d) \cup (IF d = Large THEN {p} ELSE {})
  <2>1. p \notin DOMAIN owned
    BY <1>1, <1>5, LargeIsFresh
  <2>2. Own(p, Large)
    BY <1>1, <1>5
  <2> QED BY <2>1, <2>2, OwnFresh
<1>7. \A d \in Classes : Objects(d)' = Objects(d)
  <2>1. Large \notin Classes
    BY Constants DEF Large, Classes, Shards!CentralCacheAssumption
  <2> QED BY <1>6, <2>1
<1>8. TypeOK' /\ SizesExact'
  BY <1>1, <1>6 DEF Inv, TypeOK, SizesExact
<1>9. CallsExact'
  BY <1>1, <1>2 DEF Inv, CallsExact, CallExact
<1>10. \A u, v \in Threads : \A d, e \in Classes :
         u # v \/ d # e => freeList'[u][d] \cap freeList'[v][e] = {}
  BY <1>1 DEF Inv, ListsApart
<1>11. \A u \in Threads : \A d, e \in Classes : freeList'[u][d] \cap Objects(e)' = {}
  <2>1. \A u \in Threads : \A d, e \in Classes : freeList[u][d] \cap Objects(e) = {}
    BY DEF Inv, ListsApart, OnLists, Objects
  <2> QED BY <1>1, <1>7, <2>1
<1>12. \A u \in Threads, d \in Classes : \A b \in freeList'[u][d] : b \in Away /\ OfClass(b, d)
  BY <1>1, ListFacts
<1>13. \A d \in Classes : \A q \in Objects(d)' : q \in Away /\ OfClass(q, d)
  BY <1>7, ObjectFacts
<1>14. Objects(Large)' = {r * PageBytes : r \in LargeSpans'}
  BY <1>4, <1>5, <1>6 DEF Inv, OwnedExact
<1> QED BY <1>3, <1>4, <1>8, <1>9, <1>10, <1>11, <1>12, <1>13, <1>14, LocalParts

(* A large object gives its span back.                                     *)
LEMMA deallocateLargeInv ==
  ASSUME Inv, NEW t \in Threads, NEW p \in DOMAIN owned, deallocateLarge(t, p)
  PROVE  Inv' /\ PoolStep
<1>1. PICK s \in Central!findSpan(p) :
        /\ Running(t) /\ owned[p] = Large /\ Disown(p)
        /\ UNCHANGED <<freeList, freeListSize, phase>>
        /\ Shards!FreeLargeSpan(s)
  BY SameLarge DEF deallocateLarge
<1>2. UNCHANGED call /\ s \in DOMAIN spans
  BY <1>1 DEF Shards!FreeLargeSpan
<1>3. p = s * PageBytes
  <2>1. PICK r \in LargeSpans : p = r * PageBytes
    BY <1>1 DEF Inv, OwnedExact, Objects
  <2>2. r \in DOMAIN spans /\ Shards!Inv
    BY DEF LargeSpans, Inv
  <2>3. Central!findSpan(p) = {r}
    BY <2>1, <2>2, SameSpan, Shards!SpanBytes, Constants
    DEF Shards!FirstByte, Shards!CentralCacheAssumption
  <2> QED BY <1>1, <2>1, <2>3
<1>4. PoolStep /\ Shards!Inv'
  <2>1. Shards!Next
    BY <1>1, <1>2 DEF Shards!Next
  <2> QED BY <2>1, ShardsInv DEF PoolStep
<1>5. Shards!SpansPersist /\ LargeSpans' = LargeSpans \ {s}
  <2>1. Shards!Inv
    BY DEF Inv
  <2>2. Shards!SpansPersist /\ Shards!LargeSpans' = Shards!LargeSpans \ {s}
    BY <1>1, <1>2, <2>1, Shards!FreeLargePersists, Constants DEF Shards!CentralCacheAssumption
  <2> QED BY <2>2, SameLargeSpans
<1>6. /\ owned' \in [DOMAIN owned' -> Classes \cup {Large}]
      /\ \A d : Objects(d)' = Objects(d) \ {p}
  BY <1>1, Disowned
<1>7. \A d \in Classes : Objects(d)' = Objects(d)
  <2>1. Large \notin Classes
    BY Constants DEF Large, Classes, Shards!CentralCacheAssumption
  <2>2. \A d \in Classes : p \notin Objects(d)
    BY <1>1, <2>1 DEF Objects
  <2> QED BY <1>6, <2>2
<1>8. TypeOK' /\ SizesExact'
  BY <1>1, <1>6 DEF Inv, TypeOK, SizesExact
<1>9. CallsExact'
  BY <1>1, <1>2 DEF Inv, CallsExact, CallExact
<1>10. \A u, v \in Threads : \A d, e \in Classes :
         u # v \/ d # e => freeList'[u][d] \cap freeList'[v][e] = {}
  BY <1>1 DEF Inv, ListsApart
<1>11. \A u \in Threads : \A d, e \in Classes : freeList'[u][d] \cap Objects(e)' = {}
  <2>1. \A u \in Threads : \A d, e \in Classes : freeList[u][d] \cap Objects(e) = {}
    BY DEF Inv, ListsApart, OnLists, Objects
  <2> QED BY <1>1, <1>7, <2>1
<1>12. \A u \in Threads, d \in Classes : \A b \in freeList'[u][d] : b \in Away /\ OfClass(b, d)
  BY <1>1, ListFacts
<1>13. \A d \in Classes : \A q \in Objects(d)' : q \in Away /\ OfClass(q, d)
  BY <1>7, ObjectFacts
<1>14. Objects(Large)' = {r * PageBytes : r \in LargeSpans'}
  <2>1. \A r \in LargeSpans : r # s => r * PageBytes # p
    <3> SUFFICES ASSUME NEW r \in LargeSpans, r * PageBytes = p
                 PROVE  r = s
      OBVIOUS
    <3>1. r \in DOMAIN spans /\ Shards!Inv
      BY DEF LargeSpans, Inv
    <3>2. Central!findSpan(p) = {r}
      BY <3>1, SameSpan, Shards!SpanBytes, Constants
      DEF Shards!FirstByte, Shards!CentralCacheAssumption
    <3> QED BY <1>1, <3>2
  <2>2. Objects(Large) = {r * PageBytes : r \in LargeSpans}
    BY DEF Inv, OwnedExact
  <2> QED BY <1>3, <1>5, <1>6, <2>1, <2>2
<1> QED BY <1>4, <1>5, <1>8, <1>9, <1>10, <1>11, <1>12, <1>13, <1>14, LocalParts

(* Blocks the program gives up may join a list of their class, and blocks  *)
(* may leave it.                                                           *)
LEMMA ListShifts ==
  ASSUME Inv, Shards!Inv', Shards!SpansPersist, LargeSpans' = LargeSpans,
         NEW t \in Threads, NEW c \in Classes, NEW list \in SUBSET Nat, NEW size \in Nat,
         ListBecomes(t, c, list, size), size = Cardinality(list), size <= MaxCachedBlocks[c],
         owned' \in [DOMAIN owned' -> Classes \cup {Large}],
         \A d : Objects(d)' \subseteq Objects(d), Objects(Large)' = Objects(Large),
         list \subseteq freeList[t][c] \cup (Objects(c) \ Objects(c)'),
         UNCHANGED phase, CallExact(t)', \A u \in Threads : u # t => call'[u] = call[u]
  PROVE  Inv'
<1>1. ListsOtherwise(t, c, list, size)
  BY ListChanged
<1>2. TypeOK'
  BY <1>1 DEF Inv, TypeOK, ListsOtherwise
<1>3. SizesExact'
  BY SizesKept
<1>4. CallsExact'
  <2>1. \A u \in Threads : u # t => freeList'[u] = freeList[u]
    BY <1>1 DEF ListsOtherwise
  <2> QED BY <2>1, OneCall
<1>5. \A u \in Threads, d \in Classes :
        freeList'[u][d] = IF u = t /\ d = c THEN list ELSE freeList[u][d]
  BY <1>1 DEF ListsOtherwise
<1>6. /\ \A u \in Threads, d \in Classes : \A e \in Classes : freeList[u][d] \cap Objects(e) = {}
      /\ \A u, v \in Threads : \A d, e \in Classes :
           u # v \/ d # e => freeList[u][d] \cap freeList[v][e] = {}
      /\ \A d, e \in Classes : d # e => Objects(d) \cap Objects(e) = {}
  BY DEF Inv, ListsApart, OnLists, Objects
<1>7. \A u, v \in Threads : \A d, e \in Classes :
        u # v \/ d # e => freeList'[u][d] \cap freeList'[v][e] = {}
  BY <1>5, <1>6
<1>8. \A u \in Threads : \A d, e \in Classes : freeList'[u][d] \cap Objects(e)' = {}
  BY <1>5, <1>6
<1>9. \A u \in Threads, d \in Classes : \A b \in freeList'[u][d] : b \in Away /\ OfClass(b, d)
  BY <1>5, ListFacts, ObjectFacts
<1>10. \A d \in Classes : \A q \in Objects(d)' : q \in Away /\ OfClass(q, d)
  BY ObjectFacts
<1>11. Objects(Large)' = {s * PageBytes : s \in LargeSpans'}
  BY DEF Inv, OwnedExact
<1> QED BY <1>2, <1>3, <1>4, <1>7, <1>8, <1>9, <1>10, <1>11, LocalParts

(* What the list keeps when it is too long.                                *)
LEMMA KeepNumFacts ==
  ASSUME NEW c \in Classes, NEW size \in Nat
  PROVE  /\ KeepNum(c, size) \in Nat /\ KeepNum(c, size) <= MaxCachedBlocks[c]
         /\ size > MaxCachedBlocks[c] => KeepNum(c, size) < size
<1>1. MaxCachedBlocks[c] \in Nat /\ size \div 2 \in Nat
  BY ThreadCacheAssumption
<1>2. PICK half \in Nat : half = size \div 2
  BY <1>1
<1>3. PICK most \in Nat : most = Max({half, 1})
  <2>1. \E x \in {half, 1} : \A y \in {half, 1} : x >= y
    BY <1>2
  <2>2. Max({half, 1}) \in {half, 1}
    BY <2>1 DEF Max
  <2> QED BY <1>2, <2>2
<1>4. LET m == Min({most, MaxCachedBlocks[c]}) IN m \in Nat /\ m <= MaxCachedBlocks[c]
  <2>1. \E x \in {most, MaxCachedBlocks[c]} : \A y \in {most, MaxCachedBlocks[c]} : x <= y
    BY <1>1, <1>3
  <2>2. LET m == Min({most, MaxCachedBlocks[c]})
        IN  m \in {most, MaxCachedBlocks[c]} /\ \A y \in {most, MaxCachedBlocks[c]} : m <= y
    BY <2>1 DEF Min
  <2> QED BY <1>1, <1>3, <2>2
<1>5. KeepNum(c, size) = Min({most, MaxCachedBlocks[c]})
  BY <1>2, <1>3 DEF KeepNum
<1> QED BY <1>1, <1>4, <1>5

(* A thread gives blocks of one class back.                                *)
LEMMA ReturnsBlocks ==
  ASSUME Inv, NEW t \in Threads, NEW c \in Classes, NEW chain, Shards!ReturnCall(t, c, chain),
         \A b \in chain : b \in Outside /\ OfClass(b, c)
  PROVE  /\ PoolStep /\ Shards!Inv' /\ Shards!SpansPersist /\ LargeSpans' = LargeSpans
         /\ call'[t].op = "returnLock"
         /\ \A u \in Threads : u # t => call'[u] = call[u]
<1>1. PoolStep /\ Shards!Inv'
  <2>1. chain \in SUBSET Shards!Lent(c)
    BY SameSpan DEF Shards!Lent, OfClass
  <2>2. Shards!Next
    BY <2>1 DEF Shards!Next, Shards!Classes, Classes
  <2> QED BY <2>2, ShardsInv DEF PoolStep
<1>2. /\ call' = [call EXCEPT ![t] = [op |-> "returnLock", class |-> c, chain |-> chain]]
      /\ UNCHANGED <<live, spans>>
  BY DEF Shards!ReturnCall
<1>3. DOMAIN call = Threads
  BY DEF Inv, Shards!Inv, Shards!TypeOK
<1> QED BY <1>1, <1>2, <1>3 DEF Shards!SpansPersist, LargeSpans

(* The class a freed object goes back to is the one it was asked for,      *)
(* with and without the size.                                              *)
LEMMA ClassOfObject ==
  ASSUME Inv, NEW p \in DOMAIN owned, owned[p] # Large
  PROVE  owned[p] \in Classes /\ SpanClass(p) \cup {SizedClass(p)} = {owned[p]}
<1>1. owned[p] \in Classes /\ p \in Objects(owned[p])
  BY DEF Inv, TypeOK, Objects
<1>2. p \in Away /\ OfClass(p, owned[p])
  BY <1>1, ObjectFacts
<1>3. SpanClass(p) \subseteq {owned[p]}
  BY <1>2, OneClass DEF Inv, SpanClass, OfClass
<1> QED BY <1>1, <1>3 DEF SizedClass

(* A freed object joins a list, which may have become too long.            *)
LEMMA deallocateInv ==
  ASSUME Inv, NEW t \in Threads, NEW p \in DOMAIN owned, deallocate(t, p)
  PROVE  Inv' /\ PoolStep
<1>1. PICK c \in Classes :
        /\ c = owned[p] /\ c # Large
        /\ Running(t) /\ Disown(p) /\ Push(t, p, c)
  BY ClassOfObject DEF deallocate
<1>2. /\ p \in Objects(c) /\ p \in Outside /\ p \in Away /\ OfClass(p, c)
  BY <1>1, ObjectFacts DEF Objects
<1>3. /\ owned' \in [DOMAIN owned' -> Classes \cup {Large}]
      /\ \A d : Objects(d)' = Objects(d) \ {p}
      /\ Objects(Large)' = Objects(Large)
  BY <1>1, Disowned DEF Objects
<1>4. PICK list \in SUBSET Nat, size \in Nat :
        /\ list = freeList[t][c] \cup {p} /\ size = freeListSize[t][c] + 1
        /\ IsFiniteSet(list) /\ size = Cardinality(list)
  <2>1. /\ IsFiniteSet(freeList[t][c]) /\ freeListSize[t][c] = Cardinality(freeList[t][c])
        /\ freeListSize[t][c] \in Nat
    BY ListFacts
  <2>2. p \notin freeList[t][c]
    BY <1>2 DEF Inv, ListsApart, OnLists, Objects
  <2>3. /\ IsFiniteSet(freeList[t][c] \cup {p})
        /\ Cardinality(freeList[t][c] \cup {p}) = freeListSize[t][c] + 1
    BY <2>1, <2>2, FS_AddElement
  <2>4. p \in Nat
    BY <1>2, Constants
    DEF Inv, Shards!Inv, Shards!TypeOK, Shards!Bytes, Shards!CentralCacheAssumption
  <2>5. freeList[t][c] \in SUBSET Nat
    BY DEF Inv, TypeOK
  <2> QED BY <2>1, <2>3, <2>4, <2>5
<1>5. /\ phase[t] = "up" /\ call[t].op = "none" /\ call[t] = Central!Idle
  BY <1>1, RunningFacts
<1>6. ASSUME size <= MaxCachedBlocks[c],
             freeList' = [freeList EXCEPT ![t][c] = list],
             freeListSize' = [freeListSize EXCEPT ![t][c] = size],
             UNCHANGED phase, UNCHANGED poolVars
      PROVE  Inv' /\ PoolStep
  <2>1. ListBecomes(t, c, list, size)
    BY <1>6 DEF ListBecomes
  <2>2. ListsOtherwise(t, c, list, size)
    BY <2>1, ListChanged
  <2>3. Outside' = Outside
    <3>1. \A u \in Threads, d \in Classes :
            freeList'[u][d] = freeList[u][d] \cup (IF u = t /\ d = c THEN {p} ELSE {})
      BY <1>4, <2>2 DEF ListsOtherwise
    <3>2. OnLists' = OnLists \cup {p}
      BY <3>1 DEF OnLists
    <3>3. (UNION {Objects(d) : d \in Classes})' = (UNION {Objects(d) : d \in Classes}) \ {p}
      BY <1>3
    <3> QED BY <1>2, <3>2, <3>3 DEF Outside
  <2>4. PoolStep /\ Shards!Inv' /\ Shards!SpansPersist /\ LargeSpans' = LargeSpans
    BY <1>6, <2>3, PoolKept
  <2>5. UNCHANGED call
    BY <1>6 DEF poolVars
  <2>6. CallExact(t)'
    BY <1>5, <1>6, <2>5 DEF CallExact
  <2>7. /\ list \subseteq freeList[t][c] \cup (Objects(c) \ Objects(c)')
        /\ \A d : Objects(d)' \subseteq Objects(d)
    BY <1>2, <1>3, <1>4
  <2> QED BY <1>3, <1>4, <1>6, <2>1, <2>4, <2>5, <2>6, <2>7, ListShifts
<1>7. ASSUME NEW keep \in kSubset(KeepNum(c, size), list),
             freeList' = [freeList EXCEPT ![t][c] = keep],
             freeListSize' = [freeListSize EXCEPT ![t][c] = SizeAfterSplit(c, size)],
             UNCHANGED phase, Central!ReturnCall(t, c, list \ keep)
      PROVE  Inv' /\ PoolStep
  <2>1. keep \subseteq list /\ Cardinality(keep) = KeepNum(c, size)
    BY <1>7, SameCardinality DEF kSubset
  <2>2. PICK kept \in Nat : kept = KeepNum(c, size) /\ kept <= MaxCachedBlocks[c]
    BY KeepNumFacts
  <2>3. keep \in SUBSET Nat /\ kept = Cardinality(keep)
    BY <2>1, <2>2
  <2>4. ListBecomes(t, c, keep, kept)
    BY <1>7, <2>2 DEF ListBecomes, SizeAfterSplit
  <2>5. \A b \in list \ keep : b \in Outside /\ OfClass(b, c)
    BY <1>2, <1>4, ListFacts
  <2>6. /\ PoolStep /\ Shards!Inv' /\ Shards!SpansPersist /\ LargeSpans' = LargeSpans
        /\ call'[t].op = "returnLock" /\ \A u \in Threads : u # t => call'[u] = call[u]
    BY <1>7, <2>5, SameCalls, ReturnsBlocks
  <2>7. CallExact(t)'
    BY <1>5, <1>7, <2>6 DEF CallExact
  <2>8. /\ keep \subseteq freeList[t][c] \cup (Objects(c) \ Objects(c)')
        /\ \A d : Objects(d)' \subseteq Objects(d)
    BY <1>2, <1>3, <1>4, <2>1
  <2> QED BY <1>3, <1>7, <2>2, <2>3, <2>4, <2>6, <2>7, <2>8, ListShifts
<1>8. \/ /\ size <= MaxCachedBlocks[c]
         /\ freeList' = [freeList EXCEPT ![t][c] = list]
         /\ freeListSize' = [freeListSize EXCEPT ![t][c] = size]
         /\ UNCHANGED phase
         /\ UNCHANGED poolVars
      \/ \E keep \in kSubset(KeepNum(c, size), list) :
           /\ freeList' = [freeList EXCEPT ![t][c] = keep]
           /\ freeListSize' = [freeListSize EXCEPT ![t][c] = SizeAfterSplit(c, size)]
           /\ UNCHANGED phase
           /\ Central!ReturnCall(t, c, list \ keep)
  BY <1>1, <1>4 DEF Push
<1> QED BY <1>6, <1>7, <1>8

(* A thread begins to end.                                                 *)
LEMMA ExitInv ==
  ASSUME Inv, NEW t \in Threads, Exit(t)
  PROVE  Inv' /\ PoolStep
<1>1. /\ Running(t) /\ phase' = [phase EXCEPT ![t] = "exiting"]
      /\ UNCHANGED <<freeList, freeListSize, owned, live, spans, partial, lock, call, lost>>
  BY DEF Exit, poolVars
<1>2. Outside' = Outside
  BY <1>1 DEF Outside, OnLists, Objects
<1>3. PoolStep /\ Shards!Inv' /\ Shards!SpansPersist /\ LargeSpans' = LargeSpans
  BY <1>1, <1>2, PoolKept DEF poolVars
<1>4. /\ DOMAIN phase = Threads /\ call[t].op = "none" /\ phase'[t] = "exiting"
      /\ \A u \in Threads : u # t => phase'[u] = phase[u]
  BY <1>1, RunningFacts
<1>5. CallsExact'
  <2>1. CallExact(t)'
    BY <1>1, <1>4 DEF CallExact
  <2> QED BY <1>1, <1>4, <2>1, OneCall
<1>6. TypeOK' /\ SizesExact'
  BY <1>1, <1>4 DEF Inv, TypeOK, SizesExact
<1>7. ListsApart'
  BY <1>1 DEF Inv, ListsApart, OnLists, Central!findSpan
<1>8. OwnedExact'
  BY <1>1 DEF Inv, OwnedExact, Objects, LargeSpans, Central!findSpan
<1> QED BY <1>3, <1>5, <1>6, <1>7, <1>8 DEF Inv

(* A thread that ends gives the list of a class back.                      *)
LEMMA FlushClassInv ==
  ASSUME Inv, NEW t \in Threads, NEW c \in Classes, FlushClass(t, c)
  PROVE  Inv' /\ PoolStep
<1>1. /\ phase[t] = "exiting"
      /\ freeList' = [freeList EXCEPT ![t][c] = {}]
      /\ freeListSize' = [freeListSize EXCEPT ![t][c] = 0]
      /\ UNCHANGED <<phase, owned>>
      /\ Shards!ReturnCall(t, c, freeList[t][c])
  BY SameCalls DEF FlushClass
<1>2. ListBecomes(t, c, {}, 0) /\ {} \in SUBSET Nat /\ 0 \in Nat
  BY <1>1 DEF ListBecomes
<1>3. Cardinality({}) = 0 /\ 0 <= MaxCachedBlocks[c]
  BY ThreadCacheAssumption, FS_EmptySet
<1>4. \A b \in freeList[t][c] : b \in Outside /\ OfClass(b, c)
  BY ListFacts
<1>5. /\ PoolStep /\ Shards!Inv' /\ Shards!SpansPersist /\ LargeSpans' = LargeSpans
      /\ call'[t].op = "returnLock" /\ \A u \in Threads : u # t => call'[u] = call[u]
  BY <1>1, <1>4, ReturnsBlocks
<1>6. CallExact(t)'
  BY <1>1, <1>5 DEF CallExact
<1>7. owned' \in [DOMAIN owned' -> Classes \cup {Large}] /\ \A d : Objects(d)' = Objects(d)
  BY <1>1 DEF Inv, TypeOK, Objects
<1> QED BY <1>1, <1>2, <1>3, <1>5, <1>6, <1>7, ListShifts

(* A thread has ended: what it does not flush is empty.                    *)
LEMMA ExitedInv ==
  ASSUME Inv, NEW t \in Threads, Exited(t)
  PROVE  Inv' /\ PoolStep
<1>1. /\ phase[t] = "exiting" /\ call[t] = Central!Idle /\ phase' = [phase EXCEPT ![t] = "down"]
      /\ \A c \in Classes : ~ Flushes(t, c)
      /\ UNCHANGED <<freeList, freeListSize, owned, live, spans, partial, lock, call, lost>>
  BY DEF Exited, poolVars
<1>2. Outside' = Outside
  BY <1>1 DEF Outside, OnLists, Objects
<1>3. PoolStep /\ Shards!Inv' /\ Shards!SpansPersist /\ LargeSpans' = LargeSpans
  BY <1>1, <1>2, PoolKept DEF poolVars
<1>4. \A c \in Classes : freeList[t][c] = {}
  <2> SUFFICES ASSUME NEW c \in Classes, freeList[t][c] # {}
               PROVE  FALSE
    OBVIOUS
  <2>1. freeListSize[t][c] = 0
    BY <1>1, ListFacts DEF Flushes
  <2>2. IsFiniteSet(freeList[t][c]) /\ Cardinality(freeList[t][c]) = 0
    BY <2>1, ListFacts
  <2> QED BY <2>2, FS_EmptySet
<1>5. /\ call[t].op = "none" /\ phase'[t] = "down"
      /\ \A u \in Threads : u # t => phase'[u] = phase[u]
  BY <1>1 DEF Central!Idle, Inv, TypeOK
<1>6. CallsExact'
  <2>1. CallExact(t)'
    BY <1>1, <1>4, <1>5 DEF CallExact
  <2> QED BY <1>1, <1>5, <2>1, OneCall
<1>7. TypeOK' /\ SizesExact'
  BY <1>1, <1>5 DEF Inv, TypeOK, SizesExact
<1>8. ListsApart'
  BY <1>1 DEF Inv, ListsApart, OnLists, Central!findSpan
<1>9. OwnedExact'
  BY <1>1 DEF Inv, OwnedExact, Objects, LargeSpans, Central!findSpan
<1> QED BY <1>3, <1>6, <1>7, <1>8, <1>9 DEF Inv

(* A new thread starts with the empty lists the last one left.             *)
LEMMA StartInv ==
  ASSUME Inv, NEW t \in Threads, Start(t)
  PROVE  Inv' /\ PoolStep
<1>1. /\ phase[t] = "down" /\ phase' = [phase EXCEPT ![t] = "up"]
      /\ freeList' = [freeList EXCEPT ![t] = [c \in Classes |-> {}]]
      /\ freeListSize' = [freeListSize EXCEPT ![t] = [c \in Classes |-> 0]]
      /\ UNCHANGED <<owned, live, spans, partial, lock, call, lost>>
  BY DEF Start, poolVars
<1>2. call[t] = Central!Idle /\ \A c \in Classes : freeList[t][c] = {}
  BY <1>1 DEF Inv, CallsExact, CallExact
<1>3. \A c \in Classes : freeListSize[t][c] = 0
  BY <1>2, FS_EmptySet DEF Inv, SizesExact
<1>4. /\ freeList \in [Threads -> [Classes -> SUBSET Nat]]
      /\ freeListSize \in [Threads -> [Classes -> Nat]]
      /\ freeList[t] \in [Classes -> SUBSET Nat] /\ freeListSize[t] \in [Classes -> Nat]
  BY DEF Inv, TypeOK
<1>5. freeList[t] = [c \in Classes |-> {}] /\ freeListSize[t] = [c \in Classes |-> 0]
  BY <1>2, <1>3, <1>4
<1>6. freeList' = freeList /\ freeListSize' = freeListSize
  BY <1>1, <1>4, <1>5
<1>7. Outside' = Outside
  BY <1>1, <1>6 DEF Outside, OnLists, Objects
<1>8. PoolStep /\ Shards!Inv' /\ Shards!SpansPersist /\ LargeSpans' = LargeSpans
  BY <1>1, <1>7, PoolKept DEF poolVars
<1>9. /\ call[t].op = "none" /\ phase'[t] = "up"
      /\ \A u \in Threads : u # t => phase'[u] = phase[u]
  BY <1>1, <1>2 DEF Central!Idle, Inv, TypeOK
<1>10. CallsExact'
  <2>1. CallExact(t)'
    BY <1>1, <1>9 DEF CallExact
  <2> QED BY <1>1, <1>6, <1>9, <2>1, OneCall
<1>11. TypeOK' /\ SizesExact'
  <2>1. phase' \in [Threads -> {"up", "exiting", "down"}]
    BY <1>1 DEF Inv, TypeOK
  <2>2. owned' \in [DOMAIN owned' -> Classes \cup {Large}]
    BY <1>1 DEF Inv, TypeOK
  <2>3. TypeOK'
    BY <1>4, <1>6, <2>1, <2>2 DEF TypeOK
  <2> QED BY <1>6, <2>3 DEF Inv, SizesExact
<1>12. ListsApart'
  BY <1>1, <1>6 DEF Inv, ListsApart, OnLists, Central!findSpan
<1>13. OwnedExact'
  BY <1>1, <1>6 DEF Inv, OwnedExact, Objects, LargeSpans, Central!findSpan
<1> QED BY <1>1, <1>6, <1>8, <1>10, <1>11, <1>12, <1>13 DEF Inv

(* A step of a thread is one of its actions.                               *)
LEMMA ThreadStep ==
  ASSUME NEW t \in Threads,
         \/ Continue(t)
         \/ \E c \in Classes : AllocateCached(t, c) \/ fetchFromCentralCache(t, c)
         \/ \E n \in LargePages : AllocateLarge(t, n)
         \/ \E p \in DOMAIN owned : deallocate(t, p) \/ deallocateLarge(t, p)
         \/ Exit(t)
         \/ Start(t)
  PROVE  \/ CentralStep(t) \/ FetchReturns(t) \/ Exited(t) \/ Exit(t) \/ Start(t)
         \/ \E c \in Classes : FlushClass(t, c) \/ AllocateCached(t, c) \/ fetchFromCentralCache(t, c)
         \/ \E n \in LargePages : AllocateLarge(t, n)
         \/ \E p \in DOMAIN owned : deallocate(t, p) \/ deallocateLarge(t, p)
BY DEF Continue

(* Every step keeps Inv and is a step of the central cache or none.        *)
LEMMA StepInv == Inv /\ [Next]_vars => Inv' /\ PoolStep
<1> SUFFICES ASSUME Inv, [Next]_vars PROVE Inv' /\ PoolStep
  OBVIOUS
<1>1. ASSUME UNCHANGED vars
      PROVE  Inv' /\ PoolStep
  <2>1. UNCHANGED <<freeList, freeListSize, phase, owned, live, spans, partial, lock, call, lost>>
    BY <1>1 DEF vars
  <2>2. Outside' = Outside
    BY <2>1 DEF Outside, OnLists, Objects
  <2>3. PoolStep /\ Shards!Inv' /\ Shards!SpansPersist /\ LargeSpans' = LargeSpans
    BY <2>1, <2>2, PoolKept DEF poolVars
  <2>4. CallsExact'
    BY <2>1 DEF Inv, CallsExact, CallExact
  <2> QED BY <2>1, <2>3, <2>4, UnchangedParts
<1>2. ASSUME Next
      PROVE  Inv' /\ PoolStep
  <2>1. PICK t \in Threads :
          \/ CentralStep(t) \/ FetchReturns(t) \/ Exited(t) \/ Exit(t) \/ Start(t)
          \/ \E c \in Classes : FlushClass(t, c) \/ AllocateCached(t, c) \/ fetchFromCentralCache(t, c)
          \/ \E n \in LargePages : AllocateLarge(t, n)
          \/ \E p \in DOMAIN owned : deallocate(t, p) \/ deallocateLarge(t, p)
    BY <1>2, ThreadStep DEF Next
  <2> QED BY <2>1, CentralStepInv, FetchReturnsInv, ExitedInv, ExitInv, StartInv, FlushClassInv,
             AllocateCachedInv, FetchInv, AllocateLargeInv, deallocateInv, deallocateLargeInv
<1> QED BY <1>1, <1>2

(* Inv holds at the start: there is nothing.                               *)
LEMMA InitInv == Init => Inv
<1> SUFFICES ASSUME Init PROVE Inv
  OBVIOUS
<1>1. /\ live = [s \in {} |-> 0] /\ spans = [s \in {} |-> 0]
      /\ partial = [c \in Classes |-> {}] /\ lock = [c \in Classes |-> NoThread]
      /\ call = [t \in Threads |-> Central!Idle] /\ lost = {}
      /\ freeList = [t \in Threads |-> [c \in Classes |-> {}]]
      /\ freeListSize = [t \in Threads |-> [c \in Classes |-> 0]]
      /\ phase = [t \in Threads |-> "up"]
      /\ owned = [p \in {} |-> 0]
  BY DEF Init
<1>2. DOMAIN owned = {} /\ \A c : Objects(c) = {}
  BY <1>1 DEF Objects
<1>3. \A t \in Threads, c \in Classes : freeList[t][c] = {} /\ freeListSize[t][c] = 0
  BY <1>1
<1>4. OnLists = {} /\ Outside = {}
  BY <1>2, <1>3 DEF OnLists, Outside
<1>5. Shards!Inv
  <2>1. Shards!Init
    BY <1>1, <1>4 DEF Shards!Init, Shards!Classes, Classes, Shards!Idle, Central!Idle
  <2> QED BY <2>1, Shards!InitInv, Constants DEF Shards!CentralCacheAssumption
<1>6. TypeOK
  BY <1>1, <1>2 DEF TypeOK
<1>7. ListsApart
  BY <1>2, <1>3, <1>4 DEF ListsApart
<1>8. SizesExact
  <2>1. Cardinality({}) = 0
    BY FS_EmptySet
  <2>2. \A c \in Classes : 0 <= MaxCachedBlocks[c]
    BY ThreadCacheAssumption
  <2> QED BY <1>3, <2>1, <2>2 DEF SizesExact
<1>9. OwnedExact
  BY <1>1, <1>2 DEF OwnedExact, LargeSpans
<1>10. CallsExact
  BY <1>1, <1>3 DEF CallsExact, CallExact, Central!Idle
<1> QED BY <1>5, <1>6, <1>7, <1>8, <1>9, <1>10 DEF Inv

-----------------------------------------------------------------------------
(* The theorems.                                                           *)

(* Inv always holds.                                                       *)
THEOREM InvHolds == Spec => []Inv
BY InitInv, StepInv, PTL DEF Spec

(* Lists, and what the program owns, are apart, and lists hold blocks of   *)
(* their class.                                                            *)
THEOREM ListsApartCorrect == Spec => []ListsApart
<1>1. Inv => ListsApart
  BY DEF Inv
<1> QED BY <1>1, InvHolds, PTL

(* The counters are the lengths of the lists, within the limit.            *)
THEOREM SizesCorrect == Spec => []SizesExact
<1>1. Inv => SizesExact
  BY DEF Inv
<1> QED BY <1>1, InvHolds, PTL

(* Shards's next-state relation is Central's.                              *)
LEMMA SamePoolStep == PoolStep => [Central!Next]_(Central!centralVars)
<1> SUFFICES ASSUME PoolStep PROVE Central!Next \/ UNCHANGED Central!centralVars
  OBVIOUS
<1>1. \A t : Shards!Step(t) <=> Central!Step(t)
  BY SameAcquire, SameEnd, SameTake, SameCreate, SameReturn DEF Shards!Step, Central!Step, Shards!Proceed, Central!Proceed
<1>2. \A c : Shards!Lent(c) = Central!Lent(c)
  BY SameSpan DEF Shards!Lent, Central!Lent
<1>3. Shards!Classes = Central!Classes /\ Shards!Pages = Central!Pages
  BY DEF Shards!Classes, Central!Classes, Shards!Pages, Central!Pages
<1>4. Shards!Next => Central!Next
  BY <1>1, <1>2, <1>3, SameCalls, SameLarge DEF Shards!Next, Central!Next
<1>5. UNCHANGED Shards!centralVars => UNCHANGED Central!centralVars
  BY DEF Shards!centralVars, Central!centralVars
<1> QED BY <1>4, <1>5 DEF PoolStep

(* The thread caches follow the rules of the central cache.                *)
THEOREM UsesCentralCorrect == Spec => UsesCentralProperly
<1>1. Init => Central!Init
  <2> SUFFICES ASSUME Init PROVE Central!Init
    OBVIOUS
  <2>1. DOMAIN owned = {} /\ \A t \in Threads, c \in Classes : freeList[t][c] = {}
    BY DEF Init
  <2>2. Outside = {}
    BY <2>1 DEF Outside, OnLists, Objects
  <2> QED BY <2>2 DEF Init, Central!Init, Central!Classes, Classes
<1>2. Inv /\ [Next]_vars => [Central!Next]_(Central!centralVars)
  BY StepInv, SamePoolStep
<1> QED BY <1>1, <1>2, InvHolds, PTL DEF Spec, UsesCentralProperly, Central!Spec

(* Once every thread has ended and the program holds nothing, a span that  *)
(* is not back in the page cache lacks a block.                            *)
LEMMA InvNothingStranded == Inv => NothingStranded
<1> SUFFICES ASSUME Inv, \A t \in Threads : phase[t] = "down", owned = [p \in {} |-> 0],
                    NEW s \in DOMAIN live, Shards!Blocks(s) \cap lost = {}
             PROVE  FALSE
  BY DEF NothingStranded, Central!Blocks, Shards!Blocks, Central!BlockAddrs, Shards!BlockAddrs
<1>1. /\ DOMAIN owned = {} /\ \A d : Objects(d) = {}
      /\ \A t \in Threads : call[t].op = "none" /\ call[t].chain = {}
      /\ \A t \in Threads, c \in Classes : freeList[t][c] = {}
  BY DEF Objects, Inv, CallsExact, CallExact, Central!Idle
<1>2. Shards!InTransit = {} /\ Outside = {}
  BY <1>1 DEF Shards!InTransit, Outside, OnLists
<1>3. s \in DOMAIN spans /\ Shards!Inv
  BY DEF Inv, Shards!Inv, Shards!TypeOK
<1>4. s \notin LargeSpans
  BY <1>1 DEF Inv, OwnedExact
<1>5. s \in Shards!SmallSpans
  BY <1>3, <1>4 DEF LargeSpans, Shards!SmallSpans, Large, Shards!Large
<1>6. PICK c \in Shards!Classes : c = spans[s].sizeClass
  BY <1>3, <1>5, Shards!SmallSpanFacts, Constants DEF Shards!CentralCacheAssumption
<1>7. spans[s].freeCount = spans[s].blockCount /\ spans[s].blockCount \in Nat \ {0}
  <2>1. /\ spans[s].freeList \subseteq Shards!Blocks(s)
        /\ Cardinality(spans[s].freeList) = spans[s].freeCount
        /\ Cardinality(Shards!Blocks(s)) = spans[s].blockCount
        /\ spans[s].blockCount \in Nat \ {0}
    BY <1>3, <1>5, SameCardinality, Shards!SmallSpanFacts, Constants
    DEF Shards!CentralCacheAssumption
  <2>2. Shards!Blocks(s) \subseteq spans[s].freeList
    BY <1>2, <1>3, <1>5 DEF Shards!Inv, Shards!BlocksConserved, Shards!Away
  <2>3. spans[s].freeList = Shards!Blocks(s)
    BY <2>1, <2>2
  <2> QED BY <2>1, <2>3
<1>8. lock[c] = NoThread
  BY <1>1, <1>3 DEF Shards!Inv, Shards!TypeOK, Shards!LockExact
<1>9. s \in partial[c]
  BY <1>3, <1>5, <1>6, <1>7 DEF Shards!Inv, Shards!PartialExact
<1>10. spans[s].freeCount < spans[s].blockCount
  BY <1>3, <1>8, <1>9 DEF Shards!Inv, Shards!PartialExact
<1> QED BY <1>7, <1>10

(* Without an exception nothing is stranded, and after one nothing but the *)
(* spans of the blocks it dropped.                                         *)
THEOREM NothingStrandedCorrect == Spec => []NothingStranded
BY InvHolds, InvNothingStranded, PTL

-----------------------------------------------------------------------------
(* The objects are runs of a RangeAllocator of bytes: malloc's contract.   *)

(* An object lies in a span: a small one is a block of it, a large one all *)
(* of it.                                                                  *)
LEMMA ObjectHome ==
  ASSUME Inv, NEW p \in DOMAIN owned
  PROVE  \E s \in DOMAIN spans :
           /\ p \in Nat /\ SizeOf(p) \in Nat \ {0}
           /\ Shards!FirstByte(s) <= p /\ p + SizeOf(p) <= Shards!EndByte(s)
           /\ Shards!FirstByte(s) \in Nat /\ Shards!EndByte(s) \in Nat
           /\ Shards!EndByte(s) <= NumPages * PageBytes
           /\ \/ s \in LargeSpans /\ p = Shards!FirstByte(s)
              \/ /\ s \in Shards!SmallSpans /\ p \in Shards!Blocks(s)
                 /\ SizeOf(p) = Shards!ByteSize(s)
<1> USE Constants DEF Shards!CentralCacheAssumption
<1>1. Shards!Inv /\ Large \notin Classes /\ Twice \notin Classes /\ Twice # Large
  BY DEF Inv, Large, Twice, Classes
<1>2. CASE owned[p] = Large
  <2>1. PICK s \in LargeSpans : p = s * PageBytes
    BY <1>2 DEF Inv, OwnedExact, Objects
  <2>2. s \in DOMAIN spans
    BY DEF LargeSpans
  <2>3. /\ p = Shards!FirstByte(s) /\ p \in Nat /\ p \div PageBytes = s
        /\ PageBytes * live[s] \in Nat \ {0}
        /\ Shards!EndByte(s) = p + PageBytes * live[s]
        /\ Shards!EndByte(s) \in Nat /\ Shards!EndByte(s) <= NumPages * PageBytes
    BY <1>1, <2>1, <2>2, Shards!SpanBytes DEF Shards!FirstByte
  <2>4. SizeOf(p) = PageBytes * live[s]
    BY <1>1, <1>2, <2>3 DEF SizeOf
  <2> QED BY <2>2, <2>3, <2>4
<1>3. CASE owned[p] # Large
  <2>1. PICK c \in Classes : owned[p] = c /\ p \in Objects(c)
    BY <1>3 DEF Inv, TypeOK, Objects
  <2>2. p \in Away /\ OfClass(p, c)
    BY <2>1, ObjectFacts
  <2>3. PICK s \in Shards!SmallSpans :
          /\ p \in Shards!Blocks(s) /\ Central!findSpan(p) = {s} /\ s \in DOMAIN spans
    BY <1>1, <2>2, AwayHome
  <2>4. spans[s].sizeClass = c
    BY <2>2, <2>3 DEF OfClass
  <2>5. SizeOf(p) = Shards!ByteSize(s)
    BY <1>1, <2>1, <2>4 DEF SizeOf, Shards!ByteSize
  <2>6. /\ p \in Nat /\ Shards!ByteSize(s) \in Nat \ {0}
        /\ Shards!FirstByte(s) <= p /\ p + Shards!ByteSize(s) <= Shards!EndByte(s)
    BY <1>1, <2>3, Shards!BlockBytes
  <2>7. /\ Shards!EndByte(s) \in Nat /\ Shards!EndByte(s) <= NumPages * PageBytes
        /\ Shards!FirstByte(s) \in Nat
    BY <1>1, <2>3, Shards!SpanBytes
  <2> QED BY <2>3, <2>5, <2>6, <2>7
<1> QED BY <1>2, <1>3

(* Objects lie within the memory and do not overlap.                       *)
ObjectsApart ==
  /\ \A p \in DOMAIN owned :
       /\ p \in Nat /\ SizeOf(p) \in Nat \ {0} /\ p + SizeOf(p) <= NumPages * PageBytes
  /\ \A p, q \in DOMAIN owned : p # q => p + SizeOf(p) <= q \/ q + SizeOf(q) <= p

(* Spans do not overlap, and neither do blocks of a span.                  *)
LEMMA InvObjectsApart == Inv => ObjectsApart
<1> SUFFICES ASSUME Inv PROVE ObjectsApart
  OBVIOUS
<1> USE Constants DEF Shards!CentralCacheAssumption
<1>1. Shards!Inv /\ NumPages * PageBytes \in Nat
  BY DEF Inv
<1>2. \A p \in DOMAIN owned :
        /\ p \in Nat /\ SizeOf(p) \in Nat \ {0} /\ p + SizeOf(p) <= NumPages * PageBytes
  <2> SUFFICES ASSUME NEW p \in DOMAIN owned
               PROVE  /\ p \in Nat /\ SizeOf(p) \in Nat \ {0}
                      /\ p + SizeOf(p) <= NumPages * PageBytes
    OBVIOUS
  <2>1. PICK s \in DOMAIN spans :
          /\ p \in Nat /\ SizeOf(p) \in Nat \ {0} /\ p + SizeOf(p) <= Shards!EndByte(s)
          /\ Shards!EndByte(s) \in Nat /\ Shards!EndByte(s) <= NumPages * PageBytes
    BY ObjectHome
  <2>2. PICK e, z, m : e = Shards!EndByte(s) /\ z = SizeOf(p) /\ m = NumPages * PageBytes
    OBVIOUS
  <2>3. /\ p \in Nat /\ z \in Nat \ {0} /\ e \in Nat /\ m \in Nat
        /\ p + z <= e /\ e <= m
    BY <1>1, <2>1, <2>2
  <2>4. p + z <= m
    BY <2>3
  <2> QED BY <2>1, <2>2, <2>4
<1>3. ASSUME NEW p \in DOMAIN owned, NEW q \in DOMAIN owned, p # q
      PROVE  p + SizeOf(p) <= q \/ q + SizeOf(q) <= p
  <2>1. PICK s \in DOMAIN spans :
          /\ p \in Nat /\ SizeOf(p) \in Nat \ {0}
          /\ Shards!FirstByte(s) <= p /\ p + SizeOf(p) <= Shards!EndByte(s)
          /\ Shards!FirstByte(s) \in Nat /\ Shards!EndByte(s) \in Nat
          /\ \/ s \in LargeSpans /\ p = Shards!FirstByte(s)
             \/ /\ s \in Shards!SmallSpans /\ p \in Shards!Blocks(s)
                /\ SizeOf(p) = Shards!ByteSize(s)
    BY ObjectHome
  <2>2. PICK r \in DOMAIN spans :
          /\ q \in Nat /\ SizeOf(q) \in Nat \ {0}
          /\ Shards!FirstByte(r) <= q /\ q + SizeOf(q) <= Shards!EndByte(r)
          /\ Shards!FirstByte(r) \in Nat /\ Shards!EndByte(r) \in Nat
          /\ \/ r \in LargeSpans /\ q = Shards!FirstByte(r)
             \/ /\ r \in Shards!SmallSpans /\ q \in Shards!Blocks(r)
                /\ SizeOf(q) = Shards!ByteSize(r)
    BY ObjectHome
  <2>3. CASE s # r
    <3>1. Shards!EndByte(s) <= Shards!FirstByte(r) \/ Shards!EndByte(r) <= Shards!FirstByte(s)
      BY <1>1, <2>3, Shards!SpansApart
    <3>2. PICK es, fs, er, fr, zp, zq :
            /\ es = Shards!EndByte(s) /\ fs = Shards!FirstByte(s) /\ zp = SizeOf(p)
            /\ er = Shards!EndByte(r) /\ fr = Shards!FirstByte(r) /\ zq = SizeOf(q)
      OBVIOUS
    <3>3. /\ es \in Nat /\ fs \in Nat /\ er \in Nat /\ fr \in Nat /\ zp \in Nat /\ zq \in Nat
          /\ p \in Nat /\ q \in Nat /\ fs <= p /\ p + zp <= es /\ fr <= q /\ q + zq <= er
          /\ es <= fr \/ er <= fs
      BY <2>1, <2>2, <3>1, <3>2
    <3>4. p + zp <= q \/ q + zq <= p
      BY <3>3
    <3> QED BY <3>2, <3>4
  <2>4. CASE s = r
    <3>1. ~ (s \in LargeSpans /\ s \in Shards!SmallSpans)
      BY DEF LargeSpans, Shards!SmallSpans, Large, Shards!Large
    <3>2. /\ s \in Shards!SmallSpans /\ p \in Shards!Blocks(s) /\ q \in Shards!Blocks(s)
          /\ SizeOf(p) = Shards!ByteSize(s) /\ SizeOf(q) = Shards!ByteSize(s)
      BY <1>3, <2>1, <2>2, <2>4, <3>1
    <3>3. p + Shards!ByteSize(s) <= q \/ q + Shards!ByteSize(s) <= p
      BY <1>1, <1>3, <3>2, Shards!BlocksApart
    <3> QED BY <3>2, <3>3
  <2> QED BY <2>3, <2>4
<1> QED BY <1>2, <1>3 DEF ObjectsApart

(* It holds again after a step.                                            *)
LEMMA NextObjectsApart == Inv' => ObjectsApart'
BY InvObjectsApart, PTL

(* A step of the central cache moves no span that stays.                   *)
LEMMA PoolPersists ==
  ASSUME Inv, PoolStep
  PROVE  Shards!SpansPersist
<1> USE Constants DEF Shards!CentralCacheAssumption
<1>1. Shards!Inv
  BY DEF Inv
<1>2. CASE UNCHANGED <<live, spans>>
  BY <1>2 DEF Shards!SpansPersist
<1>3. ASSUME NEW t \in Threads, Shards!Step(t)
      PROVE  Shards!SpansPersist
  BY <1>1, <1>3, Shards!StepPersists
<1>4. ASSUME NEW n \in LargePages, NEW s \in Shards!Pages, Shards!AllocLargeSpan(n, s)
      PROVE  Shards!SpansPersist
  BY <1>1, <1>4, Shards!AllocLargePersists
<1>5. ASSUME NEW s \in DOMAIN spans, Shards!FreeLargeSpan(s)
      PROVE  Shards!SpansPersist
  BY <1>1, <1>5, Shards!FreeLargePersists
<1> QED
  BY <1>2, <1>3, <1>4, <1>5
  DEF PoolStep, Shards!Next, Shards!centralVars, Shards!FetchCall, Shards!ReturnCall

(* Equal multiples are multiples of equals.                                *)
LEMMA SameProduct ==
  ASSUME NEW r \in Nat, NEW s \in Nat, NEW d \in Nat \ {0}, r * d = s * d
  PROVE  r = s
OBVIOUS

(* An object keeps its size while the program has it.                      *)
LEMMA SizeKept ==
  ASSUME Inv, Inv', Shards!SpansPersist,
         NEW p \in DOMAIN owned, p \in DOMAIN owned', owned'[p] = owned[p]
  PROVE  SizeOf(p)' = SizeOf(p)
<1> USE Constants DEF Shards!CentralCacheAssumption
<1>1. Shards!Inv /\ Large \notin Classes /\ Twice \notin Classes /\ Twice # Large
  BY DEF Inv, Large, Twice, Classes
<1>2. owned[p] \in Classes \cup {Large}
  BY DEF Inv, TypeOK
<1>3. CASE owned[p] = Large
  <2>1. PICK s \in LargeSpans : p = s * PageBytes
    BY <1>3 DEF Inv, OwnedExact, Objects
  <2>2. PICK r \in LargeSpans' : p = r * PageBytes
    BY <1>3 DEF Inv, OwnedExact, Objects
  <2>3. s \in DOMAIN spans /\ r \in DOMAIN spans'
    BY DEF LargeSpans
  <2>4. p \div PageBytes = s
    BY <1>1, <2>1, <2>3, Shards!SpanBytes DEF Shards!FirstByte
  <2>5. r = s
    <3>1. DOMAIN spans' = DOMAIN live' /\ DOMAIN live' \subseteq Shards!Pages
      BY DEF Inv, Shards!Inv, Shards!TypeOK
    <3>2. r \in Nat /\ PageBytes \in Nat \ {0}
      BY <2>3, <3>1 DEF Shards!Pages
    <3>3. s \in Nat
      BY <1>1, <2>3, Shards!SpanBytes
    <3>4. r * PageBytes = s * PageBytes
      BY <2>1, <2>2
    <3> QED BY <3>2, <3>3, <3>4, SameProduct
  <2>6. live'[s] = live[s]
    BY <2>3, <2>5 DEF Shards!SpansPersist
  <2> QED BY <1>1, <1>3, <2>4, <2>6 DEF SizeOf
<1>4. CASE owned[p] \in Classes
  BY <1>1, <1>4 DEF SizeOf
<1> QED BY <1>2, <1>3, <1>4

(* What happens to the program's objects in a step.                        *)
Gained(p) ==
  /\ p \notin DOMAIN owned /\ DOMAIN owned' = DOMAIN owned \cup {p}
  /\ \A q \in DOMAIN owned : owned'[q] = owned[q]

(* The program gets one address it did not have, gives one up, or neither. *)
LEMMA OwnedSteps ==
  ASSUME Inv, [Next]_vars
  PROVE  UNCHANGED owned \/ (\E p : Gained(p)) \/ \E p \in DOMAIN owned : Disown(p)
<1>1. CASE UNCHANGED vars
  BY <1>1 DEF vars
<1>2. CASE Next
  <2>1. PICK t \in Threads :
          \/ CentralStep(t) \/ FetchReturns(t) \/ Exited(t) \/ Exit(t) \/ Start(t)
          \/ \E c \in Classes : FlushClass(t, c) \/ AllocateCached(t, c) \/ fetchFromCentralCache(t, c)
          \/ \E n \in LargePages : AllocateLarge(t, n)
          \/ \E p \in DOMAIN owned : deallocate(t, p) \/ deallocateLarge(t, p)
    BY <1>2, ThreadStep DEF Next
  <2>2. ASSUME NEW p, p \notin DOMAIN owned, NEW c \in Classes \cup {Large}, Own(p, c)
        PROVE  Gained(p)
    BY <2>2, OwnFresh DEF Gained
  <2>3. ASSUME NEW c \in Classes, AllocateCached(t, c)
        PROVE  \E p : Gained(p)
    <3>1. PICK p \in freeList[t][c] : Own(p, c)
      BY <2>3 DEF AllocateCached
    <3>2. p \notin DOMAIN owned
      BY DEF Inv, ListsApart, OnLists
    <3> QED BY <2>2, <3>1, <3>2
  <2>4. ASSUME FetchReturns(t)
        PROVE  UNCHANGED owned \/ \E p : Gained(p)
    <3>1. \/ UNCHANGED owned
          \/ \E p \in call[t].chain : Own(p, call[t].class)
      BY <2>4 DEF FetchReturns, localVars
    <3>2. call[t].class \in Classes
      BY DEF Inv, Shards!Inv, Shards!TypeOK, Shards!Classes, Classes
    <3> QED BY <2>2, <3>1, <3>2, FetchedIsFresh
  <2>5. ASSUME NEW n \in LargePages, AllocateLarge(t, n)
        PROVE  \E p : Gained(p)
    <3>1. PICK s \in Pages : Own(s * PageBytes, Large) /\ Shards!AllocLargeSpan(n, s)
      BY <2>5, SameLarge DEF AllocateLarge
    <3>2. s * PageBytes \notin DOMAIN owned
      BY <3>1, LargeIsFresh
    <3> QED BY <2>2, <3>1, <3>2
  <2>6. CentralStep(t) \/ Exited(t) \/ Exit(t) \/ Start(t) => UNCHANGED owned
    BY DEF CentralStep, localVars, Exited, Exit, Start
  <2>7. \A c \in Classes : FlushClass(t, c) \/ fetchFromCentralCache(t, c) => UNCHANGED owned
    BY DEF FlushClass, fetchFromCentralCache, localVars
  <2>8. \A p \in DOMAIN owned : deallocate(t, p) \/ deallocateLarge(t, p) => Disown(p)
    BY DEF deallocate, deallocateLarge
  <2> QED BY <2>1, <2>3, <2>4, <2>5, <2>6, <2>7, <2>8
<1> QED BY <1>1, <1>2

(* A new object is a new run.                                              *)
LEMMA GainedIsAlloc ==
  ASSUME Inv, Inv', Shards!SpansPersist, NEW p, Gained(p)
  PROVE  Malloc!Next
<1> DEFINE H == [q \in DOMAIN owned |-> SizeOf(q)]
           z == SizeOf(p)'
<1>1. PICK m : m = NumPages * PageBytes
  OBVIOUS
<1>2. m \in Nat
  BY <1>1, Constants DEF Shards!CentralCacheAssumption
<1>3. p \in DOMAIN owned' /\ p \notin DOMAIN owned /\ DOMAIN owned' = DOMAIN owned \cup {p}
  BY DEF Gained
<1>4. \A q \in DOMAIN owned : SizeOf(q)' = SizeOf(q)
  BY <1>3, SizeKept DEF Gained
<1>5. /\ \A q \in DOMAIN owned' : q \in Nat /\ SizeOf(q)' \in Nat \ {0} /\ q + SizeOf(q)' <= m
      /\ \A q, r \in DOMAIN owned' : q # r => q + SizeOf(q)' <= r \/ r + SizeOf(r)' <= q
  BY <1>1, NextObjectsApart DEF ObjectsApart
<1>6. p \in Nat /\ z \in Nat \ {0} /\ p + z <= m
  BY <1>3, <1>5
<1>7. \A q \in DOMAIN owned : /\ q \in Nat /\ H[q] \in Nat \ {0}
                              /\ q + H[q] <= p \/ p + z <= q
  BY <1>3, <1>4, <1>5
<1>8. [q \in DOMAIN owned |-> SizeOf(q)]' = [q \in DOMAIN H \cup {p} |-> IF q = p THEN z ELSE H[q]]
  BY <1>3, <1>4
<1>9. DOMAIN H = DOMAIN owned
  OBVIOUS
<1> HIDE DEF z
<1>10. z \in 1 .. m /\ p \in 0 .. m - 1 /\ (p .. (p + z - 1)) \subseteq 0 .. m - 1 /\ z \in z .. (z + 0)
  BY <1>2, <1>6
<1>11. \A q \in DOMAIN H : (q .. (q + H[q] - 1)) \cap (p .. (p + z - 1)) = {}
  BY <1>6, <1>7, <1>9
<1>12. Malloc!Alloc(z, p)
  BY <1>1, <1>8, <1>10, <1>11
  DEF Malloc!Alloc, Malloc!Run, Malloc!Units, Malloc!Overlapping
<1>13. z \in Malloc!Lengths /\ p \in Malloc!Units
  BY <1>1, <1>10 DEF Malloc!Lengths, Malloc!Units
<1> QED BY <1>12, <1>13 DEF Malloc!Next

(* An object less is a run less.                                           *)
LEMMA DisownedIsFree ==
  ASSUME Inv, Inv', Shards!SpansPersist, NEW p \in DOMAIN owned, Disown(p)
  PROVE  Malloc!Next
<1>1. /\ DOMAIN owned' = DOMAIN owned \ {p}
      /\ \A q \in DOMAIN owned \ {p} : owned'[q] = owned[q]
  BY Disowned
<1>2. \A q \in DOMAIN owned \ {p} : SizeOf(q)' = SizeOf(q)
  BY <1>1, SizeKept
<1>3. Malloc!Free(p)
  BY <1>1, <1>2 DEF Malloc!Free
<1>4. p \in Malloc!Units
  <2>1. PICK z, m : z = SizeOf(p) /\ m = NumPages * PageBytes
    OBVIOUS
  <2>2. p \in Nat /\ z \in Nat \ {0} /\ p + z <= m /\ m \in Nat
    BY <2>1, InvObjectsApart, Constants DEF ObjectsApart, Shards!CentralCacheAssumption
  <2>3. p \in 0 .. m - 1
    BY <2>2
  <2> QED BY <2>1, <2>3 DEF Malloc!Units
<1> QED BY <1>3, <1>4 DEF Malloc!Next

(* No object gained or lost is no change to the runs.                      *)
LEMMA SameIsStutter ==
  ASSUME Inv, Inv', Shards!SpansPersist, UNCHANGED owned
  PROVE  UNCHANGED Malloc!allocatorVars
<1>1. \A q \in DOMAIN owned : SizeOf(q)' = SizeOf(q)
  BY SizeKept
<1> QED BY <1>1 DEF Malloc!allocatorVars

(* What the program holds is what malloc promises: runs of bytes that do   *)
(* not overlap, each where it was handed out until it is freed.            *)
THEOREM RefinesMalloc == Spec => ImplementsMalloc
<1>1. Init => Malloc!Init
  BY DEF Init, Malloc!Init
<1>2. Inv /\ Inv' /\ [Next]_vars => [Malloc!Next]_(Malloc!allocatorVars)
  <2> SUFFICES ASSUME Inv, Inv', [Next]_vars
               PROVE  Malloc!Next \/ UNCHANGED Malloc!allocatorVars
    OBVIOUS
  <2>1. Shards!SpansPersist
    BY StepInv, PoolPersists
  <2> QED BY <2>1, OwnedSteps, GainedIsAlloc, DisownedIsFree, SameIsStutter
<1> QED BY <1>1, <1>2, InvHolds, PTL DEF Spec, ImplementsMalloc, Malloc!Spec

-----------------------------------------------------------------------------
(* What RangeAllocator promises is kept by every implementation of it.     *)
LEMMA StaysDisjoint ==
  Malloc!Disjoint /\ [Malloc!Next]_(Malloc!allocatorVars) => Malloc!Disjoint'
<1> SUFFICES ASSUME Malloc!Disjoint, [Malloc!Next]_(Malloc!allocatorVars) PROVE Malloc!Disjoint'
  OBVIOUS
<1>1. ASSUME NEW n \in Malloc!Lengths, NEW s \in Malloc!Units, Malloc!Alloc(n, s)
      PROVE  Malloc!Disjoint'
  BY <1>1 DEF Malloc!Alloc, Malloc!Overlapping, Malloc!Disjoint
<1>2. ASSUME NEW s \in Malloc!Units, Malloc!Free(s) PROVE Malloc!Disjoint'
  BY <1>2 DEF Malloc!Free, Malloc!Disjoint
<1>3. CASE Malloc!Destroy
  BY <1>3 DEF Malloc!Destroy, Malloc!Disjoint
<1>4. CASE UNCHANGED Malloc!allocatorVars
  BY <1>4 DEF Malloc!allocatorVars, Malloc!Disjoint
<1> QED BY <1>1, <1>2, <1>3, <1>4 DEF Malloc!Next

(* Two objects of the program never share a byte.                          *)
THEOREM ObjectsDisjoint == Spec => []Malloc!Disjoint
<1>1. Malloc!Init => Malloc!Disjoint
  BY DEF Malloc!Init, Malloc!Disjoint
<1> QED BY <1>1, StaysDisjoint, RefinesMalloc, PTL DEF ImplementsMalloc, Malloc!Spec
=============================================================================
