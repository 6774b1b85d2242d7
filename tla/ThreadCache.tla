---------------------------- MODULE ThreadCache ----------------------------
(***************************************************************************)
(* The front of the v3 pool (v3/src/ThreadCache.cpp): every thread keeps   *)
(* the blocks it frees on lists of its own and turns to the central cache  *)
(* when a list is empty or too long.  Any thread may free what another     *)
(* allocated; a thread that ends flushes its lists and may be followed by  *)
(* a new thread.                                                           *)
(*                                                                         *)
(* The central cache is CentralCache, over the blocks that are on these    *)
(* lists or in the hands of the program.  A list's order is left out, its  *)
(* counter is kept.  The debug guards are off, as they are by default.     *)
(***************************************************************************)
EXTENDS Integers, FiniteSets, FiniteSetsExt

CONSTANTS
  Threads, NoThread, NumClasses, NumPages, Granularity, PageBytes,
  BlockSize, SpanPages, BatchNum, LargePages,
  MaxCachedBlocks     \* maxCachedBlocks, by class

VARIABLES
  live, spans, partial, lock, call, lost,  \* as in CentralCache
  freeList,       \* freeList_: thread |-> class |-> blocks
  freeListSize,   \* freeListSize_: thread |-> class |-> counter
  phase,          \* "up", "exiting" inside ~ThreadCache, or "down"
  owned           \* the program's objects: address |-> class asked for

poolVars  == <<live, spans, partial, lock, call, lost>>
localVars == <<freeList, freeListSize, phase, owned>>
vars      == <<live, spans, partial, lock, call, lost, freeList, freeListSize, phase, owned>>

Classes == 0 .. NumClasses - 1
Pages   == 0 .. NumPages - 1
Large   == -1

Objects(c) == {p \in DOMAIN owned : owned[p] = c}
OnLists    == UNION {freeList[t][c] : t \in Threads, c \in Classes}
Outside    == OnLists \cup UNION {Objects(c) : c \in Classes}

Central == INSTANCE CentralCache WITH out <- Outside

ASSUME ThreadCacheAssumption ==
  /\ Central!CentralCacheAssumption
  /\ MaxCachedBlocks \in [Classes -> Nat]
  /\ \A c \in Classes : BatchNum[c] <= MaxCachedBlocks[c]

(* An address handed out while the program still has it is marked Twice,   *)
(* which is no class: malloc never does that.                              *)
Twice == -2

Own(p, c) ==
  owned' = [q \in DOMAIN owned \cup {p} |->
              IF q # p THEN owned[q] ELSE IF p \in DOMAIN owned THEN Twice ELSE c]
Disown(p) == owned' = [q \in DOMAIN owned \ {p} |-> owned[q]]

Running(t) == phase[t] = "up" /\ call[t] = Central!Idle

-----------------------------------------------------------------------------
(* allocate.                                                               *)

(* A variant that hands out the block at the head but leaves it there.     *)
PopKeeps(list, p) == list

Pop(list, p) == list \ {p}

AllocateCached(t, c) ==
  /\ Running(t)
  /\ \E p \in freeList[t][c] :
       /\ freeList' = [freeList EXCEPT ![t][c] = Pop(@, p)]
       /\ freeListSize' = [freeListSize EXCEPT ![t][c] = @ - 1]
       /\ Own(p, c)
  /\ UNCHANGED phase
  /\ UNCHANGED poolVars

fetchFromCentralCache(t, c) ==
  /\ Running(t)
  /\ freeList[t][c] = {}
  /\ UNCHANGED localVars
  /\ Central!FetchCall(t, c)

SizeAfterFetch(size, got) == size + Cardinality(got) - 1

(* fetchRange returns: the first block is the result, the others replace   *)
(* the list; with no block at all the allocation fails.                    *)
FetchReturns(t) ==
  LET c == call[t].class
      got == call[t].chain
  IN  /\ \/ /\ got = {}
            /\ UNCHANGED localVars
         \/ \E p \in got :
              /\ freeList' = [freeList EXCEPT ![t][c] = got \ {p}]
              /\ freeListSize' = [freeListSize EXCEPT ![t][c] = SizeAfterFetch(@, got)]
              /\ Own(p, c)
              /\ UNCHANGED phase
      /\ Central!FetchEnd(t)

(* A request above MAX_BYTES.                                              *)
AllocateLarge(t, n) ==
  /\ Running(t)
  /\ \E s \in Pages :
       /\ Own(s * PageBytes, Large)
       /\ UNCHANGED <<freeList, freeListSize, phase>>
       /\ Central!AllocLargeSpan(n, s)

-----------------------------------------------------------------------------
(* deallocate.                                                             *)

KeepNum(c, size) == Min({Max({size \div 2, 1}), MaxCachedBlocks[c]})

(* A variant that forgets to lower the counter after the split.            *)
SizeAfterSplitKept(c, size) == size

SizeAfterSplit(c, size) == KeepNum(c, size)

(* Push p on the list of class c; when the list is too long keep its first *)
(* KeepNum blocks and return the others.  The early returns of             *)
(* returnToCentralCache guard against a list shorter than its counter.     *)
Push(t, p, c) ==
  LET list == freeList[t][c] \cup {p}
      size == freeListSize[t][c] + 1
  IN  \/ /\ size <= MaxCachedBlocks[c]
         /\ freeList' = [freeList EXCEPT ![t][c] = list]
         /\ freeListSize' = [freeListSize EXCEPT ![t][c] = size]
         /\ UNCHANGED phase
         /\ UNCHANGED poolVars
      \/ /\ size > MaxCachedBlocks[c]
         /\ \E keep \in kSubset(KeepNum(c, size), list) :
              /\ freeList' = [freeList EXCEPT ![t][c] = keep]
              /\ freeListSize' = [freeListSize EXCEPT ![t][c] = SizeAfterSplit(c, size)]
              /\ UNCHANGED phase
              /\ Central!ReturnCall(t, c, list \ keep)

(* The class a block goes back to: that of its span when the caller gives  *)
(* the address only, otherwise that of the size the caller names.          *)
SpanClass(p) == {spans[s].sizeClass : s \in Central!findSpan(p)}

(* A variant that takes the class above the one that serves the size.      *)
SizedClassAbove(p) == Min({owned[p] + 1, NumClasses - 1})

SizedClass(p) == owned[p]

deallocate(t, p) ==
  /\ Running(t)
  /\ owned[p] # Large
  /\ Disown(p)
  /\ \E c \in SpanClass(p) \cup {SizedClass(p)} : Push(t, p, c)

deallocateLarge(t, p) ==
  /\ Running(t)
  /\ owned[p] = Large
  /\ Disown(p)
  /\ UNCHANGED <<freeList, freeListSize, phase>>
  /\ \E s \in Central!findSpan(p) : Central!FreeLargeSpan(s)

-----------------------------------------------------------------------------
(* The life of a thread.                                                   *)

Exit(t) ==
  /\ Running(t)
  /\ phase' = [phase EXCEPT ![t] = "exiting"]
  /\ UNCHANGED <<freeList, freeListSize, owned>>
  /\ UNCHANGED poolVars

(* A variant that leaves a list of one block behind.                       *)
FlushesLonger(t, c) == freeList[t][c] # {} /\ freeListSize[t][c] > 1

Flushes(t, c) == freeList[t][c] # {} /\ freeListSize[t][c] > 0

(* flushAll visits the classes in order.  A list is forgotten when its     *)
(* returnRange has ended; until then nobody reads it.                      *)

FlushClass(t, c) ==
  /\ phase[t] = "exiting"
  /\ call[t] = Central!Idle
  /\ Flushes(t, c)
  /\ \A d \in Classes : d < c => ~ Flushes(t, d)
  /\ freeList' = [freeList EXCEPT ![t][c] = {}]
  /\ freeListSize' = [freeListSize EXCEPT ![t][c] = 0]
  /\ UNCHANGED <<phase, owned>>
  /\ Central!ReturnCall(t, c, freeList[t][c])

Exited(t) ==
  /\ phase[t] = "exiting"
  /\ call[t] = Central!Idle
  /\ \A c \in Classes : ~ Flushes(t, c)
  /\ phase' = [phase EXCEPT ![t] = "down"]
  /\ UNCHANGED <<freeList, freeListSize, owned>>
  /\ UNCHANGED poolVars

(* A new thread constructs a new ThreadCache.                              *)
Start(t) ==
  /\ phase[t] = "down"
  /\ phase' = [phase EXCEPT ![t] = "up"]
  /\ freeList' = [freeList EXCEPT ![t] = [c \in Classes |-> {}]]
  /\ freeListSize' = [freeListSize EXCEPT ![t] = [c \in Classes |-> 0]]
  /\ UNCHANGED owned
  /\ UNCHANGED poolVars

(* The steps inside the central cache that the thread cache does not see.  *)
(* An exception passes through allocate and deallocate to the program; one *)
(* that leaves flushAll leaves a destructor and ends the process, so that  *)
(* nothing follows.                                                        *)
CentralStep(t) ==
  /\ UNCHANGED localVars
  /\ \/ Central!FetchAcquire(t)
     \/ Central!CreateSpan(t)
     \/ Central!TakeBlock(t)
     \/ Central!FetchThrows(t)
     \/ Central!ReturnAcquire(t)
     \/ Central!ReturnBlock(t)
     \/ phase[t] = "up" /\ Central!ReturnThrows(t)
     \/ Central!ReturnEnd(t)

-----------------------------------------------------------------------------
Init ==
  /\ live = [s \in {} |-> 0]
  /\ spans = [s \in {} |-> 0]
  /\ partial = [c \in Classes |-> {}]
  /\ lock = [c \in Classes |-> NoThread]
  /\ call = [t \in Threads |-> Central!Idle]
  /\ lost = {}
  /\ freeList = [t \in Threads |-> [c \in Classes |-> {}]]
  /\ freeListSize = [t \in Threads |-> [c \in Classes |-> 0]]
  /\ phase = [t \in Threads |-> "up"]
  /\ owned = [p \in {} |-> 0]

Continue(t) ==
  \/ CentralStep(t)
  \/ FetchReturns(t)
  \/ \E c \in Classes : FlushClass(t, c)
  \/ Exited(t)

Next ==
  \E t \in Threads :
    \/ Continue(t)
    \/ \E c \in Classes : AllocateCached(t, c) \/ fetchFromCentralCache(t, c)
    \/ \E n \in LargePages : AllocateLarge(t, n)
    \/ \E p \in DOMAIN owned : deallocate(t, p) \/ deallocateLarge(t, p)
    \/ Exit(t)
    \/ Start(t)

Spec == Init /\ [][Next]_vars

-----------------------------------------------------------------------------
(* A block is on one list of one thread or owned by the program, never     *)
(* both, and every list holds blocks of its own class only, whichever      *)
(* deallocate put them there.                                              *)
ListsApart ==
  /\ \A t, u \in Threads : \A c, d \in Classes :
       <<t, c>> # <<u, d>> => freeList[t][c] \cap freeList[u][d] = {}
  /\ OnLists \cap DOMAIN owned = {}
  /\ \A t \in Threads, c \in Classes : \A b \in freeList[t][c] :
       \E s \in Central!findSpan(b) : spans[s].sizeClass = c

(* freeListSize_ is the length of the list, and never exceeds the limit.   *)
SizesExact ==
  \A t \in Threads, c \in Classes :
    /\ freeListSize[t][c] = Cardinality(freeList[t][c])
    /\ freeListSize[t][c] <= MaxCachedBlocks[c]

(* Once every thread has ended and the program has freed everything, the   *)
(* only spans left outside the page cache are those of which an exception  *)
(* has dropped a block: without one there is none.  (What the page cache   *)
(* itself loses when it throws is the subject of PageCacheSteps.)          *)
NothingStranded ==
  (\A t \in Threads : phase[t] = "down") /\ owned = [p \in {} |-> 0]
     => \A s \in DOMAIN live : Central!Blocks(s) \cap lost # {}

(* Thread caches use the central cache by its rules.                       *)
UsesCentralProperly == Central!Spec

(* malloc's contract: the bytes of the objects the program holds never     *)
(* overlap, and an object stays where it is until it is freed.             *)
SizeOf(p) ==
  CASE owned[p] = Large -> PageBytes * live[p \div PageBytes]
    [] owned[p] = Twice -> 0
    [] OTHER            -> BlockSize[owned[p]]
Malloc == INSTANCE RangeAllocator
            WITH Extent <- NumPages * PageBytes, Slack <- 0,
                 live <- [p \in DOMAIN owned |-> SizeOf(p)], running <- TRUE
ImplementsMalloc == Malloc!Spec
=============================================================================
