---------------------------- MODULE CentralCache ----------------------------
(***************************************************************************)
(* The central cache of the v3 pool (v3/src/CentralCache.cpp): one shard   *)
(* per size class, guarded by a spin lock, that cuts spans of pages into   *)
(* blocks and lends the blocks in batches to the thread caches.            *)
(*                                                                         *)
(* A block is named by its address, a byte of the modelled memory.  A      *)
(* thread inside fetchRange or returnRange takes one step per iteration of *)
(* the loop, for another class may use the page cache in between.  The     *)
(* page cache is the RangeAllocator it implements.  The order of blocks    *)
(* and spans in their linked lists is left out, the counters beside the    *)
(* lists are kept.                                                         *)
(***************************************************************************)
EXTENDS Integers, FiniteSets

CONSTANTS
  Threads,
  NoThread,      \* the holder of a lock nobody holds
  NumClasses,    \* FREE_LIST_SIZE
  NumPages,      \* pages of the modelled address space
  Granularity,   \* systemAllocGranularity() / systemPageSize()
  PageBytes,     \* systemPageSize()
  BlockSize,     \* SizeClass::getSize, by class
  SpanPages,     \* pages createSpan asks for, by class
  BatchNum,      \* ThreadCache::getBatchNum, by class
  LargePages     \* page counts of the large objects the program asks for

Classes == 0 .. NumClasses - 1
Pages   == 0 .. NumPages - 1
Bytes   == 0 .. NumPages * PageBytes - 1
Large   == -1                \* sizeClass of a large object's span

ASSUME CentralCacheAssumption ==
  /\ NumClasses \in Nat \ {0} /\ NumPages \in Nat
  /\ Granularity \in Nat \ {0} /\ PageBytes \in Nat \ {0}
  /\ BlockSize \in [Classes -> Nat \ {0}]
  /\ SpanPages \in [Classes -> Nat \ {0}]
  /\ BatchNum \in [Classes -> Nat \ {0}]
  /\ \A c \in Classes : BlockSize[c] <= SpanPages[c] * PageBytes
  /\ LargePages \subseteq Nat \ {0}
  /\ NoThread \notin Threads

VARIABLES
  live,          \* spans out of the page cache: first page |-> pages
  spans,         \* the fields of those spans the users of PageCache write
  partial,       \* shards_[c].partial: spans of class c on the shard's list
  lock,          \* shards_[c].lock: its holder
  call,          \* what each thread is doing in the central cache
  out,           \* blocks lent to thread caches
  lost           \* blocks a call has dropped when an exception ended it

centralVars == <<live, spans, partial, lock, call, out, lost>>

PageLevel == INSTANCE RangeAllocator
               WITH Extent <- NumPages, Slack <- Granularity - 1, running <- TRUE

Idle == [op |-> "none", class |-> 0, chain |-> {}]

SpanFields ==
  [sizeClass : Classes \cup {Large}, blockCount : Nat, freeCount : Nat, freeList : SUBSET Bytes]

(* The span whose pages hold address p: at most one.                       *)
findSpan(p) == {s \in DOMAIN spans : (p \div PageBytes) \in s .. (s + live[s] - 1)}

BlockAddrs(s, class, n) == {s * PageBytes + i * BlockSize[class] : i \in 0 .. n - 1}

Blocks(s) == BlockAddrs(s, spans[s].sizeClass, spans[s].blockCount)

-----------------------------------------------------------------------------
(* Large objects take their spans from the page cache directly.            *)

AllocLargeSpan(n, s) ==
  /\ PageLevel!Alloc(n, s)
  /\ spans' = [x \in DOMAIN spans \cup {s} |->
                 IF x = s THEN [sizeClass |-> Large, blockCount |-> 1, freeCount |-> 0,
                                freeList |-> {}]
                 ELSE spans[x]]
  /\ UNCHANGED <<partial, lock, call, out, lost>>

deallocateSpan(s) ==
  /\ PageLevel!Free(s)
  /\ spans' = [x \in DOMAIN spans \ {s} |-> spans[x]]

FreeLargeSpan(s) ==
  /\ s \in DOMAIN spans
  /\ spans[s].sizeClass = Large
  /\ deallocateSpan(s)
  /\ UNCHANGED <<partial, lock, call, out, lost>>

-----------------------------------------------------------------------------
(* fetchRange.                                                             *)

(* A variant that enters without looking at the flag.                      *)
AcquireBlindly(t, op) ==
  /\ lock' = [lock EXCEPT ![call[t].class] = t]
  /\ call' = [call EXCEPT ![t].op = op]
  /\ UNCHANGED <<live, spans, partial, out, lost>>

Acquire(t, op) ==
  /\ lock[call[t].class] = NoThread
  /\ lock' = [lock EXCEPT ![call[t].class] = t]
  /\ call' = [call EXCEPT ![t].op = op]
  /\ UNCHANGED <<live, spans, partial, out, lost>>

FetchCall(t, c) ==
  /\ call[t] = Idle
  /\ call' = [call EXCEPT ![t] = [op |-> "fetchLock", class |-> c, chain |-> {}]]
  /\ UNCHANGED <<live, spans, partial, lock, out, lost>>

FetchAcquire(t) ==
  /\ call[t].op = "fetchLock"
  /\ Acquire(t, "fetch")

Fetching(t) ==
  /\ call[t].op = "fetch"
  /\ Cardinality(call[t].chain) < BatchNum[call[t].class]

(* createSpan.  Its n == 0 branch is dead: no class is larger than the     *)
(* span it asks for.                                                       *)
CreateSpan(t) ==
  /\ Fetching(t)
  /\ partial[call[t].class] = {}
  /\ LET c == call[t].class
     IN  \E s \in Pages :
           /\ PageLevel!Alloc(SpanPages[c], s)
           /\ LET n == (live'[s] * PageBytes) \div BlockSize[c]
              IN  spans' = [x \in DOMAIN spans \cup {s} |->
                              IF x = s THEN [sizeClass |-> c, blockCount |-> n, freeCount |-> n,
                                             freeList |-> BlockAddrs(s, c, n)]
                              ELSE spans[x]]
           /\ partial' = [partial EXCEPT ![c] = {s}]
  /\ UNCHANGED <<lock, call, out, lost>>

(* A variant that leaves an exhausted span on the shard's list.            *)
StillPartialAlways(s) == TRUE

StillPartial(s) == spans[s].freeCount - 1 > 0

TakeBlock(t) ==
  /\ Fetching(t)
  /\ LET c == call[t].class
     IN  \E s \in partial[c] : \E b \in spans[s].freeList :
           /\ spans' = [spans EXCEPT ![s].freeList = @ \ {b}, ![s].freeCount = @ - 1]
           /\ call' = [call EXCEPT ![t].chain = @ \cup {b}]
           /\ partial' = IF StillPartial(s) THEN partial
                         ELSE [partial EXCEPT ![c] = @ \ {s}]
  /\ UNCHANGED <<live, lock, out, lost>>

(* A variant that keeps trying when the system has no memory.              *)
FetchEndFull(t) ==
  /\ call[t].op = "fetch"
  /\ ~ Fetching(t)
  /\ lock' = [lock EXCEPT ![call[t].class] = NoThread]
  /\ call' = [call EXCEPT ![t] = Idle]
  /\ out' = out \cup call[t].chain
  /\ UNCHANGED <<live, spans, partial, lost>>

(* The batch is complete, or createSpan returned nullptr because the       *)
(* system has no memory.                                                   *)
FetchEnd(t) ==
  /\ call[t].op = "fetch"
  /\ Fetching(t) => partial[call[t].class] = {}
  /\ lock' = [lock EXCEPT ![call[t].class] = NoThread]
  /\ call' = [call EXCEPT ![t] = Idle]
  /\ out' = out \cup call[t].chain
  /\ UNCHANGED <<live, spans, partial, lost>>

(* createSpan throws: the page cache has no memory for its own records, or *)
(* with guards on the marks have none.  What it had of the pages is        *)
(* nobody's then.  The guard of the lock unlocks it, and the blocks that   *)
(* head held are gone.                                                     *)
FetchThrows(t) ==
  /\ Fetching(t)
  /\ partial[call[t].class] = {}
  /\ lock' = [lock EXCEPT ![call[t].class] = NoThread]
  /\ call' = [call EXCEPT ![t] = Idle]
  /\ lost' = lost \cup call[t].chain
  /\ UNCHANGED <<live, spans, partial, out>>

-----------------------------------------------------------------------------
(* returnRange.                                                            *)

ReturnCall(t, c, chain) ==
  /\ call[t] = Idle
  /\ chain # {}
  /\ call' = [call EXCEPT ![t] = [op |-> "returnLock", class |-> c, chain |-> chain]]
  /\ out' = out \ chain
  /\ UNCHANGED <<live, spans, partial, lock, lost>>

ReturnAcquire(t) ==
  /\ call[t].op = "returnLock"
  /\ Acquire(t, "return")

(* A variant that frees a span one block too early.                        *)
AllBackEarly(s) == spans[s].freeCount + 2 >= spans[s].blockCount

AllBack(s) == spans[s].freeCount + 1 = spans[s].blockCount

unlinkPartial(c, s) == [partial EXCEPT ![c] = @ \ {s}]

(* A block whose span is gone or of another class is skipped, and lost.    *)
Owners(b, c) == {s \in findSpan(b) : spans[s].sizeClass = c}

(* A variant that forgets freeCount.                                       *)
PutBackUncounted(b, c, s) ==
  /\ ~ AllBack(s)
  /\ spans' = [spans EXCEPT ![s].freeList = @ \cup {b}]
  /\ partial' = IF spans[s].freeCount = 0 THEN [partial EXCEPT ![c] = @ \cup {s}] ELSE partial
  /\ UNCHANGED live

PutBack(b, c, s) ==
  /\ ~ AllBack(s)
  /\ spans' = [spans EXCEPT ![s].freeList = @ \cup {b}, ![s].freeCount = @ + 1]
  /\ partial' = IF spans[s].freeCount = 0 THEN [partial EXCEPT ![c] = @ \cup {s}] ELSE partial
  /\ UNCHANGED live

ReleaseSpan(c, s) ==
  /\ AllBack(s)
  /\ partial' = unlinkPartial(c, s)
  /\ deallocateSpan(s)

ReturnBlock(t) ==
  /\ call[t].op = "return"
  /\ LET c == call[t].class
     IN  \E b \in call[t].chain :
           /\ call' = [call EXCEPT ![t].chain = @ \ {b}]
           /\ IF Owners(b, c) = {}
              THEN UNCHANGED <<live, spans, partial>>
              ELSE \E s \in Owners(b, c) : PutBack(b, c, s) \/ ReleaseSpan(c, s)
  /\ UNCHANGED <<lock, out, lost>>

(* deallocateSpan throws at its last step, which enters the span in a bin: *)
(* the span is off the shard and out of everybody's reach, and so is what  *)
(* the loop has not come to.                                               *)
ReturnThrows(t) ==
  /\ call[t].op = "return"
  /\ LET c == call[t].class
     IN  \E b \in call[t].chain :
           /\ lost' = lost \cup (call[t].chain \ {b})
           /\ \E s \in Owners(b, c) : ReleaseSpan(c, s)
  /\ lock' = [lock EXCEPT ![call[t].class] = NoThread]
  /\ call' = [call EXCEPT ![t] = Idle]
  /\ UNCHANGED out

ReturnEnd(t) ==
  /\ call[t].op = "return"
  /\ call[t].chain = {}
  /\ lock' = [lock EXCEPT ![call[t].class] = NoThread]
  /\ call' = [call EXCEPT ![t] = Idle]
  /\ UNCHANGED <<live, spans, partial, out, lost>>

-----------------------------------------------------------------------------
Init ==
  /\ live = [s \in {} |-> 0]
  /\ spans = [s \in {} |-> 0]
  /\ partial = [c \in Classes |-> {}]
  /\ lock = [c \in Classes |-> NoThread]
  /\ call = [t \in Threads |-> Idle]
  /\ out = {}
  /\ lost = {}

(* What a thread does while it is inside the central cache.                *)
Proceed(t) ==
  \/ FetchAcquire(t)
  \/ CreateSpan(t)
  \/ TakeBlock(t)
  \/ FetchEnd(t)
  \/ ReturnAcquire(t)
  \/ ReturnBlock(t)
  \/ ReturnEnd(t)

Step(t) == Proceed(t) \/ FetchThrows(t) \/ ReturnThrows(t)

(* Thread caches return only blocks of the class they name.                *)
Lent(c) == {b \in out : \E s \in findSpan(b) : spans[s].sizeClass = c}

Next ==
  \/ \E t \in Threads : Step(t)
  \/ \E t \in Threads, c \in Classes : FetchCall(t, c)
  \/ \E t \in Threads, c \in Classes : \E chain \in SUBSET Lent(c) : ReturnCall(t, c, chain)
  \/ \E n \in LargePages, s \in Pages : AllocLargeSpan(n, s)
  \/ \E s \in DOMAIN spans : FreeLargeSpan(s)

(* A thread past its call into the central cache keeps running.  Nothing   *)
(* is assumed of the spin lock: it may pass a waiting thread over forever. *)
(* No exception need ever come.                                            *)
Fairness == \A t \in Threads : WF_centralVars(Proceed(t))

Spec     == Init /\ [][Next]_centralVars
FairSpec == Spec /\ Fairness

-----------------------------------------------------------------------------
SmallSpans == {s \in DOMAIN spans : spans[s].sizeClass # Large}
InTransit  == UNION {call[t].chain : t \in Threads}
Away       == InTransit \cup out \cup lost

Ops == {"none", "fetchLock", "fetch", "returnLock", "return"}

TypeOK ==
  /\ DOMAIN live \subseteq Pages /\ live \in [DOMAIN live -> 1 .. NumPages]
  /\ DOMAIN spans = DOMAIN live /\ spans \in [DOMAIN spans -> SpanFields]
  /\ partial \in [Classes -> SUBSET Pages]
  /\ lock \in [Classes -> Threads \cup {NoThread}]
  /\ call \in [Threads -> [op : Ops, class : Classes, chain : SUBSET Bytes]]
  /\ out \subseteq Bytes
  /\ lost \subseteq Bytes

(* Every block of every small-object span is in exactly one place: on its  *)
(* span's free list, in the hands of one thread inside the central cache,  *)
(* lent out, or dropped by a call that an exception ended; and there are   *)
(* no other blocks.  So nothing fetchRange hands out is handed out twice,  *)
(* nothing a call has dropped turns up again, and nothing is missing that  *)
(* was not dropped.                                                        *)
BlocksConserved ==
  /\ \A t, u \in Threads : t # u => call[t].chain \cap call[u].chain = {}
  /\ InTransit \cap out = {}
  /\ lost \cap (InTransit \cup out) = {}
  /\ \A s \in SmallSpans :
       /\ spans[s].freeList \subseteq Blocks(s)
       /\ \A b \in Blocks(s) : b \in spans[s].freeList <=> b \notin Away
  /\ \A b \in Away : \E s \in SmallSpans : b \in Blocks(s)

(* freeCount is the length of the span's free list, on which both the      *)
(* decision to drop the span from the shard and the decision to give it    *)
(* back to the page cache rest.                                            *)
CountsExact ==
  \A s \in SmallSpans :
    /\ spans[s].freeCount = Cardinality(spans[s].freeList)
    /\ spans[s].freeCount <= spans[s].blockCount

(* A shard lists exactly its spans with a free block, so no freed block is *)
(* unreachable and no list keeps a span the page cache has taken back; and *)
(* nobody leaves the shard with a wholly free span on it.                  *)
PartialExact ==
  \A c \in Classes :
    /\ partial[c] = {s \in SmallSpans : spans[s].sizeClass = c /\ spans[s].freeCount > 0}
    /\ lock[c] = NoThread => \A s \in partial[c] : spans[s].freeCount < spans[s].blockCount

(* A thread that holds a shard's lock is inside the loop of that shard and *)
(* no other thread is, and it carries blocks of that class only.           *)
LockExact ==
  \A t \in Threads :
    /\ \A c \in Classes : lock[c] = t <=> call[t].op \in {"fetch", "return"} /\ call[t].class = c
    /\ \A b \in call[t].chain : \E s \in findSpan(b) : spans[s].sizeClass = call[t].class

(* A shard's lock is always given up: the loops under it end, and nothing  *)
(* inside them waits for another shard.                                    *)
LockReleased == \A c \in Classes : lock[c] # NoThread ~> lock[c] = NoThread
=============================================================================
