# A TLA+ model of my-MemoryPool

my-MemoryPool is a C++17 memory pool for small objects in three generations. `v3` is the one its
authors recommend: thread caches over a sharded central cache over a page cache. `v2` is an earlier
three-level pool, `v1` a fixed-size pool with a lock-free free list. This directory models the
parts that keep state, checks them with TLC on small instances and proves v3 down from
malloc's contract to the page cache, its tables, debug guards and statistics, the page cache and the
central cache of v2 and the pool of v1 with TLAPS.

## 1. The system

### v3

| component | state | operations | called by |
|---|---|---|---|
| `PageCache` (`v3/src/PageCache.cpp`) | `Span` objects, size bins `freeSpans_`, page map `pageMap_`, recorded mappings `systemAllocs_`, counter `cachedFreePages_` | `allocateSpan`, `deallocateSpan`, `findSpan`, `reservedBytes`, `cachedPageBytes`, destructor | CentralCache, ThreadCache (large objects) |
| `CentralCache` (`v3/src/CentralCache.cpp`) | per size class a shard: spin lock and list `partial` of spans with a free block; in each span `freeList`, `freeCount`, `blockCount`, `sizeClass` | `fetchRange`, `returnRange` (with `createSpan`, `unlinkPartial`) | ThreadCache |
| `ThreadCache` (`v3/src/ThreadCache.cpp`) | per thread and class `freeList_`, `freeListSize_` | `allocate`, `allocateAligned`, two `deallocate`, destructor (`flushAll`) | the API |
| `SpinLock` (`v3/src/Common.h`) | one flag | constructor, destructor | CentralCache |
| `SizeClass` (`v3/src/Common.h`) | none (compile-time tables) | `getIndex`, `getSize`, `roundUp` | ThreadCache, CentralCache |
| API and statistics (`v3/src/MemoryPool.cpp`) | relaxed atomic counters | `allocate`, `deallocate`, `stats` | programs, STL allocator, C API |
| debug guards (`v3/src/ThreadCache.cpp`) | per span a map of allocated blocks | validate and mark | ThreadCache, when compiled in |

**How they interact.** A request up to 256 KiB is served from the thread's own list. An empty list is
refilled with one `fetchRange`; a list above its limit sends about half of itself back with one
`returnRange`. Both run under the spin lock of their size class. When a shard has no span left,
`fetchRange` asks the page cache for one; when the last block of a span comes back, `returnRange` gives
the span to the page cache. Larger requests go to the page cache directly. Any thread may free what
another one allocated: the address leads to its span through `pageMap_`, or the caller names the size.
The locks are taken in one order: shard lock, `PageCache::mutex_`, `pageMapMutex_`.

**What is hard.** Long sequences of splits and merges that leave two of the page cache's four
structures in disagreement; pages that belong to another life of the same address; loops under one
shard's lock interleaved with other shards and with large objects; failure of the system in the middle
of a batch; blocks freed by a thread that never allocated them; threads that end. `PROJECT.json` lists
each of these under `hazards`, at its line.

**What makes each part correct.** The page cache: pages handed out are mapped and in nobody else's
hands, and the four structures agree. The central cache: every block is in exactly one place, and only an
exception drops one. The thread cache: malloc's contract for the program, and nothing stranded when threads end but what
an exception dropped.

### v1 and v2

`v1` (`v1/src/MemoryPool.cpp`): 64 independent pools, one per slot size. A pool pops slots from a lock-free list
(a `std::atomic` pointer with a tag against ABA) and otherwise carves them from 4 KiB blocks under a mutex. Hard: other
threads between a load of the head and the exchange; the link of a slot lies in the program's memory.

`v2` (`v2/src/`): thread caches over one central list per size class (spin lock) over a page cache
(mutex). The central cache tracks its spans and now and then counts free blocks to give spans back ("delayed
return"). Hard: the bookkeeping of that return.

## 2. The modules

| module | models | source |
|---|---|---|
| `RangeAllocator` | the promise every level makes to the next: runs of units, handed out without overlap | abstract |
| `PageCache` | v3 `PageCache`, one action per public operation | `v3/src/PageCache.cpp` |
| `PageCacheSteps` | the same, one step per update of the page map, with exceptions and concurrent lookups | `v3/src/PageCache.cpp` |
| `CentralCache` | v3 `CentralCache`, one step per loop iteration | `v3/src/CentralCache.cpp` |
| `ThreadCache` | v3 `ThreadCache` composed with `CentralCache`: the whole allocator | `v3/src/ThreadCache.cpp` |
| `SizeClasses` | the loops that build the size-class tables, the lookups, the policies by block size | `v3/src/Common.h`, `v2/include/Common.h` |
| `Requests` | from a request to a block or pages, in `size_t` arithmetic; v1's choice of a pool | `v3/src/ThreadCache.cpp`, `v3/include/kama/Allocator.h`, `v1/include/MemoryPool.h` |
| `DebugGuards` | the validation of frees, with a program that frees wrongly | `v3/src/ThreadCache.cpp` |
| `PoolStats` | the front end's relaxed counters and `stats()` | `v3/src/MemoryPool.cpp`, `v3/include/kama/MemoryPool.h` |
| `PageCacheV2` | v2's page cache | `v2/src/PageCache.cpp` |
| `CentralCacheV2` | v2's central cache with delayed return | `v2/src/CentralCache.cpp` |
| `ThreadCacheV2` | v2's thread cache and central cache over a memory of words, composed with `PageCacheV2` | `v2/src/ThreadCache.cpp`, `v2/src/CentralCache.cpp` |
| `MemoryPoolV1` | one pool of v1, one step per atomic access | `v1/src/MemoryPool.cpp` |
| `MC...` | instances for TLC | |
| `...Proofs` | theorems and proofs | |

```
 v3                                                       v2

 program   RangeAllocator over bytes                      RangeAllocator over words
    |               ^  (ImplementsMalloc)                        ^  (MallocUntilFault)
 ThreadCache --INSTANCE--> CentralCache                   ThreadCacheV2 --EXTENDS--> PageCacheV2 (proofs)
  (proofs)                 |  (proofs)                     (proofs)                      |
                           RangeAllocator over pages      CentralCacheV2 (proofs)        v
                                    ^  (proved)                 |                 RangeAllocator (proved)
                           PageCache (proofs)             RangeAllocator over pages
                                    ^
                           PageCacheSteps (proofs)        v1:  MemoryPoolV1 (proofs) --> RangeAllocator over words
```

Names of variables and actions are the code's where it has one. Wherever a property needs a mutant, the
module holds a variant of a definition with a plausible bug, commented "A variant that ..." or "As ..., but ...";
no action uses it.

**PageCache.** A `Span` object is named by its first page, which is never assigned after construction.
`spans` holds the fields; `freeSpans`, `pageMap`, `systemAllocs`, `cachedFreePages` are the members of the
class; `osPages` is what the operating system has mapped. All state changes happen inside one critical
section of `mutex_`, so each public operation is one action: `allocateSpan` splits into `TakeExact`,
`TakeAndSplit` and `MapNewOrigin`; `deallocateSpan` into `ReturnToSystem`, `CoalesceAndRelease`
and `CoalesceAndCache`, with the two merges computed by `NextMergeable` and `PrevMergeable`. The order of
spans within a bin is left out (any span of the bin may be its head), which allows more
behaviours than the code. `isLarge` is written by the caller after `allocateSpan` returns and
before anybody else can reach the span, so it is a parameter of the action. `mmap` may pick any unmapped
place, adjacent to an older mapping or not, or fail.

**PageCacheSteps.** `findSpan` takes only `pageMapMutex_`, so other threads look pages up between any two
updates of the page map while an operation holds `mutex_`. A step ends where a lookup may come between or
where `new Span`, a node of `freeSpans_` or `pageMap_`, or room in `systemAllocs_` may throw `std::bad_alloc`. `op` is the operation
that holds `mutex_`, `before` the cache as it was when that began, `thrown` whether any operation has ended by
an exception. What the cache was before the current operation follows `PageCache` (`ImplementsPageCache`) until
the first exception; after one, what is promised is only that lookups and bins stay sound: the pages of the
failed operation are lost to the pool until it is destroyed, and may be lost for good.

**CentralCache.** A block is its address. Each thread's `call` says where it is: waiting for a shard's lock,
in the loop of `fetchRange` (`CreateSpan`, `TakeBlock` per iteration) or of `returnRange` (`ReturnBlock` per
iteration: `PutBack`, `ReleaseSpan`, or a skipped block). Between two iterations other threads
use other shards and the page cache. `createSpan`'s call to `allocateSpan` and the assignments to the new
span's fields are one step, since only the holder of the lock can reach that span; so are a
block's return and the `deallocateSpan` it may trigger: the span is wholly free at that moment, so nobody else
can look it up. `partial` and the free lists are sets: the code only pushes, pops and unlinks, and the
counters beside the lists are kept and compared with them. The page cache may have no memory (`FetchEnd`: the blocks taken are
handed over) or throw `std::bad_alloc`, as `PageCacheSteps` shows it can: `FetchThrows` is a throw out of `createSpan` in the middle of
a batch, `ReturnThrows` one out of `deallocateSpan`. Either way the stack is unwound, the lock is given up, and the blocks the call had in its hands are nobody's;
`lost` is the set of them. `spans` and `live` are two
halves of a `Span`: what its users write and what the page cache owns.

**ThreadCache.** Adds `freeList` and `freeListSize` per thread and class, the program's objects `owned`
(address and class asked for) and each thread's `phase`. Calls into the central cache are the actions
of the instance `Central`, whose `out` is what lies on thread lists or with the program. Freeing by
address takes the class from the span (`SpanClass`), sized freeing from the size (`SizedClass`).
`flushAll` visits classes in order, one `returnRange` each, while other threads run. Exceptions of the central cache pass through
`allocate` and `deallocate` to the program, which goes on; one that leaves `flushAll` leaves a destructor and ends the process, so no step follows.

**SizeClasses and Requests.** The tables are built by the compiler with three loops; a step is an iteration, and
`Accepted` are the static assertions. `getIndex`, `roundUp` and the policies are operators over the finished
tables; `Search` is v2's binary search. `Requests` then answers one request: `Need`, `systemAlloc`, `TooManyPages` and `TooMany`
are the code's sums and products modulo `SizeMax + 1`, so a missing overflow check would show. Where a
block or large object lies within its span is free.

**DebugGuards.** `marks` is `debugAllocMap`, `largeOut` the flag of large spans. A free takes the code's three
steps: `findSpan`, the check under `debugMutex`, the list or page cache update. The program may free any
address, twice and from two threads at once, and name any class.

**PoolStats.** Every `fetch_add` and every load of `stats()` is a step. `view[t][c]` is the oldest value of counter `c`
that a relaxed load by `t` may still return, so a load picks anything between that and the present value. The allocator below is reduced to
the numbers the counters are about.

**PageCacheV2 and ThreadCacheV2.** The page cache keeps the code's map of spans, bins and mappings; neighbours merge whether or not
they come from one mapping. The thread cache keeps the links themselves: `word` is the memory, a list is the address of its first block, and the
program may overwrite the first word of any block it holds. A call is one step, since a thread cache is its thread's own and the
central cache is entered under the lock of one class; the delayed return that may follow (`delayed`) is one step per tracker, under the same lock, while threads in
other classes go on. `spanTrackers` is the code's vector: nothing is ever removed from it, and `getSpanTracker` takes the first match, which may be of an earlier life of the pages.
The counts are the code's, right or wrong, and what they trigger is carried out: a span goes back with its blocks in use, or with a length not its own.
`intact` turns FALSE at the first such step, and at the first single block handed out with a link in it (section 3). From there on lists and objects share memory, and
the model takes no further step but the end of the program: what one would have to say of it is undefined behaviour.

**CentralCacheV2.** Lists are sequences, since the order decides what the unlinking loop of
`updateSpanFreeCount` keeps (`Unlinked`). `spanTrackers` is the code's vector, searched in order, never
shortened. Elapsed time is a free choice (`late`). The update of each tracker is a step of its own. `givenBack` remembers
whether a span has gone back: the model is meaningful up to the first wrong return, since later two owners would write the same memory.

**MemoryPoolV1.** `freeList` is the tagged head; `op` says where each thread is between the
load, the access to the link (`PopRead`, `PushStore`) and the exchange (`PopTake`, `PushPublish`, or `...Retry`, which may
also happen without a reason, as for `compare_exchange_weak`). `next` is defined only for slots whose first word is the
pool's; reading any other link yields `Junk`. `owned` is a bag, so that a slot handed out twice counts
twice and shows in the refinement. The block arithmetic is the code's, in words of 8 bytes.
The critical section of `mutexForBlock_` is one action.

## 3. The runs

| run | checks | instance and why it is enough | distinct states |
|---|---|---|---|
| `page_cache` | the four structures agree (`PageMapExact`, `FreeListsExact`, `OriginsExact`, `CachedExact`), merging is complete (`Coalesced`), what the budget bounds (`WholeOriginBudget`), refinement of `RangeAllocator` | 6 pages, budget 3: a mapping cut in three beside a second, adjacent mapping, a merge on both sides, mappings over and under the budget | 53,269 |
| `page_cache_budget` | expected violation: the documented 64 MiB limit | the same instance | |
| `page_cache_steps` | lookups and bins between any two updates and after exceptions (`LookupsSound`, `BinsSound`), spans in use are not written (`HeldUntouched`), refinement of `PageCache` | 4 pages, budget 3: splits and both merges happen, any number of exceptions | 84,830 |
| `central_cache` | conservation of blocks up to those dropped by an exception, counters, lists, lock discipline (`BlocksConserved`, `CountsExact`, `PartialExact`, `LockExact`), a lock is always released (`LockReleased`) | 2 threads, 3 pages, two classes of one page: one cuts it in two and fetches three blocks at a time, so that a batch needs a second span and may fail or throw there with a block in hand; a span of the other is a single block. Large objects of one page compete, so every allocation can fail | 316,801 |
| `thread_cache` | lists apart (`ListsApart`), counted lengths (`SizesExact`), nothing stranded but what an exception dropped when all is freed and threads have ended (`NothingStranded`), the central cache used by its rules, malloc's contract | 2 threads that exchange objects and end, 4 pages, a class of one block per page and one of two blocks in two pages, batches and lists of 2, large objects of a page, exceptions | 146,454 |
| `requests` | least class for every size (`IndexLeast`), batches fit lists and spans hold blocks (`PoliciesFit`), what is served is big enough, aligned, and found again by its size | the library's constants; sizes, alignments and counts at which something changes; `size_t` of 24 bits, far above `MAX_BYTES`, so that every sum can still wrap | 35,864 |
| `debug_guards` | each block in one place whatever the program frees (`OnePlace`), a free passes exactly if it is right (`JudgedRightly`) | 2 threads, 2 spans of 4 units that change between a class of two blocks, one of one block with a tail, and large | 51,944 |
| `pool_stats` | a report at rest is exact (`QuiescentExact`), a report under way never wraps (`LiveNeverWraps`), refills and flushes balance (`CentralFlow`) | main thread and a worker, 2 allocations, 1 report | 1,002,406 |
| `pool_v1` | the list stays a chain of free slots, nothing lost, slots inside blocks, refinement of `RangeAllocator` | 2 threads, two blocks of two slots, 5 changes of the head: enough for a slot to be popped, used, pushed again and met by a thread that holds the old head | 132,671 |
| `thread_cache_v2` | up to the first fault of the two kinds below: links make disjoint lists of the counted length (`ListsSound`) and malloc's contract (`MallocUntilFault`); the page cache tiles its memory (`TilesMemory`) and maps only for want of a run (`MapsOnlyForWant`) | 2 threads, 2 pages of 2 words, a class of two blocks in a page, one of two blocks in two pages, one of a single block; lists of 3, 1 and 1; 2 trackers with counts up to 3. Enough for delayed returns of two threads at once, one right in its count, one with a block lent, one of a span that is gone or has another length, and for a tracker that outlives its span and covers blocks of another class | 318,404 |
| `central_cache_v2` | conservation of blocks up to the first return of a span | 2 threads, a class of two blocks per page and one whose span is a single block, 2 pages, at most 2 tracked spans, counts up to 3 | 2,762,839 |
| `central_cache_v2_span` | expected violation, see below | 1 thread, 1 class of three blocks per page, 2 pages | |

Bounds are the constants of the configurations: `NumPages` (address space), `MaxCachedPages` (budget),
`Granularity`, `Threads`, `NumClasses`, `PageBytes`, `LargePages`; in `MemoryPoolV1` `NumWords` and
`MaxTag` (changes of the head); in `CentralCacheV2` and `ThreadCacheV2` `MaxTrackers` (spans ever cut into several blocks) and
`MaxFreeCount` (how far a tracker's counter may run off); in `PoolStats` `MaxAllocs` and `MaxStats`; in `Requests` the sets of
requests. Runs that say `CHECK_DEADLOCK FALSE` are of systems that stop: a destroyed cache, an answered request, an
exhausted bound.

**Fairness.** Only `central_cache` assumes any: weak fairness of `Proceed(t)`, a thread past its
call keeps executing, which any scheduler provides; that an exception ever comes is not assumed. Nothing is assumed of the spin lock, which has no queue
(`Common.h:50`), so no property says that a waiting thread enters.

**Expected violations.** `CacheWithinBudget`: `README.md:52` of the repository gives 64 MiB as the upper limit of the page
cache and `v3/tests/UnitTest.cpp:417` asserts it. `deallocateSpan` compares the budget only
when the merged span is its whole mapping (`PageCache.cpp:247`), so free pieces of partly used mappings are
cached without limit. `WholeOriginBudget` is what does hold, and it is proved.

`LentBlocksBacked`: v2's `updateSpanFreeCount` adds the blocks it counts on the list to a counter that already
counts them (`v2/src/CentralCache.cpp:232`); the sum can equal `blockCount` while a block is lent out, and the span goes back
to the page cache, against the comments at `CentralCache.cpp:235` and `CentralCache.h:18`.

**Other disagreements met while modelling.** `debug_guards` with `WrongKind = TRUE` (a program may name a size above `MAX_BYTES` for a small object or the reverse) breaks `OnePlace`
and `JudgedRightly`: a large object freed with a small size passes, since the branch for large spans does not look at the class
(`v3/src/ThreadCache.cpp:53`), and a small object freed with a large size is unmarked and then checked a second time, which fails and
loses the block (line 224). `README.md:137` of the repository recommends the guards for finding misuse in development and CI; it does not name a wrong size in particular.

The two kinds of fault that `intact` of `ThreadCacheV2` records are both reached in `thread_cache_v2`, and each breaks the contract of v2 in the code:

* A span is given back wrongly: with a block in use, because the count is too high (as in `LentBlocksBacked`), or under the length
  of a tracker whose span went back long ago. A tracker is never removed (`v2/src/CentralCache.cpp:292-307` finds the oldest), so it counts blocks of whatever was cut from its pages later,
  of another class or length too (lines 201-227), and its old length is what `deallocateSpan` is told (line 270) and believes (`v2/src/PageCache.cpp:92`).
* A span that makes a single block is handed out with its first word as it was, and the thread cache takes that word for the rest of the list
  (`v2/src/ThreadCache.cpp:98`, against the comment at line 96).

One case is out of the run's reach: a give-back of an address the page cache has forgotten, since the span there was merged into another; it takes three
trackers. The proof covers it: the page cache ignores the call, and the blocks unlinked for it are lost.

Two more need no run. The loop that unlinks a returned span's blocks in v2 (`v2/src/CentralCache.cpp:243-260`) assigns `newHead` only while it unlinks at the front,
so if the first block belongs to another span the whole free list is dropped, against the comment at line 241. And `allocateAligned` ignores
the alignment of a request for no bytes and promises nothing above a page's alignment (`v3/src/ThreadCache.cpp:179`), which is why `AlignedWithinPage` says "up to a page".

## 4. The proofs

All theorems hold for every value of the constants that satisfies the module's `ASSUME`.

What refines `RangeAllocator` never hands out overlapping runs: its `Disjoint` is inductive by itself, and four refinements end by drawing that
conclusion for their own runs (`RunsApart` in `PageCacheProofs`, `SlotsApart` in `RequestsProofs`, `RunsApart` in `ThreadCacheV2Proofs`, `ObjectsDisjoint` in
`ThreadCacheProofs`: two objects of the program never share a byte).

`PageCacheProofs` assumes only `PageCacheAssumption` (natural numbers, a positive granularity). No safety
property of `PageCache` is inductive alone: that a merge keeps the page map right needs the free lists to be
right (or a deleted span would be merged), that a free list is right needs the page map, that a
mapping is released with nothing inside needs the tiling of mappings, and the counter needs all of them to know which
pages are free. So the inductive invariant is their conjunction,
`Inv == TypeOK /\ PageMapExact /\ FreeListsExact /\ OriginsExact /\ CachedExact`, proved by one lemma per
way an operation changes the state (taking exactly, splitting, mapping, returning to the system, coalescing into
the cache, coalescing and releasing, destruction). `Coalesced`, `WholeOriginBudget` and `DestroyedClean`
follow relative to `Inv`. `RefinesRangeAllocator` shows that each step maps to a step of `RangeAllocator`: a
span taken is an `Alloc` of its length (disjoint from the others since the page map is a function),
`deallocateSpan` is a `Free` of exactly the span freed (merging touches only free spans).
Since `CentralCache` and `ThreadCache` are built over `RangeAllocator`, this is what justifies leaving the
page cache's inside out of them.

The second part of `PageCacheProofs` proves the four properties of `page_cache_steps`, which are about the page cache between two updates and after exceptions. Its inductive
invariant `StepInv` holds after any number of exceptions as well, when `PageCache`'s does not: a failed operation may leave pages that are in the map, in no bin and
with nobody, or a `Span` whose pages are no longer in the map. So it speaks only of the spans somebody can still reach, those held by a caller, those in a bin, those the map names and those of the operation that runs:
a span in a bin has the bin's size, is in one bin only and is nobody's (`BinsExact`), what callers hold is mapped and never of the operation (`HeldExact`), the spans placed do not overlap (`Apart`) and the map leads to them from each of their pages
(`PlacedMapped`), what the map names exists and contains the page (`MapSound`, hence `LookupsSound`), mappings are apart (`AllocsApart`), the counter counts the bins (`Counted`), and
the operation's own values fit what it has done so far (`OpExact`). That what an exception leaves behind cannot be reached again is then a consequence of the code's tests: a merge looks at a neighbour only
through the map and takes it only from a bin. The refinement goes the other way round from the usual one: `Committed` is the cache as it was when the
operation began, and `Underway` says for each phase how far the variables have moved away from it. The step that ends an operation (`Hand`, `Place`, `Release`, the last step of the destruction) is a step of `PageCache`
from `Committed`; every other step leaves `Committed` alone; a step that throws is excused. So what the first part proves of the page cache as one action per operation is true of the code between exceptions.

`CentralCacheProofs` proves the four safety properties of `central_cache`, from `CentralCacheAssumption` (a block fits its span, positive sizes and batches,
at least one class as `Common.h:136` asserts). That a block returned finds its span is arithmetic: the blocks of a span lie in its pages
(`BlocksInside`), so the span at the block's page is the one it was cut from (`BlockHome`), and there are as many blocks as were counted
(`BlocksCounted`). For this the invariant adds that spans are disjoint, lie in the address space, and were cut whole. `PartialExact` allows a wholly free
span on a locked shard, between `createSpan` and the first block taken; to show that `ReleaseSpan` never meets one the invariant says
when that is (`FreshSpan`): the span is then alone on its list and the lock's holder is inside `fetchRange`. Where blocks are when they are not with their span (`Away`) includes those
dropped by an exception: what is proved is that nothing else ever drops one, and that a dropped block stays dropped: it is never lent again, so its span is never given back with it. The theorems are about `Spec`; the run's `FairSpec` implies it.

Its last part states what a caller of `CentralCache` may rely on: a step keeps the place and class of every span it does not remove
(`StepPersists`), so a block away from its span keeps its home (`HomeKept`), and blocks and spans do not overlap in memory (`BlockBytes`,
`BlocksApart`, `SpansApart`).

`ThreadCacheProofs` proves every property of the `thread_cache` run, for the whole allocator, from `ThreadCacheAssumption`
(`CentralCacheAssumption`, and a batch fits the list limit, which is part of `PoliciesFit`, proved for the library's tables).
`Inv == TypeOK /\ ListsApart /\ SizesExact /\ OwnedExact /\ CallsExact /\ Shards!Inv` holds the central cache's invariant over the blocks on
lists and with the program. `ListsApart` is not inductive alone: that a freed block joins a list of its class needs `OwnedExact` (an object
lies in a span of the class asked for; the large objects are exactly the large spans), that a refill may replace the list needs
`CallsExact` (the list of a thread that fetches is empty and its batch within the limit), and that a block under the lists stays of its
class needs `Shards!Inv`. `LocalParts` says what an action has to show: lists and objects hold blocks that were away from their spans, of
their class. The same lemmas show that each step is one of `CentralCache` or none (`UsesCentralCorrect`). `NothingStranded` follows since a span no dropped block belongs to would have every block on its
free list, and be wholly free on an unlocked shard, against `PartialExact`. `RefinesMalloc` places every object in its span
(`ObjectHome`), so objects do not overlap (`InvObjectsApart`) and keep their sizes (`SizeKept`).

The first part of `ThreadCacheV2Proofs` proves the page cache of v2 under `PageSpec`: any caller that gives back spans it was handed, at their length. That is what
`ThreadCacheV2` does up to its first fault, and it stops there. Only `NumPages \in Nat` is assumed. The inductive invariant is
`SpansInv == SpansTyped /\ TilesMemory /\ HeldExact /\ Merged /\ Recorded /\ DestroyedClean`. `TilesMemory` alone is not inductive: a span has no flag that says it is free, so what
may be absorbed is known only from `HeldExact` (the spans on no list are exactly the caller's). `Merged` (no free span begins where another ends) makes a merge with one
neighbour on each side enough, and `Recorded` (the mappings recorded make up the memory mapped) is what the destructor relies on. `MapsOnlyForWant` is an action property:
a run of free pages lies within one free span, since `Merged` leaves no border between two inside the run (`RunWithinSpan`); so some bin from the size asked for on is not empty, and `lower_bound`
finds the least such bin (`LowerBoundFinds`, by well-foundedness of `<`). `RefinesSpanPromise` maps allocation to `Alloc` and `deallocateSpan` to `Free`.

Its second part proves the front of v2, `ListsSound` and malloc's contract down to the links in memory, from `ThreadCacheV2Assumption` alone: spans of one block, trackers of spans long gone and any counts are in. What is
claimed holds as long as `intact` does, so the theorems say that v2 can break the contract in no other way than by the two kinds of fault of section 3. They do not say that v2 keeps malloc's contract: it does not.
The invariant is `Inv == SpansInv /\ (intact => CInv)` with `CInv == TypeOK /\ ListsGood /\ Placed /\ SpansSound /\ SizesExact`: the chain of links behind every head ends and repeats nothing (`ListsGood`); a block is on at most one list or
with the program, never both, and lies at a block's place in a span of its class (`Placed`); the page cache knows each span as in use, at its length (`SpansSound`; that spans do not overlap then follows from `SpansInv`); `freeListSize_` is the length of the list, within the threshold (`SizesExact`). None is inductive alone.
It says nothing of the trackers, and need not.
That a link still leads where it did needs `Placed`: only a block with the program is written by it. That a freed block joins a list of its class needs `Placed`; that cutting a list at a block finds the block needs `SizesExact`.
A list is read off memory by `Walk`, a recursive function. What it computes is not proved by induction but by a least counterexample: a chain of links that ends is the list `Walk` gives (`WalkChain`), and from there on every
operation is a lemma about one list in memory: a write elsewhere leaves it (`ListKept`), a push (`ListPushed`), a pop (`ListRest`), a cut (`ListCut`), the joining of two (`ListJoin`), a list linked afresh (`ListLinked`),
and the blocks of a span taken out of one (`WithoutFacts`). `CallKeepsInv` says once what a call has to show: it changes two lists, the program's blocks and words in blocks of its own.
`CallKeepsInv` serves the calls, `UpdateInv` the steps of a delayed return: a count that is wrong changes a tracker only; a span given back intact is one the page cache holds at that length, so it is one of `spans` and no other overlaps it (`TrackerPlace`, `SpansApart`),
and nobody has a block of it any more, so the rest of the lists stays as it was; and when the page cache does not know the address, the list loses blocks and that is all (`ShortenedInv`). In the refinement a block handed out is an `Alloc`, which overlaps no object since different
blocks are apart, in one span or in two (`HomesApart`); a free is a `Free`; the flushes and returns are stutters.

The last part of `RequestsProofs` proves the lock-free list of v1 for any threads, slot size, block size and memory, from `MemoryPoolV1Assumption` (a block holds more than two
slots, so its first slot fits behind the link and the padding). The list is not a sequence beside the links but the least set that holds the head and is closed under
them (`FreeSlots`), which the provers can use: a pop takes the head out of it (`ListPops`), a push adds one slot in front (`ListPushes`), a link stored in a slot outside it
changes nothing (`ListKept`). The ABA argument is `OpExact`: the tag a thread carries is never above the head's, so a head equal to the one it loaded has
not changed since and the link it read behind it still holds, junk or not; a change of the head raises the tag above every tag that is carried (`TagRises`).
What is carved lies behind all slots of its block (`CarvingExact`), and slots are multiples of their size, so they never overlap (`SlotsSpaced`). `FreeListSound`, `SlotsInBlocks`,
`SlotsKept` and the refinement of `RangeAllocator` follow. `MaxTag` bounds nothing in the proof: it may be any natural number, but a tag that wraps is outside the model.

`DebugGuardsProofs` proves both properties of the `debug_guards` run, from `GuardsAssumption` and the hypothesis `~ WrongKind`: the program may free
anything, twice, misaligned, in the middle of an object, of another thread, while another free of it is under way, and it may name any size as long as it is on the
right side of `MAX_BYTES`. The hypothesis is needed: without it the code breaks `OnePlace` (section 3). `JudgedRightly` is an action property about the check;
the invariant behind it is `MarksExact`, that the marks are exactly the blocks the program holds. It is not inductive alone. A mark is found
by the block's index, so blocks must be where the index puts them (`AtHome`, with the arithmetic of `BlockIndex` and `IndexApart`: different blocks of a span have
different indices and every index is below the map's size); a block that is about to be marked or listed must still be of the class it was cut for
(`CallsExact`, which rests on a span not being given back while a call is at one of its blocks); and it must be nowhere else (`Once`). `Kept`, that a block of a span in use is
somewhere, gives the other half of `OnePlace`; that a span given back has all its blocks at home, and so none elsewhere, is what keeps it (`Released`).
Under the hypothesis the second check of a block (`v3/src/ThreadCache.cpp:224`) is never reached, which `CallsExact` says too.

`PoolStatsProofs` proves the three properties of `pool_stats` for any finite set of threads and any bounds, from `StatsAssumption`. None is inductive: each compares counters that lag behind what
they count by the calls under way, so `Inv` says by how much. `TakenExact`: blocks given out are objects or belong to calls that are being granted one. `CountsExact`: `allocCount` lacks the calls not yet at
their first addition, `freeCount` likewise, and the counters by kind and by way lack those between the two additions. `FlowExact`: the refill and flush counters account for every block listed or given
out, where a call that has yet to count its refill or flush is taken with the list it found (`Known`); once a thread has ended the accounted blocks are only bounded, since `flushAll` counts nothing.
`ViewsExact` is about the relaxed loads: some thread has seen the last value of every counter, and what a joined thread saw the main thread has seen; with every other thread joined, the main
thread has seen the last value of each and can load nothing else (`AllSeen`). `OutExact` follows `stats()` from load to load. How many threads are at a step, and how many blocks they list, are sums over the threads; `SumOf` takes
them as the number of pairs below the function, for which one lemma (`SumChange`: a sum changes by what one thread changes) and monotonicity (`SumBelow`) serve every step.

`RequestsProofs` proves the seven invariants of `requests`. The loops that build the tables are steps of the model, so what they compute needs no induction over data but an invariant of
the loops: `TableSound` says that the sizes written so far ascend in multiples of `ALIGNMENT` and where the next one goes, `LoopSound` how far each of the three loops has come and that it stops before the table is full,
`MapsSound` that every entry of the lookup written so far names the least class that is large enough; `Asserted` says that a program only runs with tables that passed the static assertions, `Answered` and `Located` that the last request was
served with enough bytes, at a place and with an alignment its kind of block can have. `BigEnough`, `SizedFreeMatches` and `MapsAgree` hold for any constants that satisfy the assumptions: any alignment,
limit and width of `size_t`. There `TooMany` and `TooManyPages` are shown to be the code's way of asking whether the true sum or product would wrap.
`IndexLeast`, `PoliciesFit` and `AlignedWithinPage` depend on the numbers and are proved under `Library`, the library's own (alignment 8, 256 KiB, at most 64 classes, a small map up to 256). That `Search`, v2's binary search, is the same function as the
lookup is by a least counterexample (the length of the interval left), since the library's induction theorems are out of reach. `RequestsAssumption` asks for pages and granularity
that are powers of two, as the mask in `v3/src/PageCache.cpp:99` does. A power is one up to 2^30, so that TLC can evaluate it; the mapping granularity of a real system is at most 2^16.

`CentralCacheV2Proofs` proves `BlocksConserved` for any threads, classes and sizes, from `CentralCacheV2Assumption`. The invariant is `~ givenBack => Sound`: a block is in one place, a list, a call's chain or
a thread cache (`Apart`); the spans handed out do not overlap, by the page cache's promise (`SpansApart`); every block lies in one of them (`Backed`); and a tracked span is
one of them, whose blocks, as many as `blockCount` says, are all in one of these places (`TrackersExact`). The last part is what needs the others: two spans cut for different classes must not share a
block, or the count of one would hold blocks of the other. The attempt to prove an earlier form of the property, which took "no delayed return has been carried out" for "every tracker is still there", failed for a good reason: a span that makes
one block has no tracker, so nothing in the state told the two apart. The history variable `givenBack` does, and the run's second class is such a span. Nothing is claimed past the first span given back, because there the code's own count is wrong
(section 3).

Only model-checked:

* liveness (`LockReleased`), which is out of the prover's reach;
* the two expected violations of section 3. Where else the code breaks a property, the theorem says up to where it holds: `intact` for v2's lists and contract, `~ givenBack` for its central cache, and the hypothesis `~ WrongKind` for the debug guards.

## 5. Not modelled

* `mmap`, `munmap` and `VirtualAlloc` themselves (`Platform.h`): they appear as what the system may return. A failing `munmap` is ignored by the code and left out.
* Use of the pool after its static objects have been destroyed.
* A read of a `Span` that an erroneous free races with the deletion of: `DebugGuards` keeps a span whole while a free stands between lookup and check
  (`Inspected`). A correct free needs no such help.
* What the page cache of v3 keeps to itself for good when it throws (`PageCacheSteps` models it): the pages of a span it was still making, or had been given, are neither the program's nor lent, so
  `NothingStranded`, which is about spans of the central cache, does not count them. Exceptions out of the page cache are left out of `DebugGuards` and `PoolStats`, whose subjects are the marks and the counters.
* In `PoolStats`: failed allocations, which count nothing; large blocks of more than a page. A sized free of an aligned large block is taken to name a large size. By the size
  asked for, `deallocate` (`v3/src/ThreadCache.cpp:238-259`) would put the block on a small list; the library's own allocator frees such a block without a size (`v3/include/kama/Allocator.h:42`).
* In v2 (`CentralCacheV2`, `ThreadCacheV2`): a page cache that fails, by `nullptr` or an exception, and vectors that throw; what happens after the first fault (section 3). Two classes may meet in one
  tracker, each under its own lock: the code's load and store of `freeCount` may then lose an update (`CentralCache.cpp:232-233`), while a step of `ThreadCacheV2` is atomic. Its proofs make no use of the counts, so they hold whatever the counts are. Its
  `TilesMemory` speaks of spans given back at their length: what a wrong length does to the page cache's map is after the first fault.
* In `ThreadCacheV2`: requests above `MAX_BYTES`, which go to `malloc`.
* In v1: a second `initMemoryPool`, constructors that throw in `newElement`, the wrap of the tag (after 2^64 changes, 2^32 on a 32-bit build), and weak memory. The code loads and stores links relaxed and reloads the head relaxed when an exchange fails
  (`v1/src/MemoryPool.cpp:100,116,119`); in the model all threads see one order of accesses. A link read too old is junk or a past link, which the model has for stale heads only.
* The C functions and the STL allocator beyond their arithmetic: they forward.
* Tests, benchmarks, examples and build files: they drive the allocator and keep none of its state.

## 6. Plan

1. Done: every component of the three generations that keeps state has a module; the page cache, central cache and thread cache of v3, from malloc's contract down to the single update of the page map, its tables and request arithmetic, the debug guards and the statistics, the page cache, the central cache and the thread caches of v2 and the lock-free pool of v1 are proved.
2. Next proofs: of the safety properties the runs check, none is left.
3. Next models: v2 past its two faults, once the code mends them (the models then need no `intact` and no `givenBack`); v1's list under the relaxed orders the code asks for; the wrap of v1's tag with a small tag.
