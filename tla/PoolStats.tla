----------------------------- MODULE PoolStats -----------------------------
(***************************************************************************)
(* The MemoryPool front end of v3 with statistics on: allocate,            *)
(* allocateAligned, the two deallocate functions, newElement, and stats()  *)
(* (v3/src/MemoryPool.cpp, v3/include/kama/MemoryPool.h).                  *)
(*                                                                         *)
(* Every counter is an atomic that threads add to, and stats() loads one   *)
(* by one, all with memory_order_relaxed.  An addition reads the latest    *)
(* value; a load may return any value not older than one the thread has    *)
(* seen.  view[t][c] is that oldest value: the thread's own last addition  *)
(* or load, or, for the main thread, what a thread it has joined had seen. *)
(* That is less than the memory model grants (the PageCache mutex orders   *)
(* more), so the model has every behaviour the code has.                   *)
(*                                                                         *)
(* The layers below are reduced to what the counters are about: how many   *)
(* blocks a thread has listed and how many pages are reserved and cached.  *)
(* Objects of a kind are told apart by number only.  "aligned" is a small  *)
(* request whose alignment makes it a large block: it is counted by the    *)
(* size asked for.  A sized free of it is taken to name a large size: the  *)
(* size asked for would put it on a small list (v3/src/ThreadCache.cpp:238). *)
(* The STL allocator frees what is over-aligned without a size.  A failed  *)
(* allocation changes no counter and is left out, as are the exceptions of *)
(* the page cache.                                                         *)
(* Every large block has one page.  Bounds: MaxAllocs allocations and      *)
(* MaxStats calls of stats.                                                *)
(***************************************************************************)
EXTENDS Naturals, Sequences, FiniteSets

CONSTANTS Threads, Main,
          Batch,          \* blocks one refill brings
          MaxList,        \* blocks a thread may list before it halves
          MaxCachedPages, \* kMaxCachedBytes, in pages
          MaxAllocs, MaxStats,
          CounterRange    \* stands for 2^64

ASSUME StatsAssumption ==
  /\ IsFiniteSet(Threads) /\ Main \in Threads
  /\ Batch \in Nat \ {0} /\ MaxList \in Nat \ {0}
  /\ MaxCachedPages \in Nat
  /\ MaxAllocs \in Nat /\ MaxStats \in Nat
  /\ CounterRange \in Nat /\ CounterRange > 2 * MaxAllocs * Batch

VARIABLES
  count,  \* the global counters
  view,   \* view[t][c]: no load of c by t returns less
  list,   \* list[t]: blocks in the free list of t
  pages,  \* [reserved, cached] of PageCache
  taken,  \* taken[k]: blocks of kind k that the thread caches have given out
  held,   \* held[k]: objects of kind k the program has
  call,   \* call[t]: the call thread t is in
  alive,  \* alive[t]: "running", "exited" or "joined"
  out,    \* what stats() has loaded so far
  calls   \* calls of stats so far

vars == <<count, view, list, pages, taken, held, call, alive, out, calls>>

Kinds == {"small", "large", "aligned"}
Idle  == [step |-> "idle"]

\* The order of the loads in stats().
LoadOrder == <<"alloc", "free", "small", "large", "sized", "unsized",
               "refill", "flush">>
Counters == {LoadOrder[i] : i \in DOMAIN LoadOrder}

NewOut == [quiet |-> FALSE, reserved |-> 0, cached |-> 0,
           value |-> [c \in Counters |-> 0], live |-> 0]

Larger(a, b) == IF a > b THEN a ELSE b

\* fetch_add: the thread has now seen the value it wrote.
FetchAdd(t, c, n) ==
  /\ count' = [count EXCEPT ![c] = @ + n]
  /\ view' = [view EXCEPT ![t][c] = count[c] + n]

Goto(t, next) == call' = [call EXCEPT ![t] = next]

----------------------------------------------------------------------------
\* The counter recordAllocation adds to besides allocCount.
AllocCounter(k) == IF k = "large" THEN "large" ELSE "small"

\* The page of a large block comes from the cache or from the OS.
PagesTaken ==
  IF pages.cached > 0
  THEN [pages EXCEPT !.cached = @ - 1]
  ELSE [pages EXCEPT !.reserved = @ + 1]

\* deallocateSpan keeps the page while the budget allows.
PagesReturned ==
  IF pages.cached < MaxCachedPages
  THEN [pages EXCEPT !.cached = @ + 1]
  ELSE [pages EXCEPT !.reserved = @ - 1]

\* allocate, allocateAligned and, through them, newElement count what they get.
FirstRecord(new) == "alloc"

\* The call ThreadCache::allocate of MemoryPool::allocate, allocateAligned and
\* newElement (new = TRUE).
allocate(t, k, new) ==
  /\ call[t] = Idle /\ alive[t] = "running"
  /\ count["alloc"] + Cardinality({u \in Threads : call[u].step \in {"refill", "alloc"}})
       < MaxAllocs
  /\ taken' = [taken EXCEPT ![k] = @ + 1]
  /\ IF k = "small"
     THEN /\ list' = [list EXCEPT ![t] = IF @ > 0 THEN @ - 1 ELSE Batch - 1]
          /\ UNCHANGED pages
     ELSE /\ pages' = PagesTaken
          /\ UNCHANGED list
  /\ Goto(t, [step |-> IF k = "small" /\ list[t] = 0 THEN "refill" ELSE FirstRecord(new),
              kind |-> k, new |-> new])
  /\ UNCHANGED <<count, view, held, alive, out, calls>>

\* As RefillCount, but the block that goes to the caller is not counted.
RefillCountRest == Batch - 1

\* What fetchFromCentralCache passes to recordCentralRefill.
RefillCount == Batch

\* recordCentralRefill in fetchFromCentralCache, before allocate returns.
recordCentralRefill(t) ==
  /\ call[t].step = "refill"
  /\ FetchAdd(t, "refill", RefillCount)
  /\ Goto(t, [call[t] EXCEPT !.step = FirstRecord(call[t].new)])
  /\ UNCHANGED <<list, pages, taken, held, alive, out, calls>>

\* recordAllocation: first allocCount, then the counter of the kind.
recordAllocation(t) ==
  /\ \/ /\ call[t].step = "alloc"
        /\ FetchAdd(t, "alloc", 1)
        /\ Goto(t, [call[t] EXCEPT !.step = "kind"])
     \/ /\ call[t].step = "kind"
        /\ FetchAdd(t, AllocCounter(call[t].kind), 1)
        /\ Goto(t, [call[t] EXCEPT !.step = "return"])
  /\ UNCHANGED <<list, pages, taken, held, alive, out, calls>>

----------------------------------------------------------------------------
Keep(n) == Larger(n \div 2, 1)

\* What returnToCentralCache passes to recordCentralFlush for a list of n.
FlushCount(n) == n - Keep(n)

\* The call ThreadCache::deallocate for a block of kind k: to the list, which
\* is halved when too long, or its page to the page cache.
GiveTo(t, k, sized) ==
  /\ taken' = [taken EXCEPT ![k] = @ - 1]
  /\ LET n == list[t] + 1
         halve == k = "small" /\ n > MaxList /\ Keep(n) < n
     IN /\ list' = IF k # "small" THEN list
                   ELSE [list EXCEPT ![t] = IF halve THEN Keep(n) ELSE n]
        /\ Goto(t, [step |-> IF halve THEN "flush" ELSE "free",
                    size |-> n, sized |-> sized])
  /\ pages' = IF k = "small" THEN pages ELSE PagesReturned

\* MemoryPool::deallocate, with or without a size, and deleteElement, by the
\* thread that allocated the object or by another.
deallocate(t, k, sized) ==
  /\ call[t] = Idle /\ alive[t] = "running"
  /\ held[k] > 0
  /\ held' = [held EXCEPT ![k] = @ - 1]
  /\ GiveTo(t, k, sized)
  /\ UNCHANGED <<count, view, alive, out, calls>>

\* recordCentralFlush in returnToCentralCache.
recordCentralFlush(t) ==
  /\ call[t].step = "flush"
  /\ FetchAdd(t, "flush", FlushCount(call[t].size))
  /\ Goto(t, [call[t] EXCEPT !.step = "free"])
  /\ UNCHANGED <<list, pages, taken, held, alive, out, calls>>

\* recordFree: first freeCount, then the counter of the way it was freed.
recordFree(t) ==
  /\ \/ /\ call[t].step = "free"
        /\ FetchAdd(t, "free", 1)
        /\ Goto(t, [call[t] EXCEPT !.step = "how"])
     \/ /\ call[t].step = "how"
        /\ FetchAdd(t, IF call[t].sized THEN "sized" ELSE "unsized", 1)
        /\ Goto(t, Idle)
  /\ UNCHANGED <<list, pages, taken, held, alive, out, calls>>

\* The catch block of newElement: deallocate(mem), then the exception goes on.
newThrows(t) == GiveTo(t, call[t].kind, FALSE)

\* The call returns the block; the constructor that newElement runs in it may
\* throw instead.
return(t) ==
  /\ call[t].step = "return"
  /\ \/ /\ held' = [held EXCEPT ![call[t].kind] = @ + 1]
        /\ Goto(t, Idle)
        /\ UNCHANGED <<list, pages, taken>>
     \/ /\ call[t].new
        /\ newThrows(t)
        /\ UNCHANGED held
  /\ UNCHANGED <<count, view, alive, out, calls>>

----------------------------------------------------------------------------
\* stats() by the main thread: the page cache's two figures, each under its
\* mutex, then the counters.
stats ==
  /\ call[Main] = Idle
  /\ calls < MaxStats
  /\ calls' = calls + 1
  /\ out' = [NewOut EXCEPT
               !.quiet = \A t \in Threads \ {Main} : alive[t] = "joined",
               !.reserved = pages.reserved]
  /\ Goto(Main, [step |-> "cached"])
  /\ UNCHANGED <<count, view, list, pages, taken, held, alive>>

loadCached ==
  /\ call[Main].step = "cached"
  /\ out' = [out EXCEPT !.cached = pages.cached]
  /\ Goto(Main, [step |-> "load", at |-> 1])
  /\ UNCHANGED <<count, view, list, pages, taken, held, alive, calls>>

\* As LiveOf, but without the comparison: the difference wraps around.
LiveOfWrapped(a, f) == (a + CounterRange - f) % CounterRange

\* liveAllocs.
LiveOf(a, f) == IF a > f THEN a - f ELSE 0

\* One relaxed load.  liveAllocs is computed when the second is there.
load ==
  /\ call[Main].step = "load"
  /\ LET i == call[Main].at
         c == LoadOrder[i]
     IN \E v \in view[Main][c] .. count[c] :
          /\ view' = [view EXCEPT ![Main][c] = v]
          /\ out' = [out EXCEPT
                       !.value[c] = v,
                       !.live = IF c = "free" THEN LiveOf(out.value["alloc"], v) ELSE @]
          /\ Goto(Main, IF i < Len(LoadOrder)
                        THEN [step |-> "load", at |-> i + 1]
                        ELSE [step |-> "report"])
  /\ UNCHANGED <<count, list, pages, taken, held, alive, calls>>

\* stats() returns what it has loaded.
report ==
  /\ call[Main].step = "report"
  /\ Goto(Main, Idle)
  /\ out' = NewOut
  /\ UNCHANGED <<count, view, list, pages, taken, held, alive, calls>>

\* A thread ends: flushAll returns its list and records nothing.
exit(t) ==
  /\ t # Main
  /\ call[t] = Idle /\ alive[t] = "running"
  /\ alive' = [alive EXCEPT ![t] = "exited"]
  /\ list' = [list EXCEPT ![t] = 0]
  /\ UNCHANGED <<count, view, pages, taken, held, call, out, calls>>

\* As Joined, but the thread is not waited for.
JoinedNothing(v, w) == v

\* The view of a thread that joins one with view w.
Joined(v, w) == [c \in Counters |-> Larger(v[c], w[c])]

join(t) ==
  /\ call[Main] = Idle
  /\ alive[t] = "exited"
  /\ alive' = [alive EXCEPT ![t] = "joined"]
  /\ view' = [view EXCEPT ![Main] = Joined(@, view[t])]
  /\ UNCHANGED <<count, list, pages, taken, held, call, out, calls>>

----------------------------------------------------------------------------
Init ==
  /\ count = [c \in Counters |-> 0]
  /\ view = [t \in Threads |-> [c \in Counters |-> 0]]
  /\ list = [t \in Threads |-> 0]
  /\ pages = [reserved |-> 0, cached |-> 0]
  /\ taken = [k \in Kinds |-> 0]
  /\ held = [k \in Kinds |-> 0]
  /\ call = [t \in Threads |-> Idle]
  /\ alive = [t \in Threads |-> "running"]
  /\ out = NewOut
  /\ calls = 0

Next ==
  \/ \E t \in Threads :
       \/ \E k \in Kinds, b \in BOOLEAN : allocate(t, k, b) \/ deallocate(t, k, b)
       \/ recordCentralRefill(t) \/ recordAllocation(t)
       \/ recordCentralFlush(t) \/ recordFree(t)
       \/ return(t)
       \/ exit(t) \/ join(t)
  \/ stats \/ loadCached \/ load \/ report

Spec == Init /\ [][Next]_vars

----------------------------------------------------------------------------
Total(f) == f["small"] + f["large"] + f["aligned"]
\* The sum of a function of the threads, as the number of pairs below it.
SumOf(f) == Cardinality(UNION {{t} \X (1 .. f[t]) : t \in Threads})
Listed == SumOf(list)
AllIdle == \A t \in Threads : call[t] = Idle

\* Between calls, and until a thread ends, the blocks fetched and not flushed
\* are those on the lists and those given out; and no block is ever counted as
\* flushed before it is counted as fetched.
CentralFlow ==
  /\ count["flush"] <= count["refill"]
  /\ AllIdle /\ (\A t \in Threads : alive[t] = "running") =>
       count["refill"] = count["flush"] + taken["small"] + Listed

\* The report of a call that starts with every other thread joined is exact:
\* the live count is the number of objects, the kinds and ways add up, and no
\* more is cached than is reserved (v3/tests/UnitTest.cpp:416-418).  Every
\* block given out is then an object: one whose constructor threw has been
\* given back (v3/tests/UnitTest.cpp:346-373).
QuiescentExact ==
  out.quiet /\ call[Main].step = "report" =>
    LET v == out.value IN
    /\ taken = held
    /\ out.live = Total(held)
    /\ v["small"] + v["large"] = v["alloc"]
    /\ v["sized"] + v["unsized"] = v["free"]
    /\ out.reserved = out.cached + held["large"] + held["aligned"]

\* No free is ever counted before the allocation it undoes, so a report made
\* while threads run is never off by a wrap: its live count is at most the
\* number of allocations made.
LiveNeverWraps ==
  /\ count["free"] <= count["alloc"]
  /\ call[Main].step = "report" => out.live <= count["alloc"]
=============================================================================
