--------------------------- MODULE CentralCacheV2 ---------------------------
(***************************************************************************)
(* The central cache of v2 (v2/src/CentralCache.cpp): one linked list of   *)
(* free blocks per size class under a spin lock, beside it a tracker for   *)
(* every span cut into blocks.  Every now and then a return counts the     *)
(* blocks on the list and gives spans back to the page cache.              *)
(*                                                                         *)
(* A block is its address, a list is a sequence.  A thread under the lock  *)
(* of a class takes one step per tracker it updates; the rest of a call is *)
(* one step, since what it touches is its class's own, as long as no two   *)
(* classes meet in the tracker of a span given back.  The page cache is    *)
(* taken at its promise: nullptr and exceptions of one that fails are left *)
(* out.                                                                    *)
(***************************************************************************)
EXTENDS Integers, Sequences, SequencesExt, FiniteSets

CONSTANTS
  Threads,
  NoThread,       \* the holder of a lock nobody holds
  NumClasses,     \* FREE_LIST_SIZE
  NumPages,       \* pages of the modelled address space
  PageBytes,      \* PAGE_SIZE
  BlockSize,      \* SizeClass::getSize, by class
  SpanPages,      \* pages fetchFromPageCache asks for, by class
  MaxDelayCount,  \* MAX_DELAY_COUNT
  MaxTrackers,    \* bound: spans cut into blocks
  MaxFreeCount    \* bound: the count of a tracker, both ways

Classes == 0 .. NumClasses - 1
Pages   == 0 .. NumPages - 1

ASSUME CentralCacheV2Assumption ==
  /\ NumClasses \in Nat /\ NumPages \in Nat
  /\ PageBytes \in Nat \ {0} /\ MaxDelayCount \in Nat \ {0}
  /\ MaxTrackers \in Nat /\ MaxFreeCount \in Nat
  /\ BlockSize \in [Classes -> Nat \ {0}]
  /\ SpanPages \in [Classes -> Nat \ {0}]
  /\ \A c \in Classes : BlockSize[c] <= SpanPages[c] * PageBytes
  /\ NoThread \notin Threads

VARIABLES
  live,             \* spans out of the page cache: first page |-> pages
  centralFreeList,  \* centralFreeList_
  locks,            \* locks_: the holder
  delayCounts,      \* delayCounts_
  spanTrackers,     \* spanTrackers_, never shortened; a freeCount below 0
                    \* stands for the size_t that has wrapped
  call,             \* what each thread is doing in the central cache
  out,              \* blocks lent to thread caches, by class
  givenBack         \* history: some span has gone back to the page cache

vars == <<live, centralFreeList, locks, delayCounts, spanTrackers, call, out, givenBack>>

PageLevel == INSTANCE RangeAllocator
               WITH Extent <- NumPages, Slack <- 0, running <- TRUE

NoSpans == [k \in {} |-> 0]
Idle    == [op |-> "none", class |-> 0, chain |-> <<>>, counts |-> NoSpans]

Block(s, class, i) == s * PageBytes + i * BlockSize[class]

Covers(tracker, b) == (b \div PageBytes) \in tracker.span .. (tracker.span + tracker.numPages - 1)

(* getSpanTracker: the first tracker that covers the block, if any.        *)
getSpanTracker(b) ==
  {k \in DOMAIN spanTrackers :
     Covers(spanTrackers[k], b) /\ \A j \in 1 .. (k - 1) : ~ Covers(spanTrackers[j], b)}

-----------------------------------------------------------------------------
(* The lock.                                                               *)

Acquire(t, from, to) ==
  /\ call[t].op = from
  /\ locks[call[t].class] = NoThread
  /\ locks' = [locks EXCEPT ![call[t].class] = t]
  /\ call' = [call EXCEPT ![t].op = to]
  /\ UNCHANGED <<live, centralFreeList, delayCounts, spanTrackers, out, givenBack>>

Release(t) ==
  /\ locks' = [locks EXCEPT ![call[t].class] = NoThread]
  /\ call' = [call EXCEPT ![t] = Idle]

-----------------------------------------------------------------------------
(* fetchRange hands out one block.                                         *)

FetchCall(t, c) ==
  /\ call[t] = Idle
  /\ \A k \in DOMAIN spanTrackers : spanTrackers[k].freeCount > -MaxFreeCount
  /\ call' = [call EXCEPT ![t] = [Idle EXCEPT !.op = "fetchLock", !.class = c]]
  /\ UNCHANGED <<live, centralFreeList, locks, delayCounts, spanTrackers, out, givenBack>>

(* A variant that leaves the block handed out on the list.                 *)
RestWhole(list) == list

Rest(list) == Tail(list)

FetchFromList(t) ==
  LET c == call[t].class
      b == Head(centralFreeList[c])
  IN  /\ call[t].op = "fetch"
      /\ centralFreeList[c] # <<>>
      /\ centralFreeList' = [centralFreeList EXCEPT ![c] = Rest(@)]
      /\ spanTrackers' = [k \in DOMAIN spanTrackers |->
                            IF k \in getSpanTracker(b)
                            THEN [spanTrackers[k] EXCEPT !.freeCount = @ - 1]
                            ELSE spanTrackers[k]]
      /\ out' = [out EXCEPT ![c] = @ \cup {b}]
      /\ Release(t)
      /\ UNCHANGED <<live, delayCounts, givenBack>>

(* A span of one block gets neither a list nor a tracker.                  *)
FetchFromPageCache(t) ==
  LET c == call[t].class
      n == (SpanPages[c] * PageBytes) \div BlockSize[c]
  IN  /\ call[t].op = "fetch"
      /\ centralFreeList[c] = <<>>
      /\ Len(spanTrackers) < MaxTrackers
      /\ \E s \in Pages :
           /\ PageLevel!Alloc(SpanPages[c], s)
           /\ out' = [out EXCEPT ![c] = @ \cup {Block(s, c, 0)}]
           /\ IF n > 1
              THEN /\ centralFreeList' =
                        [centralFreeList EXCEPT ![c] = [i \in 1 .. (n - 1) |-> Block(s, c, i)]]
                   /\ spanTrackers' =
                        Append(spanTrackers, [span |-> s, numPages |-> SpanPages[c],
                                              blockCount |-> n, freeCount |-> n - 1])
              ELSE UNCHANGED <<centralFreeList, spanTrackers>>
      /\ Release(t)
      /\ UNCHANGED <<delayCounts, givenBack>>

(* The page cache has no memory.                                           *)
FetchFails(t) ==
  /\ call[t].op = "fetch"
  /\ centralFreeList[call[t].class] = <<>>
  /\ Release(t)
  /\ UNCHANGED <<live, centralFreeList, delayCounts, spanTrackers, out, givenBack>>

-----------------------------------------------------------------------------
(* returnRange.                                                            *)

ReturnCall(t, c, chain) ==
  /\ call[t] = Idle
  /\ \A k \in DOMAIN spanTrackers :
       spanTrackers[k].freeCount + spanTrackers[k].blockCount <= MaxFreeCount
  /\ call' = [call EXCEPT ![t] = [Idle EXCEPT !.op = "returnLock", !.class = c, !.chain = chain]]
  /\ out' = [out EXCEPT ![c] = @ \ ToSet(chain)]
  /\ UNCHANGED <<live, centralFreeList, locks, delayCounts, spanTrackers, givenBack>>

(* performDelayedReturn counts, for every tracker, its blocks on the list. *)
spanFreeCounts(list) ==
  LET found(k) == {i \in DOMAIN list : k \in getSpanTracker(list[i])}
  IN  [k \in {j \in DOMAIN spanTrackers : found(j) # {}} |-> Cardinality(found(k))]

(* The second condition of shouldPerformDelayedReturn is a matter of time. *)
ReturnLink(t) ==
  LET c     == call[t].class
      list  == call[t].chain \o centralFreeList[c]
      count == delayCounts[c] + 1
  IN  /\ call[t].op = "return"
      /\ centralFreeList' = [centralFreeList EXCEPT ![c] = list]
      /\ \E late \in BOOLEAN :
           IF count >= MaxDelayCount \/ late
           THEN /\ delayCounts' = [delayCounts EXCEPT ![c] = 0]
                /\ call' = [call EXCEPT ![t] = [@ EXCEPT !.op = "delayed", !.chain = <<>>,
                                                         !.counts = spanFreeCounts(list)]]
                /\ UNCHANGED locks
           ELSE /\ delayCounts' = [delayCounts EXCEPT ![c] = count]
                /\ Release(t)
      /\ UNCHANGED <<live, spanTrackers, out, givenBack>>

(* PageCache::deallocateSpan ignores an address it does not know.          *)
deallocateSpan(s) == live' = [x \in DOMAIN live \ {s} |-> live[x]]

(* The list after the blocks of a span are unlinked: newHead is assigned   *)
(* only while the blocks unlinked are at the front.                        *)
Unlinked(list, tracker) ==
  LET kept(b) == ~ Covers(tracker, b)
  IN  IF list # <<>> /\ Covers(tracker, Head(list)) THEN SelectSeq(list, kept) ELSE <<>>

updateSpanFreeCount(t, k) ==
  LET c       == call[t].class
      tracker == spanTrackers[k]
      newFree == tracker.freeCount + call[t].counts[k]
  IN  /\ call[t].op = "delayed"
      /\ spanTrackers' = [spanTrackers EXCEPT ![k].freeCount = newFree]
      /\ call' = [call EXCEPT ![t].counts = [j \in DOMAIN @ \ {k} |-> @[j]]]
      /\ IF newFree = tracker.blockCount
         THEN /\ centralFreeList' = [centralFreeList EXCEPT ![c] = Unlinked(@, tracker)]
              /\ deallocateSpan(tracker.span)
              /\ givenBack' = TRUE
         ELSE UNCHANGED <<centralFreeList, live, givenBack>>
      /\ UNCHANGED <<locks, delayCounts, out>>

ReturnEnd(t) ==
  /\ call[t].op = "delayed"
  /\ call[t].counts = NoSpans
  /\ Release(t)
  /\ UNCHANGED <<live, centralFreeList, delayCounts, spanTrackers, out, givenBack>>

-----------------------------------------------------------------------------
Init ==
  /\ live = [s \in {} |-> 0]
  /\ centralFreeList = [c \in Classes |-> <<>>]
  /\ locks = [c \in Classes |-> NoThread]
  /\ delayCounts = [c \in Classes |-> 0]
  /\ spanTrackers = <<>>
  /\ call = [t \in Threads |-> Idle]
  /\ out = [c \in Classes |-> {}]
  /\ givenBack = FALSE

Step(t) ==
  \/ Acquire(t, "fetchLock", "fetch")
  \/ FetchFromList(t)
  \/ FetchFromPageCache(t)
  \/ FetchFails(t)
  \/ Acquire(t, "returnLock", "return")
  \/ ReturnLink(t)
  \/ \E k \in DOMAIN call[t].counts : updateSpanFreeCount(t, k)
  \/ ReturnEnd(t)

(* A thread cache returns blocks of one class, in any order.               *)
Chains(c) == UNION {{q \in [1 .. n -> out[c]] : IsInjective(q)} : n \in 1 .. Cardinality(out[c])}

Next ==
  \/ \E t \in Threads : Step(t)
  \/ \E t \in Threads, c \in Classes : FetchCall(t, c)
  \/ \E t \in Threads, c \in Classes : \E chain \in Chains(c) : ReturnCall(t, c, chain)

Spec == Init /\ [][Next]_vars

-----------------------------------------------------------------------------
Returning(t) == ToSet(call[t].chain)
AllBlocks    == UNION ({ToSet(centralFreeList[c]) \cup out[c] : c \in Classes}
                        \cup {Returning(t) : t \in Threads})

(* Up to the first time a span is given back, every block cut from a       *)
(* tracked span is in exactly one place: once on a list, lent, or in the   *)
(* hands of one thread that returns it.                                    *)
BlocksConserved ==
  ~ givenBack =>
    /\ \A c \in Classes :
         /\ IsInjective(centralFreeList[c])
         /\ ToSet(centralFreeList[c]) \cap out[c] = {}
         /\ \A t \in Threads : Returning(t) \cap (ToSet(centralFreeList[c]) \cup out[c]) = {}
    /\ \A t, u \in Threads : t # u => Returning(t) \cap Returning(u) = {}
    /\ \A k \in DOMAIN spanTrackers :
         Cardinality({b \in AllBlocks : Covers(spanTrackers[k], b)}) = spanTrackers[k].blockCount

InLiveSpan(b) == \E s \in DOMAIN live : (b \div PageBytes) \in s .. (s + live[s] - 1)

(* v2/src/CentralCache.cpp:235 gives a span back only if all its blocks    *)
(* are free: a block lent out lies in a span the page cache has given out. *)
LentBlocksBacked == \A c \in Classes : \A b \in out[c] : InLiveSpan(b)
=============================================================================
