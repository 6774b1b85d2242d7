---------------------------- MODULE ThreadCacheV2 ----------------------------
(***************************************************************************)
(* The front of v2 (v2/src/ThreadCache.cpp), down to the links: a free     *)
(* list is the address of its first block, and the first word of a block   *)
(* on a list holds the address of the next.  Memory keeps what was written *)
(* to it when its pages change hands.  Spans come from PageCacheV2 and go  *)
(* back there.                                                             *)
(*                                                                         *)
(* A call is one step up to the delayed return it may end with: a thread   *)
(* cache is its thread's own, and what the call does in the central cache  *)
(* it does under the lock of one class.  A delayed return takes one step   *)
(* per tracker, under the same lock, while threads in other classes go on. *)
(* It may follow any return: when is a matter of delayCounts_ and of time. *)
(*                                                                         *)
(* v2 has two faults that make lists and objects share memory, and they    *)
(* are modelled as the code has them: a span is given back whose blocks    *)
(* are still in use (CentralCacheV2 shows why the counts allow it), or not *)
(* with the length it was handed out with; and a span that makes a single  *)
(* block is handed out with whatever link its first word holds.  `intact'  *)
(* records that no such step has been taken.  After one, memory is shared  *)
(* and the model takes no further step but to end: nothing is said of what *)
(* happens from there on.                                                  *)
(*                                                                         *)
(* Requests above MAX_BYTES go to malloc and free and are left out, as are *)
(* the nullptr and the exceptions of a failing page cache or tracker.      *)
(***************************************************************************)
EXTENDS PageCacheV2, Sequences, SequencesExt, FiniteSetsExt

CONSTANTS
  Threads,
  NumClasses,     \* FREE_LIST_SIZE
  PageWords,      \* PAGE_SIZE, in words
  BlockSize,      \* SizeClass::getSize, by class, in words
  SpanPages,      \* pages of a span, by class
  Threshold,      \* the longest list shouldReturnToCentralCache accepts, by class
  KeepShare,      \* one block in so many stays when a list is cut: 4
  Junk,           \* what the program leaves in the first word of a block
  MaxTrackers,    \* bound: spans cut into several blocks
  MaxFreeCount    \* bound: the count of a tracker, both ways

Classes == 0 .. NumClasses - 1
Words   == 1 .. NumPages * PageWords
nullptr == 0
Twice   == -1      \* the class of an object handed out while in use

ASSUME ThreadCacheV2Assumption ==
  /\ NumClasses \in Nat /\ PageWords \in Nat \ {0}
  /\ BlockSize \in [Classes -> Nat \ {0}] /\ SpanPages \in [Classes -> Nat \ {0}]
  /\ \A c \in Classes : BlockSize[c] <= SpanPages[c] * PageWords
  /\ Threshold \in [Classes -> Nat \ {0}] /\ KeepShare \in Nat \ {0, 1}
  /\ Junk \subseteq Words \cup {nullptr}
  /\ MaxTrackers \in Nat /\ MaxFreeCount \in Nat
  /\ "central" \notin Threads

VARIABLES
  word,             \* the memory, of which only first words of blocks matter
  spans,            \* history: spans held and cut, first word |-> class
  spanTrackers,     \* spanTrackers_, never shortened; a freeCount below 0
                    \* stands for the size_t that has wrapped
  centralFreeList,  \* centralFreeList_, by class
  freeList,         \* freeList_, by thread and class
  freeListSize,     \* freeListSize_
  delayed,          \* by thread, what its delayed return has yet to do:
                    \* class, tracker and how many of its blocks were found
  phase,            \* "up", or "exiting" inside ~ThreadCache
  owned,            \* the program's objects: address |-> class asked for
  intact            \* history: no step has made lists and objects share memory

vars == <<word, spans, spanTrackers, centralFreeList, freeList, freeListSize,
          delayed, phase, owned, intact,
          spanMap, freeSpans, systemAllocs, osPages, running, held>>

First(list) == IF list = <<>> THEN nullptr ELSE Head(list)

(* The blocks a walk of the memory m meets from `head' on; a walk that     *)
(* does not end is cut off after as many steps as there are words.         *)
Walk(m, head) ==
  LET n == Cardinality(Words)
      at[i \in 1 .. n] ==
        IF i = 1 THEN head ELSE IF at[i - 1] = nullptr THEN nullptr ELSE m[at[i - 1]]
  IN  [i \in {j \in 1 .. n : at[j] # nullptr} |-> at[i]]

After(list, i) == IF i = Len(list) THEN nullptr ELSE list[i + 1]

(* Memory m after the blocks of `list' have been linked in their order.    *)
Linked(m, list) ==
  [a \in Words |-> IF a \in ToSet(list)
                   THEN After(list, CHOOSE i \in DOMAIN list : list[i] = a) ELSE m[a]]

(* The blocks of `list' that do not lie in X, in their order.              *)
Without(list, X) ==
  LET kept[i \in 0 .. Len(list)] ==
        IF i = 0 THEN <<>>
        ELSE IF list[i] \in X THEN kept[i - 1] ELSE Append(kept[i - 1], list[i])
  IN  kept[Len(list)]

blockNum(c) == (SpanPages[c] * PageWords) \div BlockSize[c]

(* A variant that lays every block a unit behind the one before.           *)
BlocksClose(s, c) == [i \in 1 .. blockNum(c) |-> s + (i - 1)]

Blocks(s, c) == [i \in 1 .. blockNum(c) |-> s + (i - 1) * BlockSize[c]]

-----------------------------------------------------------------------------
(* The lists in memory.                                                    *)

(* The lists of the threads and of the central cache, read off the links   *)
(* in memory.                                                              *)
Lists ==
  {<<t, c>> : t \in Threads, c \in Classes} \cup {<<"central", c>> : c \in Classes}
ListOf(l) ==
  Walk(word, IF l[1] = "central" THEN centralFreeList[l[2]] ELSE freeList[l[1]][l[2]])

(* The blocks that somebody can still reach.                               *)
InUse == DOMAIN owned \cup UNION {ToSet(ListOf(l)) : l \in Lists}

-----------------------------------------------------------------------------
(* CentralCache.                                                           *)

Ready(t)    == delayed[t] = {}
Unlocked(c) == \A t \in Threads : \A u \in delayed[t] : u.class # c

FirstWord(page) == page * PageWords + 1
PageOf(s)       == (s - 1) \div PageWords

TrackerWords(tracker) ==
  FirstWord(tracker.span) .. (FirstWord(tracker.span + tracker.numPages) - 1)

(* getSpanTracker: the first tracker that covers the block, if any.        *)
getSpanTracker(b) ==
  {k \in DOMAIN spanTrackers :
     /\ b \in TrackerWords(spanTrackers[k])
     /\ \A j \in 1 .. (k - 1) : b \notin TrackerWords(spanTrackers[j])}

(* fetchRange of class c: an empty list is filled from a new span of the   *)
(* page cache, at `take'.  A span that makes one block is handed out as it *)
(* is and gets no tracker, otherwise the block handed out has its link     *)
(* cleared.                                                                *)
fetchRange(c) ==
  LET head == centralFreeList[c]
      FromList == [block |-> head, word |-> [word EXCEPT ![head] = nullptr],
                   head |-> word[head], spans |-> spans,
                   trackers |-> [k \in DOMAIN spanTrackers |->
                                   IF k \in getSpanTracker(head)
                                   THEN [spanTrackers[k] EXCEPT !.freeCount = @ - 1]
                                   ELSE spanTrackers[k]],
                   take |-> {}]
      Cut(s) == LET list == Blocks(s, c)
                IN  [block |-> s, head |-> First(Tail(list)),
                     word |-> IF Len(list) > 1
                              THEN [Linked(word, list) EXCEPT ![s] = nullptr] ELSE word,
                     spans |-> [x \in DOMAIN spans \cup {s} |-> IF x = s THEN c ELSE spans[x]],
                     trackers |-> IF Len(list) > 1
                                  THEN Append(spanTrackers,
                                              [span |-> PageOf(s), numPages |-> SpanPages[c],
                                               blockCount |-> Len(list),
                                               freeCount |-> Len(list) - 1])
                                  ELSE spanTrackers,
                     take |-> {PageOf(s)}]
      Starts == {FirstWord(p) : p \in 0 .. NumPages - SpanPages[c]}
  IN  IF head # nullptr THEN {FromList} ELSE {Cut(s) : s \in Starts}

(* performDelayedReturn counts, for every tracker, its blocks on the list. *)
spanFreeCounts(c, list) ==
  LET found(k) == {i \in DOMAIN list : k \in getSpanTracker(list[i])}
  IN  {[class |-> c, tracker |-> k, found |-> Cardinality(found(k))] :
         k \in {j \in DOMAIN spanTrackers : found(j) # {}}}

(* returnRange by thread t of a chain of at most `count' blocks, in memory *)
(* m, followed or not by a delayed return.                                 *)
returnRange(t, m, c, start, count) ==
  LET chain  == Walk(m, start)
      used   == IF Len(chain) <= count THEN chain ELSE SubSeq(chain, 1, count)
      joined == [m EXCEPT ![Last(used)] = centralFreeList[c]]
  IN  /\ Unlocked(c)
      /\ \A k \in DOMAIN spanTrackers :
           spanTrackers[k].freeCount + spanTrackers[k].blockCount <= MaxFreeCount
      /\ word' = joined
      /\ centralFreeList' = [centralFreeList EXCEPT ![c] = start]
      /\ \E counts \in {{}, spanFreeCounts(c, Walk(joined, start))} :
           delayed' = [delayed EXCEPT ![t] = counts]
      /\ UNCHANGED <<spans, spanTrackers, intact, pageVars>>

(* The memory and the head of a list when the blocks in X are unlinked:    *)
(* newHead is assigned only while the blocks unlinked are at the front.    *)
UnlinkedHead(list, X) ==
  IF list # <<>> /\ Head(list) \in X THEN First(Without(list, X)) ELSE nullptr

(* updateSpanFreeCount gives the span back if the count says that all its  *)
(* blocks are free.  The page cache ignores an address it does not know    *)
(* and believes the length of any other: of a span that is not out with    *)
(* that length, only that it is no longer intact is kept.                  *)
updateSpanFreeCount(t, u) ==
  LET c       == u.class
      tracker == spanTrackers[u.tracker]
      newFree == tracker.freeCount + u.found
      p       == tracker.span
      list    == Walk(word, centralFreeList[c])
  IN  /\ spanTrackers' = [spanTrackers EXCEPT ![u.tracker].freeCount = newFree]
      /\ delayed' = [delayed EXCEPT ![t] = @ \ {u}]
      /\ UNCHANGED <<freeList, freeListSize, phase, owned>>
      /\ IF newFree # tracker.blockCount
         THEN UNCHANGED <<word, centralFreeList, spans, intact, pageVars>>
         ELSE /\ word' = Linked(word, Without(list, TrackerWords(tracker)))
              /\ centralFreeList' =
                   [centralFreeList EXCEPT ![c] = UnlinkedHead(list, TrackerWords(tracker))]
              /\ IF p \in DOMAIN held /\ held[p] = tracker.numPages
                 THEN /\ deallocateSpan(p)
                      /\ spans' = [x \in DOMAIN spans \ {FirstWord(p)} |-> spans[x]]
                      /\ intact' = (InUse' \cap TrackerWords(tracker) = {})
                 ELSE /\ intact' = (p \notin DOMAIN spanMap)
                      /\ UNCHANGED <<spans, pageVars>>

-----------------------------------------------------------------------------
(* allocate.  The program may leave anything in the block it gets.         *)

HandOut(m, p, c) ==
  /\ \E junk \in Junk : word' = [m EXCEPT ![p] = junk]
  /\ owned' = [x \in DOMAIN owned \cup {p} |->
                 IF x # p THEN owned[x] ELSE IF p \in DOMAIN owned THEN Twice ELSE c]

AllocateCached(t, c) ==
  LET p == freeList[t][c]
  IN  /\ phase[t] = "up"
      /\ Ready(t)
      /\ p # nullptr
      /\ freeListSize' = [freeListSize EXCEPT ![t][c] = @ - 1]
      /\ freeList' = [freeList EXCEPT ![t][c] = word[p]]
      /\ HandOut(word, p, c)
      /\ UNCHANGED <<spans, spanTrackers, centralFreeList, delayed, phase, intact, pageVars>>

Remain(m, next) == Len(Walk(m, next))

fetchFromCentralCache(t, c) ==
  /\ phase[t] = "up"
  /\ Ready(t) /\ Unlocked(c)
  /\ freeList[t][c] = nullptr
  /\ \A k \in DOMAIN spanTrackers : spanTrackers[k].freeCount > -MaxFreeCount
  /\ \E r \in fetchRange(c) :
       /\ Len(r.trackers) <= MaxTrackers
       /\ centralFreeList' = [centralFreeList EXCEPT ![c] = r.head]
       /\ spanTrackers' = r.trackers
       /\ spans' = r.spans
       /\ \A p \in r.take : allocateSpan(SpanPages[c], p)
       /\ r.take = {} => UNCHANGED pageVars
       /\ freeList' = [freeList EXCEPT ![t][c] = r.word[r.block]]
       /\ freeListSize' =
            [freeListSize EXCEPT ![t][c] = @ + Remain(r.word, r.word[r.block])]
       /\ HandOut(r.word, r.block, c)
       /\ intact' = (r.word[r.block] = nullptr)
  /\ UNCHANGED <<delayed, phase>>

-----------------------------------------------------------------------------
(* deallocate.                                                             *)

KeepNum(batch) == Max({batch \div KeepShare, 1})

(* A variant that leaves the last block it keeps linked to the next.       *)
CutAfterLinked(m, b) == m

CutAfter(m, b) == [m EXCEPT ![b] = nullptr]

(* returnToCentralCache, in memory m, of a list that starts at p.          *)
returnToCentralCache(t, c, m, p, batch) ==
  LET list  == Walk(m, p)
      split == list[KeepNum(batch)]
  IN  /\ KeepNum(batch) <= Len(list)
      /\ freeList' = [freeList EXCEPT ![t][c] = p]
      /\ freeListSize' = [freeListSize EXCEPT ![t][c] = KeepNum(batch)]
      /\ IF m[split] = nullptr
         THEN /\ word' = CutAfter(m, split)
              /\ UNCHANGED <<spans, spanTrackers, centralFreeList, delayed, intact, pageVars>>
         ELSE returnRange(t, CutAfter(m, split), c, m[split], batch - KeepNum(batch))

deallocate(t, p) ==
  LET c    == owned[p]
      m    == [word EXCEPT ![p] = freeList[t][c]]
      size == freeListSize[t][c] + 1
  IN  /\ phase[t] = "up"
      /\ Ready(t)
      /\ owned' = [x \in DOMAIN owned \ {p} |-> owned[x]]
      /\ UNCHANGED phase
      /\ IF size > Threshold[c] /\ size > 1 THEN returnToCentralCache(t, c, m, p, size)
         ELSE /\ word' = m
              /\ freeList' = [freeList EXCEPT ![t][c] = p]
              /\ freeListSize' = [freeListSize EXCEPT ![t][c] = size]
              /\ UNCHANGED <<spans, spanTrackers, centralFreeList, delayed, intact, pageVars>>

-----------------------------------------------------------------------------
(* ~ThreadCache, and the thread cache of a new thread.                     *)

Exit(t) ==
  /\ phase[t] = "up"
  /\ Ready(t)
  /\ phase' = [phase EXCEPT ![t] = "exiting"]
  /\ UNCHANGED <<word, spans, spanTrackers, centralFreeList, freeList, freeListSize,
                 delayed, owned, intact, pageVars>>

Flushes(t, c) == freeList[t][c] # nullptr /\ freeListSize[t][c] > 0

FlushClass(t, c) ==
  /\ phase[t] = "exiting"
  /\ Ready(t)
  /\ Flushes(t, c)
  /\ \A d \in Classes : d < c => ~ Flushes(t, d)
  /\ returnRange(t, word, c, freeList[t][c], freeListSize[t][c])
  /\ freeList' = [freeList EXCEPT ![t][c] = nullptr]
  /\ freeListSize' = [freeListSize EXCEPT ![t][c] = 0]
  /\ UNCHANGED <<phase, owned>>

Restart(t) ==
  /\ phase[t] = "exiting"
  /\ Ready(t)
  /\ \A c \in Classes : ~ Flushes(t, c)
  /\ phase' = [phase EXCEPT ![t] = "up"]
  /\ freeList' = [freeList EXCEPT ![t] = [c \in Classes |-> nullptr]]
  /\ freeListSize' = [freeListSize EXCEPT ![t] = [c \in Classes |-> 0]]
  /\ UNCHANGED <<word, spans, spanTrackers, centralFreeList, delayed, owned, intact, pageVars>>

-----------------------------------------------------------------------------
(* The static PageCache is destroyed, at the end of the program.           *)
Finish ==
  /\ DestroyCache
  /\ UNCHANGED <<word, spans, spanTrackers, centralFreeList, freeList, freeListSize,
                 delayed, phase, owned, intact>>

Init ==
  /\ PageInit
  /\ word = [a \in Words |-> nullptr]
  /\ spans = [s \in {} |-> 0]
  /\ spanTrackers = <<>>
  /\ centralFreeList = [c \in Classes |-> nullptr]
  /\ freeList = [t \in Threads |-> [c \in Classes |-> nullptr]]
  /\ freeListSize = [t \in Threads |-> [c \in Classes |-> 0]]
  /\ delayed = [t \in Threads |-> {}]
  /\ phase = [t \in Threads |-> "up"]
  /\ owned = [p \in {} |-> 0]
  /\ intact = TRUE

Next ==
  \/ /\ running /\ intact
     /\ \E t \in Threads :
          \/ \E c \in Classes :
               AllocateCached(t, c) \/ fetchFromCentralCache(t, c) \/ FlushClass(t, c)
          \/ \E p \in DOMAIN owned : owned[p] # Twice /\ deallocate(t, p)
          \/ \E u \in delayed[t] : updateSpanFreeCount(t, u)
          \/ Exit(t)
          \/ Restart(t)
  \/ Finish

Spec == Init /\ [][Next]_vars

-----------------------------------------------------------------------------
(* As long as no span has been given back with blocks in use and no single *)
(* block has been handed out with a link, the links in memory make lists   *)
(* that share no block with each other or with the program, whatever the   *)
(* program writes into the blocks it holds and whatever the counts are.    *)
(* freeListSize_, which is counted apart from the links, is the length of  *)
(* the list and stays within the threshold.                                *)
ListsSound ==
  intact =>
    /\ \A l \in Lists : IsInjective(ListOf(l))
    /\ \A p \in Words :
         \A l, k \in {m \in Lists : p \in ToSet(ListOf(m))} :
           l = k /\ p \notin DOMAIN owned
    /\ \A t \in Threads, c \in Classes :
         /\ freeListSize[t][c] = Len(ListOf(<<t, c>>))
         /\ freeListSize[t][c] <= Threshold[c]

(* malloc's contract, as in ThreadCache, for every step up to the first    *)
(* fault: the two faults are the only way v2's front has to break it.      *)
Malloc == INSTANCE RangeAllocator
            WITH Extent <- NumPages * PageWords + 1, Slack <- 0, running <- TRUE,
                 live <- [p \in DOMAIN owned |->
                            IF owned[p] = Twice THEN 0 ELSE BlockSize[owned[p]]]
MallocUntilFault == Malloc!Init /\ [][intact' => Malloc!Next]_owned
=============================================================================
