--------------------------- MODULE PageCacheSteps ---------------------------
(***************************************************************************)
(* PageCache step by step (v3/src/PageCache.cpp).  An operation holds      *)
(* mutex_ throughout, but findSpan takes only pageMapMutex_: while one     *)
(* thread is inside an operation, others look pages up between any two of  *)
(* its updates of the page map.  A step here ends where another thread may *)
(* look, or where the operation may throw.                                 *)
(*                                                                         *)
(* Where the code allocates (operator new, a node of a map, room in a      *)
(* vector) std::bad_alloc may leave the operation; the locks are released  *)
(* and what has been done stays done.                                      *)
(***************************************************************************)
EXTENDS PageCache

VARIABLES
  op,      \* the operation that holds mutex_
  held,    \* spans the callers hold
  before,  \* history: the cache as it was when the operation began
  thrown   \* history: some operation has ended by an exception

cacheVars == <<spans, freeSpans, pageMap, systemAllocs, cachedFreePages, osPages, running>>
stepVars  == <<spans, freeSpans, pageMap, systemAllocs, cachedFreePages, osPages, running,
               op, held, before, thrown>>

Idle == [at |-> "idle", span |-> 0, size |-> 0, large |-> FALSE, other |-> 0]

Now == [spans |-> spans, freeSpans |-> freeSpans, pageMap |-> pageMap,
        systemAllocs |-> systemAllocs, cachedFreePages |-> cachedFreePages,
        osPages |-> osPages]

Lock(start) ==
  /\ running
  /\ op = Idle
  /\ op' = start
  /\ before' = Now
  /\ UNCHANGED thrown

Goto(at) == op' = [op EXCEPT !.at = at] /\ UNCHANGED <<before, thrown>>

Unlock == op' = Idle /\ before' = <<>> /\ UNCHANGED thrown

(* The operation ends by an exception.                                     *)
Throw ==
  /\ op' = Idle
  /\ before' = <<>>
  /\ thrown' = TRUE
  /\ UNCHANGED <<running, held>>

me == op.span

redirectPages(from, to) == [p \in DOMAIN pageMap \cup PagesOf(from) |->
                              IF p \in PagesOf(from) THEN to ELSE pageMap[p]]

(* A step that only changes the page map, under pageMapMutex_.             *)
MapStep(from, map, to) ==
  /\ op.at = from
  /\ pageMap' = map
  /\ Goto(to)
  /\ UNCHANGED <<spans, freeSpans, systemAllocs, cachedFreePages, osPages, running, held>>

-----------------------------------------------------------------------------
(* allocateSpan.                                                           *)

Take(n, large) ==
  \E k \in lowerBound(n) : \E s \in freeSpans[k] :
    /\ Lock([Idle EXCEPT !.at = IF k > n THEN "split" ELSE "hand",
                         !.span = s, !.size = n, !.large = large])
    /\ freeSpans' = [freeSpans EXCEPT ![k] = @ \ {s}]
    /\ cachedFreePages' = cachedFreePages - k
    /\ spans' = [spans EXCEPT ![s].inFreeList = FALSE]
    /\ UNCHANGED <<pageMap, systemAllocs, osPages, running, held>>

Rest     == me + op.size
RestSize == spans[me].numPages - op.size

RestBin == RestSize

WithRest ==
  [x \in DOMAIN spans \cup {Rest} |->
     IF x = Rest THEN [spans[me] EXCEPT !.numPages = RestSize, !.inFreeList = TRUE,
                                        !.isLarge = FALSE]
     ELSE spans[x]]

(* A variant that counts the remainder when its size is known, before the  *)
(* allocations that may throw.                                             *)
CountIfSplitThrowsEarly == cachedFreePages + RestSize

CountIfSplitThrows == cachedFreePages

Split ==
  /\ op.at = "split"
  /\ spans' = WithRest
  /\ freeSpans' = [freeSpans EXCEPT ![RestBin] = @ \cup {Rest}]
  /\ cachedFreePages' = cachedFreePages + RestSize
  /\ Goto("mapRest")
  /\ UNCHANGED <<pageMap, systemAllocs, osPages, running, held>>

(* `new Span' or the node of freeSpans_ cannot be had.                     *)
SplitThrows ==
  /\ op.at = "split"
  /\ spans' \in {spans, WithRest}
  /\ cachedFreePages' = CountIfSplitThrows
  /\ Throw
  /\ UNCHANGED <<freeSpans, pageMap, systemAllocs, osPages>>

(* The pages are in the map already, so their entries are only changed.    *)
MapRest == MapStep("mapRest", registerPages(pageMap, Rest, RestSize), "mapSpan")

MapSpan ==
  /\ op.at = "mapSpan"
  /\ spans' = [spans EXCEPT ![me].numPages = op.size]
  /\ pageMap' = registerPages(pageMap, me, op.size)
  /\ Goto("hand")
  /\ UNCHANGED <<freeSpans, systemAllocs, cachedFreePages, osPages, running, held>>

Hand ==
  /\ op.at = "hand"
  /\ spans' = [spans EXCEPT ![me].isLarge = op.large]
  /\ held' = held \cup {me}
  /\ Unlock
  /\ UNCHANGED <<freeSpans, pageMap, systemAllocs, cachedFreePages, osPages, running>>

Map(n, large) ==
  \E m \in n .. (n + Granularity - 1), s \in Pages :
    /\ lowerBound(n) = {}
    /\ m % Granularity = 0
    /\ Run(s, m) \subseteq Pages \ osPages
    /\ Lock([Idle EXCEPT !.at = "record", !.span = s, !.size = m, !.large = large])
    /\ osPages' = osPages \cup Run(s, m)
    /\ UNCHANGED <<spans, freeSpans, pageMap, systemAllocs, cachedFreePages, running, held>>

Record ==
  /\ op.at = "record"
  /\ systemAllocs' = systemAllocs \cup {<<me, op.size>>}
  /\ Goto("newSpan")
  /\ UNCHANGED <<spans, freeSpans, pageMap, cachedFreePages, osPages, running, held>>

NewSpan ==
  /\ op.at = "newSpan"
  /\ spans' = [x \in DOMAIN spans \cup {me} |->
                 IF x = me THEN [numPages |-> op.size, originAddr |-> me,
                                 originPages |-> op.size, inFreeList |-> FALSE,
                                 isLarge |-> FALSE]
                 ELSE spans[x]]
  /\ Goto("register")
  /\ UNCHANGED <<freeSpans, pageMap, systemAllocs, cachedFreePages, osPages, running, held>>

Register == MapStep("register", registerPages(pageMap, me, op.size), "hand")

(* The record of the mapping or the Span object cannot be had.             *)
MapThrows ==
  /\ op.at \in {"record", "newSpan"}
  /\ Throw
  /\ UNCHANGED <<spans, freeSpans, pageMap, systemAllocs, cachedFreePages, osPages>>

(* The page map has taken the first pages only.                            *)
RegisterThrows ==
  /\ op.at = "register"
  /\ \E n \in 0 .. (op.size - 1) : pageMap' = registerPages(pageMap, me, n)
  /\ Throw
  /\ UNCHANGED <<spans, freeSpans, systemAllocs, cachedFreePages, osPages>>

-----------------------------------------------------------------------------
(* deallocateSpan.                                                         *)

(* A variant that clears the fields of the next span before it knows       *)
(* whether that one is free.                                               *)
ClearedWithNext(s) == {s, End(s)}

Cleared(s) == {s}

GiveBack(s) ==
  /\ Lock([Idle EXCEPT !.at = IF ReturnDirect(s) THEN "unregister" ELSE "next", !.span = s])
  /\ held' = held \ {s}
  /\ spans' = [x \in DOMAIN spans |->
                 [spans[x] EXCEPT !.isLarge = @ /\ x \notin Cleared(s)]]
  /\ UNCHANGED <<freeSpans, pageMap, systemAllocs, cachedFreePages, osPages, running>>

(* removeFromFreeList(x), then `into' takes the pages of `from'.           *)
Absorb(x, into, from, at) ==
  /\ freeSpans' = [freeSpans EXCEPT ![spans[x].numPages] = @ \ {x}]
  /\ cachedFreePages' = cachedFreePages - spans[x].numPages
  /\ spans' = [y \in DOMAIN spans |->
                 [spans[y] EXCEPT !.inFreeList = @ /\ y # x,
                                  !.numPages = IF y = into THEN @ + spans[from].numPages ELSE @]]
  /\ op' = [op EXCEPT !.at = at, !.other = x]
  /\ UNCHANGED <<pageMap, systemAllocs, osPages, running, held, before, thrown>>

LookNext ==
  /\ op.at = "next"
  /\ IF NextMergeable(me) THEN Absorb(End(me), me, End(me), "redirectNext")
     ELSE Goto("prev") /\ UNCHANGED <<cacheVars, held>>

PagesAfterNext == redirectPages(op.other, me)

RedirectNext == MapStep("redirectNext", PagesAfterNext, "deleteNext")

DeleteNext ==
  /\ op.at = "deleteNext"
  /\ spans' = Without({op.other})
  /\ Goto("prev")
  /\ UNCHANGED <<freeSpans, pageMap, systemAllocs, cachedFreePages, osPages, running, held>>

LookPrev ==
  LET x == pageMap[me - 1]
  IN  /\ op.at = "prev"
      /\ IF PrevMergeable(me) THEN Absorb(x, x, me, "redirectPrev")
         ELSE Goto("place") /\ UNCHANGED <<cacheVars, held>>

RedirectPrev == MapStep("redirectPrev", redirectPages(me, op.other), "deletePrev")

DeletePrev ==
  /\ op.at = "deletePrev"
  /\ spans' = Without({me})
  /\ op' = [op EXCEPT !.at = "place", !.span = op.other]
  /\ UNCHANGED <<freeSpans, pageMap, systemAllocs, cachedFreePages, osPages, running, held, before, thrown>>

(* A variant that does not let the cache fill up to the limit.             *)
OverLimitAt == OwnsOrigin(me) /\ cachedFreePages + spans[me].numPages >= MaxCachedPages

OverLimit == OwnsOrigin(me) /\ cachedFreePages + spans[me].numPages > MaxCachedPages

Place ==
  /\ op.at = "place"
  /\ ~ OverLimit
  /\ spans' = [spans EXCEPT ![me].inFreeList = TRUE]
  /\ freeSpans' = [freeSpans EXCEPT ![spans[me].numPages] = @ \cup {me}]
  /\ cachedFreePages' = cachedFreePages + spans[me].numPages
  /\ Unlock
  /\ UNCHANGED <<pageMap, systemAllocs, osPages, running, held>>

(* The node of freeSpans_ cannot be had: the span says it is on a list.    *)
PlaceThrows ==
  /\ op.at = "place"
  /\ ~ OverLimit
  /\ spans' = [spans EXCEPT ![me].inFreeList = TRUE]
  /\ Throw
  /\ UNCHANGED <<freeSpans, pageMap, systemAllocs, cachedFreePages, osPages>>

PlaceOver ==
  /\ op.at = "place"
  /\ OverLimit
  /\ Goto("unregister")
  /\ UNCHANGED <<cacheVars, held>>

(* A variant that takes a page too many out of the map.                    *)
UnregisteredPast == unregisterPages(pageMap, me, spans[me].numPages + 1)

Unregistered == unregisterPages(pageMap, me, spans[me].numPages)

Unregister == MapStep("unregister", Unregistered, "release")

Release ==
  /\ op.at = "release"
  /\ systemAllocs' = {a \in systemAllocs : a[1] # spans[me].originAddr}
  /\ spans' = Without({me})
  /\ osPages' = osPages \ Run(spans[me].originAddr, spans[me].originPages)
  /\ Unlock
  /\ UNCHANGED <<freeSpans, pageMap, cachedFreePages, running, held>>

-----------------------------------------------------------------------------
StepDestroy ==
  /\ op = Idle
  /\ Destroy
  /\ held' = {}
  /\ UNCHANGED <<op, before, thrown>>

StepInit ==
  /\ Init
  /\ op = Idle
  /\ held = {}
  /\ before = <<>>
  /\ thrown = FALSE

StepNext ==
  \/ \E n \in 0 .. NumPages, large \in BOOLEAN :
       LET pages == IF n = 0 THEN 1 ELSE n IN Take(pages, large) \/ Map(pages, large)
  \/ Split
  \/ SplitThrows
  \/ MapRest
  \/ MapSpan
  \/ Hand
  \/ Record
  \/ NewSpan
  \/ Register
  \/ MapThrows
  \/ RegisterThrows
  \/ \E s \in held : GiveBack(s)
  \/ LookNext
  \/ RedirectNext
  \/ DeleteNext
  \/ LookPrev
  \/ RedirectPrev
  \/ DeletePrev
  \/ Place
  \/ PlaceThrows
  \/ PlaceOver
  \/ Unregister
  \/ Release
  \/ StepDestroy

StepSpec == StepInit /\ [][StepNext]_stepVars

-----------------------------------------------------------------------------
(* Whoever looks up a page of a span in use finds that span, also while    *)
(* another thread splits, merges or releases its neighbours, and also      *)
(* after an operation has thrown.  No lookup ever returns a Span object    *)
(* that has been deleted, or speaks of a page that is not mapped or that   *)
(* the destructor would not unmap.                                         *)
LookupsSound ==
  /\ \A s \in held : s \in DOMAIN spans /\ \A p \in PagesOf(s) :
       p \in DOMAIN pageMap /\ pageMap[p] = s
  /\ \A p \in DOMAIN pageMap :
       /\ pageMap[p] \in DOMAIN spans
       /\ p \in osPages
       /\ \E a \in systemAllocs : p \in Run(a[1], a[2])

(* The bins stay usable after an exception: each span in one exists, has   *)
(* the size of the bin, covers pages nobody holds, and overlaps no other;  *)
(* and cachedFreePages_ counts their pages at every step, so the budget    *)
(* and stats() never drift.                                                *)
Binned == {s \in Pages : \E k \in Sizes : s \in freeSpans[k]}
BinsSound ==
  /\ \A k \in Sizes : \A s \in freeSpans[k] :
       s \in DOMAIN spans /\ spans[s].inFreeList /\ spans[s].numPages = k
  /\ \A s \in Binned, t \in Binned \cup held : s # t => PagesOf(s) \cap PagesOf(t) = {}
  /\ running =>
       cachedFreePages = Cardinality({p \in Pages : \E s \in Binned : p \in PagesOf(s)})

(* A span in use is not written by any operation on other spans: its       *)
(* holder may read isLarge and the class without a lock.                   *)
HeldUntouched ==
  [][\A s \in held \cap held' : s \in DOMAIN spans' /\ spans'[s] = spans[s]]_stepVars

(* Until an operation throws, the mutex makes every operation atomic: what *)
(* the cache was before the operation in progress follows PageCache.       *)
Committed == IF op = Idle THEN Now ELSE before
Atomic == INSTANCE PageCache
            WITH spans <- Committed.spans, freeSpans <- Committed.freeSpans,
                 pageMap <- Committed.pageMap, systemAllocs <- Committed.systemAllocs,
                 cachedFreePages <- Committed.cachedFreePages, osPages <- Committed.osPages
ImplementsPageCache == Atomic!Init /\ [][thrown' \/ Atomic!Next]_(Atomic!vars)
=============================================================================
