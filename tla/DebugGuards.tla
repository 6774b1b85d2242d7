---------------------------- MODULE DebugGuards ----------------------------
(***************************************************************************)
(* The validation a build with KAMA_MEMORY_POOL_DEBUG_GUARDS adds to the   *)
(* v3 ThreadCache (v3/src/ThreadCache.cpp).  Every span of blocks carries  *)
(* a byte map, debugAllocMap, with a one for each block the program holds; *)
(* a large span carries one flag.  An allocation sets the mark of the      *)
(* block it is about to return, a free is let through only if the mark is  *)
(* set, and clears it.  The caller here makes mistakes as well: it frees   *)
(* twice (two threads at once, too), frees the inside of a block, memory   *)
(* that is in no span in use, or names the wrong size.                     *)
(*                                                                         *)
(* An address is a span and an offset in it, in units of which a block has *)
(* Unit[c].  A call takes the steps the code separates: the lookup of the  *)
(* span, the check under debugMutex, and the list or page cache update.    *)
(* The central cache is the set of its free blocks.  Restriction: while a  *)
(* free stands between lookup and check, its span is neither given back    *)
(* nor taken into use (Inspected).  A correct free needs no such help; for *)
(* one that has erred the code would read a Span that was deleted.  The    *)
(* exceptions of a page cache without memory are left out.                 *)
(***************************************************************************)
EXTENDS Naturals, FiniteSets

CONSTANTS Threads, Spans, Classes,
          SpanUnits,        \* units in a span
          Unit,             \* Unit[c]: units in a block of class c
          Batch,            \* most blocks one refill brings
          MaxCached,        \* blocks a list may hold before it is halved
          WrongKind,        \* may a sized free confuse large and small?
          Large, Free, NoSize \* a large span; a span not in use; no size given

ASSUME GuardsAssumption ==
  /\ SpanUnits \in Nat \ {0}
  /\ Unit \in [Classes -> 1 .. SpanUnits]
  /\ Batch \in Nat \ {0} /\ MaxCached \in Nat \ {0}
  /\ WrongKind \in BOOLEAN
  /\ Cardinality({Large, Free, NoSize}) = 3
  /\ {Large, Free, NoSize} \cap Classes = {}

VARIABLES
  kind,     \* kind[s]: the class of span s, Large, or Free
  marks,    \* marks[s]: [size, set] of debugAllocMap
  largeOut, \* largeOut[s]: debugLargeAllocated
  central,  \* central[c]: the free blocks of class c in CentralCache
  lists,    \* lists[t][c]: freeList_ of thread t
  live,     \* addresses allocate has returned and no free has been let through
  call      \* call[t]: the call thread t is in

vars == <<kind, marks, largeOut, central, lists, live, call>>

Addresses == Spans \X (0 .. SpanUnits - 1)
Idle      == [step |-> "idle"]

\* blockCount of a span of class c.
CountOf(c) == SpanUnits \div Unit[c]

\* The blocks a span of class c is cut into.
BlocksOf(s, c) == {<<s, i * Unit[c]>> : i \in 0 .. CountOf(c) - 1}

EmptyMap == [size |-> 0, set |-> {}]

\* The size a caller may name for the address p: none, a class, or Large for
\* a size above MAX_BYTES.
RightSize(p, e) == e = NoSize \/ e = kind[p[1]]
MayName(p, e) ==
  \/ WrongKind
  \/ e = NoSize
  \/ kind[p[1]] = Free
  \/ (e = Large) = (kind[p[1]] = Large)

----------------------------------------------------------------------------
\* debugBlockIndex: the index of the block at p, or NoIndex (size_t(-1)).
NoIndex == SpanUnits + 1

debugBlockIndex(p) ==
  IF kind[p[1]] \in Classes /\ p[2] % Unit[kind[p[1]]] = 0
  THEN p[2] \div Unit[kind[p[1]]]
  ELSE NoIndex

\* Whether debugAllocMap has a one for the block at p.
Marked(p) ==
  /\ debugBlockIndex(p) < marks[p[1]].size
  /\ debugBlockIndex(p) \in marks[p[1]].set

\* As Validated, but without the comparison of the span's class with e.
ValidatedAnyClass(p, e) ==
  LET s == p[1] IN
  CASE kind[s] = Large -> p[2] = 0 /\ largeOut[s]
    [] kind[s] = Free  -> FALSE
    [] OTHER           -> Marked(p)

\* What debugValidateAndMarkFreed returns for p and expectedIndex e: the
\* branch for a large span does not look at e.
Validated(p, e) ==
  LET s == p[1] IN
  CASE kind[s] = Large -> p[2] = 0 /\ largeOut[s]
    [] kind[s] = Free  -> FALSE
    [] OTHER           -> e \in {NoSize, Large, kind[s]} /\ Marked(p)

MarkFreed(p) ==
  LET s == p[1] IN
  IF kind[s] = Large
  THEN /\ largeOut' = [largeOut EXCEPT ![s] = FALSE]
       /\ UNCHANGED marks
  ELSE /\ marks' = [marks EXCEPT ![s].set = @ \ {debugBlockIndex(p)}]
       /\ UNCHANGED largeOut

\* As FreshMap, but with the map left as deallocateSpan emptied it.
FreshMapEmpty(c) == EmptyMap

\* debugAllocMap as createSpan leaves it for a span of class c.
FreshMap(c) == [size |-> CountOf(c), set |-> {}]

----------------------------------------------------------------------------
\* A free has looked up the span of its address and not yet checked it.
Inspected(s) ==
  \E t \in Threads : call[t].step \in {"check", "again"} /\ call[t].ptr[1] = s

\* A thread that has been given a batch keeps one block for the caller.
TakeBatch(t, c, avail) ==
  \E batch \in SUBSET avail, b \in avail :
    /\ b \in batch
    /\ Cardinality(batch) <= Batch
    /\ central' = [central EXCEPT ![c] = avail \ batch]
    /\ lists' = [lists EXCEPT ![t][c] = batch \ {b}]
    /\ call' = [call EXCEPT ![t] = [step |-> "mark", ptr |-> b]]

\* allocate for a size of class c: the head of the list, or a refill, from the
\* blocks the central cache has or from a new span.
allocateSmall(t, c) ==
  /\ call[t] = Idle
  /\ \/ /\ \E b \in lists[t][c] :
             /\ lists' = [lists EXCEPT ![t][c] = @ \ {b}]
             /\ call' = [call EXCEPT ![t] = [step |-> "mark", ptr |-> b]]
        /\ UNCHANGED <<kind, marks, central>>
     \/ /\ lists[t][c] = {}
        /\ central[c] # {}
        /\ TakeBatch(t, c, central[c])
        /\ UNCHANGED <<kind, marks>>
     \/ /\ lists[t][c] = {}
        /\ central[c] = {}
        /\ \E s \in Spans :
             /\ kind[s] = Free /\ ~ Inspected(s)
             /\ kind' = [kind EXCEPT ![s] = c]
             /\ marks' = [marks EXCEPT ![s] = FreshMap(c)]
             /\ TakeBatch(t, c, BlocksOf(s, c))
  /\ UNCHANGED <<largeOut, live>>

\* debugMarkAllocated lets every block of a large span through.
MarkRefused(p) ==
  /\ kind[p[1]] # Large
  /\ debugBlockIndex(p) >= marks[p[1]].size \/ Marked(p)

\* debugMarkAllocated: the block goes to the caller, or, when its mark is set
\* already, nowhere: allocate returns nullptr.
markAllocated(t) ==
  /\ call[t].step = "mark"
  /\ LET p == call[t].ptr
         s == p[1]
     IN /\ live' = live \cup {q \in {p} : ~ MarkRefused(q)}
        /\ marks' = IF kind[s] = Large \/ MarkRefused(p)
                    THEN marks
                    ELSE [marks EXCEPT ![s].set = @ \cup {debugBlockIndex(p)}]
  /\ call' = [call EXCEPT ![t] = Idle]
  /\ UNCHANGED <<kind, largeOut, central, lists>>

\* allocate for a size above MAX_BYTES.
allocateLarge(t) ==
  /\ call[t] = Idle
  /\ \E s \in Spans :
       /\ kind[s] = Free /\ ~ Inspected(s)
       /\ kind' = [kind EXCEPT ![s] = Large]
       /\ marks' = [marks EXCEPT ![s] = EmptyMap]
       /\ largeOut' = [largeOut EXCEPT ![s] = TRUE]
       /\ live' = live \cup {<<s, 0>>}
  /\ UNCHANGED <<central, lists, call>>

----------------------------------------------------------------------------
\* deallocate, with or without a size: findSpan.  An address in no span in
\* use is refused by the check of the next step.
deallocate(t, p, e) ==
  /\ call[t] = Idle
  /\ MayName(p, e)
  /\ call' = [call EXCEPT ![t] = [step |-> "check", ptr |-> p, size |-> e]]
  /\ UNCHANGED <<kind, marks, largeOut, central, lists, live>>

\* Where a free goes once its check has let it through.  A size above
\* MAX_BYTES for a span that is not large is handed to deallocate(ptr), which
\* checks again.
AfterCheck(p, e) ==
  CASE kind[p[1]] = Large /\ e \notin Classes -> "release"
    [] kind[p[1]] # Large /\ e = Large        -> "again"
    [] OTHER                                  -> "push"

ListFor(p, e) == IF e \in Classes THEN e ELSE kind[p[1]]

\* debugValidateAndMarkFreed under debugMutex.
validateAndMarkFreed(t) ==
  /\ call[t].step \in {"check", "again"}
  /\ LET p == call[t].ptr
         e == IF call[t].step = "again" THEN NoSize ELSE call[t].size
     IN IF Validated(p, e)
        THEN /\ MarkFreed(p)
             /\ live' = live \ {p}
             /\ call' = [call EXCEPT ![t] =
                           [step |-> AfterCheck(p, e), ptr |-> p, size |-> e]]
        ELSE /\ call' = [call EXCEPT ![t] = Idle]
             /\ UNCHANGED <<marks, largeOut, live>>
  /\ UNCHANGED <<kind, central, lists>>

\* The spans of class c whose blocks are all in the set home.
WholeSpans(c, home) == {s \in Spans : kind[s] = c /\ BlocksOf(s, c) \subseteq home}

\* deallocateSpan empties the maps of the spans it is given.
GiveBack(gone) ==
  /\ kind' = [s \in Spans |-> IF s \in gone THEN Free ELSE kind[s]]
  /\ marks' = [s \in Spans |-> IF s \in gone THEN EmptyMap ELSE marks[s]]
  /\ largeOut' = [s \in Spans |-> s \notin gone /\ largeOut[s]]

\* The blocks in `back' go home to class c, and spans that become whole are
\* given back.
returnRange(c, back) ==
  LET home == central[c] \cup back
      gone == WholeSpans(c, home)
  IN /\ \A s \in gone : ~ Inspected(s)
     /\ GiveBack(gone)
     /\ central' = [central EXCEPT ![c] = {b \in home : b[1] \notin gone}]

Keep(n) == IF n \div 2 > 1 THEN n \div 2 ELSE 1

\* The block joins its list; a list that is then too long is halved.
push(t) ==
  /\ call[t].step = "push"
  /\ LET c == ListFor(call[t].ptr, call[t].size)
         list == lists[t][c] \cup {call[t].ptr}
         n == Cardinality(list)
     IN IF n > MaxCached
        THEN \E keep \in SUBSET list :
               /\ Cardinality(keep) = Keep(n)
               /\ lists' = [lists EXCEPT ![t][c] = keep]
               /\ returnRange(c, list \ keep)
        ELSE /\ lists' = [lists EXCEPT ![t][c] = list]
             /\ UNCHANGED <<kind, marks, largeOut, central>>
  /\ call' = [call EXCEPT ![t] = Idle]
  /\ UNCHANGED live

\* deallocateSpan for a large span whose free was let through.
release(t) ==
  /\ call[t].step = "release"
  /\ ~ Inspected(call[t].ptr[1])
  /\ GiveBack({call[t].ptr[1]})
  /\ call' = [call EXCEPT ![t] = Idle]
  /\ UNCHANGED <<central, lists, live>>

\* flushAll at the end of a thread, one class at a time.
flush(t, c) ==
  /\ call[t] = Idle
  /\ lists[t][c] # {}
  /\ returnRange(c, lists[t][c])
  /\ lists' = [lists EXCEPT ![t][c] = {}]
  /\ UNCHANGED <<live, call>>

----------------------------------------------------------------------------
Init ==
  /\ kind = [s \in Spans |-> Free]
  /\ marks = [s \in Spans |-> EmptyMap]
  /\ largeOut = [s \in Spans |-> FALSE]
  /\ central = [c \in Classes |-> {}]
  /\ lists = [t \in Threads |-> [c \in Classes |-> {}]]
  /\ live = {}
  /\ call = [t \in Threads |-> Idle]

Next ==
  \E t \in Threads :
    \/ \E c \in Classes : allocateSmall(t, c) \/ flush(t, c)
    \/ allocateLarge(t)
    \/ markAllocated(t)
    \/ \E p \in Addresses, e \in Classes \cup {Large, NoSize} : deallocate(t, p, e)
    \/ validateAndMarkFreed(t)
    \/ push(t)
    \/ release(t)

Spec == Init /\ [][Next]_vars

----------------------------------------------------------------------------
\* The places a block can be in: the program's hands, a thread's list, the
\* central cache, or a call that has taken it and not yet put it down.
InCall(t) == IF call[t].step \in {"mark", "push", "release"} THEN {call[t].ptr} ELSE {}

Places(p) ==
  {<<"live", p>> : x \in live \cap {p}}
    \cup {<<"central", c>> : c \in {c \in Classes : p \in central[c]}}
    \cup {<<"list", q[1], q[2]>> :
            q \in {q \in Threads \X Classes : p \in lists[q[1]][q[2]]}}
    \cup {<<"call", t>> : t \in {t \in Threads : p \in InCall(t)}}

BlocksIn(s) ==
  CASE kind[s] = Free  -> {}
    [] kind[s] = Large -> {<<s, 0>>}
    [] OTHER           -> BlocksOf(s, kind[s])

\* Whatever the caller gets wrong, every block of every span in use is in
\* exactly one place, and no other address is anywhere: a free that is let
\* through twice, or an allocation refused for a stale mark, would break it.
OnePlace ==
  \A p \in Addresses :
    Cardinality(Places(p)) = IF p \in BlocksIn(p[1]) THEN 1 ELSE 0

\* A free is let through exactly when the program holds the block and names no
\* other size: no false alarm for a correct caller, however its blocks travel
\* between threads and spans are reused, and no double, interior or foreign
\* free that passes (v3/tests/UnitTest.cpp:438-446).
JudgedRightly ==
  [][\A t \in Threads :
       call[t].step = "check" /\ call'[t] # call[t] =>
         ((call'[t].step # "idle") =
            (call[t].ptr \in live /\ RightSize(call[t].ptr, call[t].size)))]_vars
=============================================================================
