-------------------------- MODULE PoolStatsProofs ---------------------------
(***************************************************************************)
(* The counters of v3's statistics agree with what the program and the     *)
(* pool do, for any number of threads, any bounds and any values the       *)
(* relaxed loads may return.                                               *)
(***************************************************************************)
EXTENDS PoolStats, FiniteSetTheorems, TLAPS

Granting == {"refill", "alloc", "kind", "return"}
Leaving  == {"flush", "free", "how"}

CallRecord ==
  {Idle} \cup [step : Granting, kind : Kinds, new : BOOLEAN]
         \cup [step : Leaving, size : Nat \ {0}, sized : BOOLEAN]
         \cup [step : {"cached", "report"}]
         \cup [step : {"load"}, at : DOMAIN LoadOrder]

TypeOK ==
  /\ count \in [Counters -> Nat]
  /\ view \in [Threads -> [Counters -> Nat]]
  /\ list \in [Threads -> Nat]
  /\ pages \in [reserved : Nat, cached : Nat]
  /\ taken \in [Kinds -> Nat] /\ held \in [Kinds -> Nat]
  /\ call \in [Threads -> CallRecord]
  /\ alive \in [Threads -> {"running", "exited", "joined"}]
  /\ out \in [quiet : BOOLEAN, reserved : Nat, cached : Nat,
              value : [Counters -> Nat], live : Nat]
  /\ calls \in Nat

(* How many threads are at a step of S, and how many of those that are     *)
(* being granted a block are granted one of kind k.                        *)
At(S) == SumOf([t \in Threads |-> IF call[t].step \in S THEN 1 ELSE 0])
GrantedOf(k) ==
  SumOf([t \in Threads |-> IF call[t].step \in Granting /\ call[t].kind = k THEN 1 ELSE 0])

(* A block given out is an object, or on its way to become one.            *)
TakenExact ==
  /\ \A k \in Kinds : taken[k] = held[k] + GrantedOf(k)
  /\ Total(taken) = Total(held) + At(Granting)

(* A page is cached or makes a large block.                                *)
PagesExact == pages.reserved = pages.cached + taken["large"] + taken["aligned"]

(* What is counted and what is not yet.                                    *)
CountsExact ==
  /\ count["alloc"] + At({"refill", "alloc"}) = count["free"] + At({"flush", "free"}) + Total(taken)
  /\ count["small"] + count["large"] + At({"kind"}) = count["alloc"]
  /\ count["sized"] + count["unsized"] + At({"how"}) = count["free"]

(* A refill and a flush are counted after the list has changed.            *)
CallsExact ==
  \A t \in Threads :
    /\ call[t].step = "refill" => call[t].kind = "small" /\ list[t] = Batch - 1
    /\ call[t].step = "flush" => list[t] = Keep(call[t].size) /\ list[t] <= call[t].size

(* The blocks of thread t that the counters of refills and flushes know.   *)
Known(t) == IF call[t].step = "refill" THEN 0
            ELSE IF call[t].step = "flush" THEN call[t].size
            ELSE list[t]

Fetched   == count["refill"] + At({"refill"})
Accounted == count["flush"] + taken["small"] + SumOf([t \in Threads |-> Known(t)])

FlowExact ==
  /\ Accounted <= Fetched
  /\ (\A t \in Threads : alive[t] = "running") => Accounted = Fetched

(* Some thread has seen the latest value of every counter; what a thread   *)
(* that has ended and been joined saw, the main thread has seen.           *)
ViewsExact ==
  /\ \A t \in Threads, c \in Counters : view[t][c] <= count[c]
  /\ \A c \in Counters : \E t \in Threads : view[t][c] = count[c]
  /\ \A t \in Threads : alive[t] = "joined" => \A c \in Counters : view[t][c] <= view[Main][c]
  /\ \A t \in Threads : alive[t] # "running" => t # Main /\ call[t] = Idle
  /\ \A t \in Threads : call[t].step \in {"cached", "load", "report"} => t = Main

(* How many counters stats() has loaded.                                   *)
Loaded == CASE call[Main].step = "load"   -> call[Main].at - 1
            [] call[Main].step = "report" -> Len(LoadOrder)
            [] OTHER                      -> 0

(* What stats() has loaded was true once, and if no other thread is left   *)
(* it still is.                                                            *)
OutExact ==
  /\ \A c \in Counters : out.value[c] <= count[c]
  /\ out.live <= count["alloc"]
  /\ out.quiet =>
       /\ call[Main].step \in {"cached", "load", "report"}
       /\ \A t \in Threads \ {Main} : alive[t] = "joined"
       /\ out.reserved = pages.reserved
       /\ call[Main].step # "cached" => out.cached = pages.cached
       /\ \A i \in 1 .. Loaded : out.value[LoadOrder[i]] = count[LoadOrder[i]]
       /\ Loaded >= 2 => out.live = LiveOf(count["alloc"], count["free"])

Counted == TypeOK /\ TakenExact /\ PagesExact /\ CountsExact /\ CallsExact /\ FlowExact
Inv == Counted /\ ViewsExact /\ OutExact

-----------------------------------------------------------------------------
(* Sums over the threads.                                                  *)

Cells(f) == UNION {{t} \X (1 .. f[t]) : t \in Threads}

(* The row of one thread has as many pairs as its value.                   *)
LEMMA RowCounts ==
  ASSUME NEW t, NEW n \in Nat
  PROVE  IsFiniteSet({t} \X (1 .. n)) /\ Cardinality({t} \X (1 .. n)) = n
<1>1. IsFiniteSet({t}) /\ Cardinality({t}) = 1
  BY FS_Singleton, Zenon
<1>2. IsFiniteSet(1 .. n) /\ Cardinality(1 .. n) = n
  <2>1. 1 \in Int /\ n \in Int
    OBVIOUS
  <2>2. IsFiniteSet(1 .. n) /\ Cardinality(1 .. n) = IF 1 > n THEN 0 ELSE n - 1 + 1
    BY <2>1, FS_Interval, Zenon
  <2> QED BY <2>2
<1>3. /\ IsFiniteSet({t} \X (1 .. n))
      /\ Cardinality({t} \X (1 .. n)) = Cardinality({t}) * Cardinality(1 .. n)
  BY <1>1, <1>2, FS_Product, Zenon
<1> QED BY <1>1, <1>2, <1>3

(* Sets that share nothing add up.                                         *)
LEMMA DisjointUnion ==
  ASSUME NEW S, NEW T, IsFiniteSet(S), IsFiniteSet(T), S \cap T = {}
  PROVE  Cardinality(S \cup T) = Cardinality(S) + Cardinality(T)
<1>1. Cardinality(S) \in Nat /\ Cardinality(T) \in Nat
  BY FS_CardinalityType
<1>2. Cardinality(S \cup T) = Cardinality(S) + Cardinality(T) - Cardinality(S \cap T)
  BY FS_Union
<1>3. Cardinality(S \cap T) = 0
  BY FS_EmptySet
<1> QED BY <1>1, <1>2, <1>3

(* A sum is that of a finite set of pairs.                                 *)
LEMMA CellsFinite ==
  ASSUME NEW f \in [Threads -> Nat]
  PROVE  IsFiniteSet(Cells(f)) /\ SumOf(f) = Cardinality(Cells(f)) /\ SumOf(f) \in Nat
<1> DEFINE rows == {{t} \X (1 .. f[t]) : t \in Threads}
           row  == [t \in Threads |-> {t} \X (1 .. f[t])]
<1>1. row \in Surjection(Threads, rows)
  BY DEF Surjection
<1>2. IsFiniteSet(rows)
  BY <1>1, FS_Surjection, StatsAssumption DEF StatsAssumption
<1>3. ASSUME NEW r \in rows PROVE IsFiniteSet(r)
  <2>1. PICK t \in Threads : r = {t} \X (1 .. f[t])
    OBVIOUS
  <2>2. IsFiniteSet({t} \X (1 .. f[t]))
    BY RowCounts
  <2> QED BY <2>1, <2>2
<1>4. IsFiniteSet(UNION rows)
  <2> HIDE DEF rows
  <2> QED BY <1>2, <1>3, FS_UNION
<1>5. Cells(f) = UNION rows /\ SumOf(f) = Cardinality(Cells(f))
  BY DEF Cells, SumOf
<1> QED BY <1>4, <1>5, FS_CardinalityType

(* What changes at one thread changes the sum by as much.                  *)
LEMMA SumChange ==
  ASSUME NEW f \in [Threads -> Nat], NEW g \in [Threads -> Nat], NEW t \in Threads,
         \A u \in Threads : u # t => g[u] = f[u]
  PROVE  SumOf(g) + f[t] = SumOf(f) + g[t]
<1> DEFINE rest == Cells(f) \ ({t} \X (1 .. f[t]))
<1>1. /\ IsFiniteSet(Cells(f)) /\ SumOf(f) = Cardinality(Cells(f)) /\ SumOf(f) \in Nat
      /\ SumOf(g) = Cardinality(Cells(g)) /\ SumOf(g) \in Nat
  BY CellsFinite
<1>2. /\ IsFiniteSet({t} \X (1 .. f[t])) /\ Cardinality({t} \X (1 .. f[t])) = f[t]
      /\ IsFiniteSet({t} \X (1 .. g[t])) /\ Cardinality({t} \X (1 .. g[t])) = g[t]
  BY RowCounts
<1>3. /\ Cells(f) = rest \cup ({t} \X (1 .. f[t]))
      /\ rest \cap ({t} \X (1 .. f[t])) = {}
  <2>1. {t} \X (1 .. f[t]) \subseteq Cells(f)
    BY Zenon DEF Cells
  <2> QED BY <2>1
<1>4. /\ Cells(g) = rest \cup ({t} \X (1 .. g[t]))
      /\ rest \cap ({t} \X (1 .. g[t])) = {}
  <2>1. \A p : p \in Cells(f) <=> \E u \in Threads : p \in {u} \X (1 .. f[u])
    BY Zenon DEF Cells
  <2>2. \A p : p \in Cells(g) <=> \E u \in Threads : p \in {u} \X (1 .. g[u])
    BY Zenon DEF Cells
  <2>3. \A u \in Threads : u # t => {u} \X (1 .. f[u]) = {u} \X (1 .. g[u])
    OBVIOUS
  <2>4. \A u, v : \A p \in {u} \X (1 .. f[u]) : p \in {v} \X (1 .. f[v]) => u = v
    OBVIOUS
  <2>5. \A u, v : \A p \in {u} \X (1 .. f[u]) : p \in {v} \X (1 .. g[v]) => u = v
    OBVIOUS
  <2>6. ASSUME NEW p \in Cells(g) PROVE p \in rest \cup ({t} \X (1 .. g[t]))
    BY <2>1, <2>2, <2>3, <2>4, <2>5, <2>6
  <2>7. ASSUME NEW p \in rest \cup ({t} \X (1 .. g[t])) PROVE p \in Cells(g) /\ (p \in rest => p \notin {t} \X (1 .. g[t]))
    BY <2>1, <2>2, <2>3, <2>4, <2>5, <2>7
  <2> QED BY <2>6, <2>7
<1>5. IsFiniteSet(rest)
  BY <1>1, FS_Difference
<1>6. Cardinality(rest) \in Nat
  BY <1>5, FS_CardinalityType
<1> HIDE DEF rest
<1>7. Cardinality(Cells(f)) = Cardinality(rest) + f[t]
  BY <1>2, <1>3, <1>5, DisjointUnion
<1>8. Cardinality(Cells(g)) = Cardinality(rest) + g[t]
  BY <1>2, <1>4, <1>5, DisjointUnion
<1> QED BY <1>1, <1>6, <1>7, <1>8

(* A sum is no less than one of smaller values, nor than one of its own.   *)
LEMMA SumBelow ==
  ASSUME NEW f \in [Threads -> Nat], NEW g \in [Threads -> Nat],
         \A t \in Threads : f[t] <= g[t]
  PROVE  SumOf(f) <= SumOf(g)
<1>1. Cells(f) \subseteq Cells(g)
  <2>1. ASSUME NEW p \in Cells(f) PROVE p \in Cells(g)
    <3>1. PICK t \in Threads : p \in {t} \X (1 .. f[t])
      BY Zenon DEF Cells
    <3>2. 1 .. f[t] \subseteq 1 .. g[t]
      OBVIOUS
    <3>3. p \in {t} \X (1 .. g[t])
      BY <3>1, <3>2
    <3> QED BY <3>3, Zenon DEF Cells
  <2> QED BY <2>1
<1> QED BY <1>1, CellsFinite, FS_Subset

LEMMA SumZero ==
  ASSUME NEW f \in [Threads -> Nat], \A t \in Threads : f[t] = 0
  PROVE  SumOf(f) = 0
<1>1. \A p : p \notin Cells(f)
  <2>1. ASSUME NEW p \in Cells(f) PROVE FALSE
    <3>1. PICK t \in Threads : p \in {t} \X (1 .. f[t])
      BY Zenon DEF Cells
    <3> QED BY <3>1
  <2> QED BY <2>1
<1>2. Cells(f) = {}
  BY <1>1
<1> QED BY <1>2, CellsFinite, FS_EmptySet

(* A thread counts itself.                                                 *)
LEMMA SumAtLeast ==
  ASSUME NEW f \in [Threads -> Nat], NEW t \in Threads
  PROVE  f[t] <= SumOf(f)
<1> DEFINE g == [u \in Threads |-> IF u = t THEN 0 ELSE f[u]]
<1>1. g \in [Threads -> Nat] /\ g[t] = 0 /\ \A u \in Threads : u # t => g[u] = f[u]
  OBVIOUS
<1> HIDE DEF g
<1>2. SumOf(g) + f[t] = SumOf(f) + g[t]
  BY <1>1, SumChange
<1> QED BY <1>1, <1>2, CellsFinite

-----------------------------------------------------------------------------
(* Where the threads are.                                                  *)

(* The number of threads at some steps changes with the one that moves.    *)
LEMMA AtChange ==
  ASSUME call \in [Threads -> CallRecord], NEW t \in Threads, NEW x \in CallRecord,
         call' = [call EXCEPT ![t] = x], NEW S
  PROVE  /\ At(S) \in Nat /\ At(S)' \in Nat
         /\ At(S)' + (IF call[t].step \in S THEN 1 ELSE 0) = At(S) + (IF x.step \in S THEN 1 ELSE 0)
<1> DEFINE f == [u \in Threads |-> IF call[u].step \in S THEN 1 ELSE 0]
           g == [u \in Threads |-> IF call'[u].step \in S THEN 1 ELSE 0]
<1>1. At(S) = SumOf(f) /\ At(S)' = SumOf(g)
  BY DEF At
<1>2. /\ f \in [Threads -> Nat] /\ g \in [Threads -> Nat]
      /\ \A u \in Threads : u # t => g[u] = f[u]
      /\ f[t] = (IF call[t].step \in S THEN 1 ELSE 0) /\ g[t] = (IF x.step \in S THEN 1 ELSE 0)
  OBVIOUS
<1> HIDE DEF f, g
<1>3. SumOf(g) + f[t] = SumOf(f) + g[t] /\ SumOf(f) \in Nat /\ SumOf(g) \in Nat
  BY <1>2, SumChange, CellsFinite
<1> QED BY <1>1, <1>2, <1>3

(* Likewise of those granted a block of one kind.                          *)
LEMMA GrantedChange ==
  ASSUME call \in [Threads -> CallRecord], NEW t \in Threads, NEW x \in CallRecord,
         call' = [call EXCEPT ![t] = x], NEW k
  PROVE  /\ GrantedOf(k) \in Nat /\ GrantedOf(k)' \in Nat
         /\ GrantedOf(k)' + (IF call[t].step \in Granting /\ call[t].kind = k THEN 1 ELSE 0)
              = GrantedOf(k) + (IF x.step \in Granting /\ x.kind = k THEN 1 ELSE 0)
<1> DEFINE f == [u \in Threads |-> IF call[u].step \in Granting /\ call[u].kind = k THEN 1 ELSE 0]
           g == [u \in Threads |-> IF call'[u].step \in Granting /\ call'[u].kind = k THEN 1 ELSE 0]
<1>1. GrantedOf(k) = SumOf(f) /\ GrantedOf(k)' = SumOf(g)
  BY DEF GrantedOf
<1>2. /\ f \in [Threads -> Nat] /\ g \in [Threads -> Nat]
      /\ \A u \in Threads : u # t => g[u] = f[u]
      /\ f[t] = (IF call[t].step \in Granting /\ call[t].kind = k THEN 1 ELSE 0)
      /\ g[t] = (IF x.step \in Granting /\ x.kind = k THEN 1 ELSE 0)
  OBVIOUS
<1> HIDE DEF f, g
<1>3. SumOf(g) + f[t] = SumOf(f) + g[t] /\ SumOf(f) \in Nat /\ SumOf(g) \in Nat
  BY <1>2, SumChange, CellsFinite
<1> QED BY <1>1, <1>2, <1>3

(* What a call holds at each step.                                         *)
LEMMA CallParts ==
  ASSUME NEW r \in CallRecord
  PROVE  /\ r.step \in Granting \cup Leaving \cup {"idle", "cached", "load", "report"}
         /\ r.step \in Granting => r.kind \in Kinds /\ r.new \in BOOLEAN
         /\ r.step \in Leaving => r.size \in Nat \ {0} /\ r.sized \in BOOLEAN
         /\ r.step = "load" => r.at \in DOMAIN LoadOrder
         /\ r.step = "idle" <=> r = Idle
<1>1. CASE r = Idle
  BY <1>1 DEF Idle, Granting, Leaving
<1>2. CASE r \in [step : Granting, kind : Kinds, new : BOOLEAN]
  BY <1>2 DEF Idle, Granting, Leaving
<1>3. CASE r \in [step : Leaving, size : Nat \ {0}, sized : BOOLEAN]
  BY <1>3 DEF Idle, Granting, Leaving
<1>4. CASE r \in [step : {"cached", "report"}]
  BY <1>4 DEF Idle, Granting, Leaving
<1>5. CASE r \in [step : {"load"}, at : DOMAIN LoadOrder]
  BY <1>5 DEF Idle, Granting, Leaving
<1> QED BY <1>1, <1>2, <1>3, <1>4, <1>5 DEF CallRecord

(* And of the blocks the counters know.                                    *)
LEMMA KnownChange ==
  ASSUME TypeOK, NEW t \in Threads, NEW x \in CallRecord, call' = [call EXCEPT ![t] = x],
         list' \in [Threads -> Nat], \A u \in Threads : u # t => list'[u] = list[u]
  PROVE  LET sum == SumOf([u \in Threads |-> Known(u)])
         IN /\ sum \in Nat /\ sum' \in Nat /\ Known(t) \in Nat /\ Known(t)' \in Nat
            /\ sum' + Known(t) = sum + Known(t)'
<1> DEFINE f == [u \in Threads |-> Known(u)]
           g == [u \in Threads |-> Known(u)']
<1>1. \A u \in Threads : Known(u) \in Nat
  <2> TAKE u \in Threads
  <2>1. call[u] \in CallRecord /\ list[u] \in Nat
    BY DEF TypeOK
  <2>2. call[u].step = "flush" => call[u].size \in Nat
    BY <2>1, CallParts DEF Leaving
  <2> QED BY <2>1, <2>2 DEF Known
<1>2. call' \in [Threads -> CallRecord] /\ \A u \in Threads : u # t => call'[u] = call[u]
  BY DEF TypeOK
<1>3. \A u \in Threads : Known(u)' \in Nat
  <2> TAKE u \in Threads
  <2>1. call'[u] \in CallRecord /\ list'[u] \in Nat
    BY <1>2
  <2>2. call'[u].step = "flush" => call'[u].size \in Nat
    BY <2>1, CallParts DEF Leaving
  <2> QED BY <2>1, <2>2 DEF Known
<1>4. \A u \in Threads : u # t => Known(u)' = Known(u)
  BY <1>2 DEF Known
<1>5. /\ f \in [Threads -> Nat] /\ g \in [Threads -> Nat]
      /\ \A u \in Threads : u # t => g[u] = f[u]
      /\ f[t] = Known(t) /\ g[t] = Known(t)'
  BY <1>1, <1>3, <1>4
<1>6. SumOf([u \in Threads |-> Known(u)])' = SumOf(g)
  OBVIOUS
<1> HIDE DEF g
<1>7. SumOf(g) + f[t] = SumOf(f) + g[t] /\ SumOf(f) \in Nat /\ SumOf(g) \in Nat
  BY <1>5, SumChange, CellsFinite
<1> QED BY <1>1, <1>3, <1>5, <1>6, <1>7

Bit(b) == IF b THEN 1 ELSE 0

(* Thread t goes on to x.                                                  *)
Moved(t, x) ==
  /\ call' \in [Threads -> CallRecord] /\ call'[t] = x
  /\ At({"refill"}) \in Nat /\ At({"refill"})' \in Nat
  /\ At({"refill"})' + Bit(call[t].step = "refill") = At({"refill"}) + Bit(x.step = "refill")
  /\ At({"refill", "alloc"}) \in Nat /\ At({"refill", "alloc"})' \in Nat
  /\ At({"refill", "alloc"})' + Bit(call[t].step \in {"refill", "alloc"})
       = At({"refill", "alloc"}) + Bit(x.step \in {"refill", "alloc"})
  /\ At({"flush", "free"}) \in Nat /\ At({"flush", "free"})' \in Nat
  /\ At({"flush", "free"})' + Bit(call[t].step \in {"flush", "free"})
       = At({"flush", "free"}) + Bit(x.step \in {"flush", "free"})
  /\ At({"kind"}) \in Nat /\ At({"kind"})' \in Nat
  /\ At({"kind"})' + Bit(call[t].step = "kind") = At({"kind"}) + Bit(x.step = "kind")
  /\ At({"how"}) \in Nat /\ At({"how"})' \in Nat
  /\ At({"how"})' + Bit(call[t].step = "how") = At({"how"}) + Bit(x.step = "how")
  /\ At(Granting) \in Nat /\ At(Granting)' \in Nat
  /\ At(Granting)' + Bit(call[t].step \in Granting) = At(Granting) + Bit(x.step \in Granting)
  /\ \A k \in Kinds :
       /\ GrantedOf(k) \in Nat /\ GrantedOf(k)' \in Nat
       /\ GrantedOf(k)' + Bit(call[t].step \in Granting /\ call[t].kind = k)
            = GrantedOf(k) + Bit(x.step \in Granting /\ x.kind = k)
  /\ SumOf([u \in Threads |-> Known(u)]) \in Nat /\ SumOf([u \in Threads |-> Known(u)])' \in Nat
  /\ Known(t) \in Nat /\ Known(t)' \in Nat
  /\ SumOf([u \in Threads |-> Known(u)])' + Known(t) = SumOf([u \in Threads |-> Known(u)]) + Known(t)'

(* All that is counted by where the threads are, when one of them moves.   *)
LEMMA Moves ==
  ASSUME Counted, NEW t \in Threads, NEW x \in CallRecord, call' = [call EXCEPT ![t] = x],
         list' \in [Threads -> Nat], \A u \in Threads : u # t => list'[u] = list[u]
  PROVE  Moved(t, x)
<1>1. call \in [Threads -> CallRecord] /\ call' \in [Threads -> CallRecord] /\ call'[t] = x
  BY DEF Counted, TypeOK
<1>2. \A S : /\ At(S) \in Nat /\ At(S)' \in Nat
             /\ At(S)' + Bit(call[t].step \in S) = At(S) + Bit(x.step \in S)
  BY <1>1, AtChange, Zenon DEF Bit
<1>3. /\ At({"refill"}) \in Nat /\ At({"refill"})' \in Nat
      /\ At({"refill"})' + Bit(call[t].step \in {"refill"}) = At({"refill"}) + Bit(x.step \in {"refill"})
  BY <1>2, Zenon
<1>4. /\ At({"refill", "alloc"}) \in Nat /\ At({"refill", "alloc"})' \in Nat
      /\ At({"refill", "alloc"})' + Bit(call[t].step \in {"refill", "alloc"})
           = At({"refill", "alloc"}) + Bit(x.step \in {"refill", "alloc"})
  BY <1>2, Zenon
<1>5. /\ At({"flush", "free"}) \in Nat /\ At({"flush", "free"})' \in Nat
      /\ At({"flush", "free"})' + Bit(call[t].step \in {"flush", "free"})
           = At({"flush", "free"}) + Bit(x.step \in {"flush", "free"})
  BY <1>2, Zenon
<1>6. /\ At({"kind"}) \in Nat /\ At({"kind"})' \in Nat
      /\ At({"kind"})' + Bit(call[t].step \in {"kind"}) = At({"kind"}) + Bit(x.step \in {"kind"})
  BY <1>2, Zenon
<1>7. /\ At({"how"}) \in Nat /\ At({"how"})' \in Nat
      /\ At({"how"})' + Bit(call[t].step \in {"how"}) = At({"how"}) + Bit(x.step \in {"how"})
  BY <1>2, Zenon
<1>8. /\ At(Granting) \in Nat /\ At(Granting)' \in Nat
      /\ At(Granting)' + Bit(call[t].step \in Granting) = At(Granting) + Bit(x.step \in Granting)
  <2>1. At(Granting)' + Bit(call[t].step \in Granting) = At(Granting) + Bit(x.step \in Granting)
    BY <1>1, AtChange, Zenon DEF Bit
  <2> QED BY <1>2, <2>1, Zenon
<1>10. \A k \in Kinds :
         /\ GrantedOf(k) \in Nat /\ GrantedOf(k)' \in Nat
         /\ GrantedOf(k)' + Bit(call[t].step \in Granting /\ call[t].kind = k)
              = GrantedOf(k) + Bit(x.step \in Granting /\ x.kind = k)
  <2> TAKE k \in Kinds
  <2>1. /\ GrantedOf(k) \in Nat /\ GrantedOf(k)' \in Nat
        /\ GrantedOf(k)' + (IF call[t].step \in Granting /\ call[t].kind = k THEN 1 ELSE 0)
             = GrantedOf(k) + (IF x.step \in Granting /\ x.kind = k THEN 1 ELSE 0)
    BY <1>1, GrantedChange, ZenonT(40)
  <2> QED BY <2>1, Zenon DEF Bit
<1>11. /\ SumOf([u \in Threads |-> Known(u)]) \in Nat /\ SumOf([u \in Threads |-> Known(u)])' \in Nat
       /\ Known(t) \in Nat /\ Known(t)' \in Nat
       /\ SumOf([u \in Threads |-> Known(u)])' + Known(t) = SumOf([u \in Threads |-> Known(u)]) + Known(t)'
  BY KnownChange, Zenon DEF Counted
<1>12. Bit(call[t].step \in {"refill"}) = Bit(call[t].step = "refill") /\ Bit(x.step \in {"refill"}) = Bit(x.step = "refill")
  BY DEF Bit
<1>13. Bit(call[t].step \in {"kind"}) = Bit(call[t].step = "kind") /\ Bit(x.step \in {"kind"}) = Bit(x.step = "kind")
  BY DEF Bit
<1>14. Bit(call[t].step \in {"how"}) = Bit(call[t].step = "how") /\ Bit(x.step \in {"how"}) = Bit(x.step = "how")
  BY DEF Bit
<1> QED BY <1>1, <1>3, <1>4, <1>5, <1>6, <1>7, <1>8, <1>10, <1>11, <1>12, <1>13, <1>14, ZenonT(30) DEF Moved

(* A block more or less of one kind.                                       *)
LEMMA OneMore ==
  ASSUME NEW f \in [Kinds -> Nat], NEW k \in Kinds, NEW g, g = [f EXCEPT ![k] = f[k] + 1]
  PROVE  Total(f) \in Nat /\ Total(g) \in Nat /\ Total(g) = Total(f) + 1
BY DEF Total, Kinds

LEMMA OneLess ==
  ASSUME NEW f \in [Kinds -> Nat], NEW k \in Kinds, f[k] # 0, NEW g, g = [f EXCEPT ![k] = f[k] - 1]
  PROVE  Total(f) \in Nat /\ Total(g) \in Nat /\ Total(g) = Total(f) - 1 /\ g \in [Kinds -> Nat]
BY DEF Total, Kinds

(* The blocks given out are at least the objects and those being granted.  *)
LEMMA TakenAtLeast ==
  ASSUME Counted, NEW t \in Threads, call[t].step \in Granting
  PROVE  taken[call[t].kind] \in Nat \ {0}
<1> DEFINE k == call[t].kind
           f == [u \in Threads |-> IF call[u].step \in Granting /\ call[u].kind = k THEN 1 ELSE 0]
<1>1. k \in Kinds
  BY CallParts DEF Counted, TypeOK
<1>2. f \in [Threads -> Nat] /\ f[t] = 1 /\ GrantedOf(k) = SumOf(f)
  BY DEF GrantedOf
<1> HIDE DEF f, k
<1>3. SumOf(f) \in Nat /\ SumOf(f) >= 1
  BY <1>2, SumAtLeast, CellsFinite
<1>4. taken[k] = held[k] + GrantedOf(k) /\ held[k] \in Nat /\ taken[k] \in Nat
  BY <1>1 DEF Counted, TakenExact, TypeOK
<1>5. taken[k] \in Nat \ {0}
  BY <1>2, <1>3, <1>4
<1> QED BY <1>5 DEF k

(* What is fetched and what is accounted for change by the same.           *)
LEMMA FlowKept ==
  ASSUME FlowExact, Accounted \in Int, Fetched \in Int, Accounted' \in Int, Fetched' \in Int,
         Accounted' + Fetched = Fetched' + Accounted, alive' = alive
  PROVE  FlowExact'
<1>1. Accounted' <= Fetched' /\ (Accounted = Fetched => Accounted' = Fetched')
  BY DEF FlowExact
<1> QED BY <1>1 DEF FlowExact

-----------------------------------------------------------------------------
(* The actions and the counts.                                             *)

LEMMA CounterNames ==
  /\ Counters = {"alloc", "free", "small", "large", "sized", "unsized", "refill", "flush"}
  /\ DOMAIN LoadOrder = 1 .. 8 /\ Len(LoadOrder) = 8
  /\ LoadOrder[1] = "alloc" /\ LoadOrder[2] = "free"
  /\ \A i \in 1 .. 8 : LoadOrder[i] \in Counters
  /\ \A i, j \in 1 .. 8 : LoadOrder[i] = LoadOrder[j] => i = j
<1>1. DOMAIN LoadOrder = 1 .. 8 /\ Len(LoadOrder) = 8
  BY DEF LoadOrder
<1>2. /\ LoadOrder[1] = "alloc" /\ LoadOrder[2] = "free" /\ LoadOrder[3] = "small"
      /\ LoadOrder[4] = "large" /\ LoadOrder[5] = "sized" /\ LoadOrder[6] = "unsized"
      /\ LoadOrder[7] = "refill" /\ LoadOrder[8] = "flush"
  BY DEF LoadOrder
<1>3. 1 .. 8 = {1, 2, 3, 4, 5, 6, 7, 8}
  OBVIOUS
<1>4. Counters = {LoadOrder[i] : i \in {1, 2, 3, 4, 5, 6, 7, 8}}
  BY <1>1, <1>3 DEF Counters
<1>5. Counters = {"alloc", "free", "small", "large", "sized", "unsized", "refill", "flush"}
  BY <1>2, <1>4
<1> QED BY <1>1, <1>2, <1>3, <1>5

LEMMA KeepBounds ==
  ASSUME NEW n \in Nat \ {0}
  PROVE  Keep(n) \in Nat \ {0} /\ Keep(n) <= n
<1>1. n \div 2 \in Nat /\ n \div 2 <= n
  OBVIOUS
<1> QED BY <1>1 DEF Keep, Larger

(* allocate takes a block that no counter knows of yet.                    *)
LEMMA AllocateCounts ==
  ASSUME Counted, NEW t \in Threads, NEW k \in Kinds, NEW new \in BOOLEAN, allocate(t, k, new)
  PROVE  Counted'
<1> DEFINE refilled == k = "small" /\ list[t] = 0
           x == [step |-> IF refilled THEN "refill" ELSE "alloc", kind |-> k, new |-> new]
<1>1. /\ call[t] = Idle /\ alive[t] = "running" /\ call' = [call EXCEPT ![t] = x]
      /\ taken' = [taken EXCEPT ![k] = taken[k] + 1]
      /\ list' = (IF k = "small"
                  THEN [list EXCEPT ![t] = IF list[t] > 0 THEN list[t] - 1 ELSE Batch - 1] ELSE list)
      /\ pages' = (IF k = "small" THEN pages ELSE PagesTaken)
      /\ UNCHANGED <<count, view, held, alive, out, calls>>
  <2>1. x = [step |-> IF k = "small" /\ list[t] = 0 THEN "refill" ELSE FirstRecord(new),
             kind |-> k, new |-> new]
    BY DEF FirstRecord
  <2> QED BY <2>1 DEF allocate, Goto
<1>2. /\ x \in CallRecord /\ x.kind = k /\ call[t].step = "idle"
      /\ x.step = (IF refilled THEN "refill" ELSE "alloc")
  BY <1>1 DEF CallRecord, Granting, Idle
<1>3. TypeOK /\ list' \in [Threads -> Nat] /\ \A u \in Threads : u # t => list'[u] = list[u]
  BY <1>1, StatsAssumption DEF Counted, TypeOK, StatsAssumption
<1> HIDE DEF x
<1>4. /\ call' \in [Threads -> CallRecord] /\ call'[t] = x
      /\ At({"refill"}) \in Nat /\ At({"refill"})' = At({"refill"}) + Bit(refilled)
      /\ At({"refill", "alloc"}) \in Nat /\ At({"refill", "alloc"})' = At({"refill", "alloc"}) + 1
      /\ At({"flush", "free"}) \in Nat /\ At({"flush", "free"})' = At({"flush", "free"})
      /\ At({"kind"})' = At({"kind"}) /\ At({"how"})' = At({"how"})
      /\ At(Granting) \in Nat /\ At(Granting)' = At(Granting) + 1
      /\ \A j \in Kinds : GrantedOf(j) \in Nat /\ GrantedOf(j)' = GrantedOf(j) + Bit(j = k)
      /\ SumOf([u \in Threads |-> Known(u)]) \in Nat /\ SumOf([u \in Threads |-> Known(u)])' \in Nat
      /\ SumOf([u \in Threads |-> Known(u)])' + Known(t) = SumOf([u \in Threads |-> Known(u)]) + Known(t)'
  <2>1. Moved(t, x)
    BY <1>1, <1>2, <1>3, Moves
  <2>2. /\ call[t].step \notin {"refill", "alloc", "flush", "free", "kind", "how"} /\ call[t].step \notin Granting
        /\ x.step \in {"refill", "alloc"} /\ x.step \in Granting /\ (x.step = "refill" <=> refilled)
    BY <1>2 DEF Granting
  <2> QED BY <1>2, <2>1, <2>2 DEF Moved, Bit
<1>5. Total(taken') = Total(taken) + 1 /\ Total(taken) \in Nat
  BY <1>1, <1>3, OneMore DEF TypeOK
<1>6. TypeOK'
  BY <1>1, <1>3, <1>4 DEF TypeOK, PagesTaken
<1>7. TakenExact'
  <2>1. ASSUME NEW j \in Kinds PROVE taken'[j] = held'[j] + GrantedOf(j)'
    BY <1>1, <1>3, <1>4 DEF Counted, TakenExact, TypeOK, Bit
  <2>2. Total(taken)' = Total(held)' + At(Granting)'
    <3>1. Total(held) \in Nat /\ Total(held)' = Total(held) /\ Total(taken)' = Total(taken')
      BY <1>1, <1>3 DEF TypeOK, Total, Kinds
    <3> QED BY <1>4, <1>5, <3>1 DEF Counted, TakenExact
  <2> QED BY <2>1, <2>2 DEF TakenExact
<1>8. PagesExact'
  <2>1. PagesExact /\ pages \in [reserved : Nat, cached : Nat] /\ taken \in [Kinds -> Nat]
    BY <1>3 DEF Counted, TypeOK
  <2>2. CASE k = "small"
    BY <1>1, <2>1, <2>2 DEF PagesExact, Kinds
  <2>3. CASE k # "small" /\ pages.cached > 0
    BY <1>1, <2>1, <2>3 DEF PagesExact, Kinds, PagesTaken
  <2>4. CASE k # "small" /\ ~ (pages.cached > 0)
    BY <1>1, <2>1, <2>4 DEF PagesExact, Kinds, PagesTaken
  <2> QED BY <2>2, <2>3, <2>4
<1>9. CountsExact'
  <2>1. count' = count /\ Total(taken)' = Total(taken')
    BY <1>1 DEF Total
  <2>2. count["alloc"] \in Nat /\ count["free"] \in Nat
    BY <1>3, CounterNames DEF TypeOK
  <2> QED BY <1>4, <1>5, <2>1, <2>2 DEF Counted, CountsExact
<1>10. CallsExact'
  BY <1>1, <1>2, <1>3, <1>4 DEF Counted, CallsExact, TypeOK
<1>11. FlowExact'
  <2>1. Known(t) = list[t] /\ Known(t)' = IF refilled THEN 0 ELSE list'[t]
    BY <1>2, <1>4 DEF Known
  <2>2. /\ count' = count /\ count["refill"] \in Nat /\ count["flush"] \in Nat
        /\ taken["small"] \in Nat /\ list[t] \in Nat
        /\ taken'["small"] = taken["small"] + Bit(k = "small")
        /\ list'[t] = (IF k # "small" THEN list[t] ELSE IF list[t] > 0 THEN list[t] - 1 ELSE Batch - 1)
    BY <1>1, <1>3, CounterNames DEF TypeOK, Kinds, Bit
  <2>3. SumOf([u \in Threads |-> Known(u)])' + Bit(k = "small") = SumOf([u \in Threads |-> Known(u)]) + Bit(refilled)
    BY <1>4, <2>1, <2>2 DEF Bit
  <2>4. Bit(k = "small") \in Nat /\ Bit(refilled) \in Nat
    BY DEF Bit
  <2>5. /\ Accounted \in Int /\ Fetched \in Int /\ Accounted' \in Int /\ Fetched' \in Int
        /\ Accounted' + Fetched = Fetched' + Accounted
    BY <1>4, <2>2, <2>3, <2>4 DEF Accounted, Fetched
  <2> QED BY <1>1, <2>5, FlowKept DEF Counted
<1> QED BY <1>6, <1>7, <1>8, <1>9, <1>10, <1>11 DEF Counted

(* A call goes on to another step of its kind.                             *)
LEMMA Advance ==
  ASSUME NEW r \in CallRecord, NEW s, NEW x, x = [r EXCEPT !.step = s],
         \/ r.step \in Granting /\ s \in Granting
         \/ r.step \in Leaving /\ s \in Leaving
  PROVE  /\ x \in CallRecord /\ x.step = s
         /\ r.step \in Granting => x.kind = r.kind /\ x.new = r.new
         /\ r.step \in Leaving => x.size = r.size /\ x.sized = r.sized
<1>1. CASE r.step \in Granting /\ s \in Granting
  <2>1. r \in [step : Granting, kind : Kinds, new : BOOLEAN]
    BY <1>1 DEF CallRecord, Granting, Leaving, Idle
  <2>2. x \in [step : Granting, kind : Kinds, new : BOOLEAN] /\ x.step = s /\ x.kind = r.kind /\ x.new = r.new
    BY <1>1, <2>1
  <2>3. r.step \notin Leaving
    BY <1>1 DEF Granting, Leaving
  <2> QED BY <2>2, <2>3 DEF CallRecord
<1>2. CASE r.step \in Leaving /\ s \in Leaving
  <2>1. r \in [step : Leaving, size : Nat \ {0}, sized : BOOLEAN]
    BY <1>2 DEF CallRecord, Granting, Leaving, Idle
  <2>2. x \in [step : Leaving, size : Nat \ {0}, sized : BOOLEAN] /\ x.step = s /\ x.size = r.size /\ x.sized = r.sized
    BY <1>2, <2>1
  <2>3. r.step \notin Granting
    BY <1>2 DEF Granting, Leaving
  <2> QED BY <2>2, <2>3 DEF CallRecord
<1> QED BY <1>1, <1>2

(* An addition to a counter and nothing else.                              *)
Records(t, x, c, n) ==
  /\ call' = [call EXCEPT ![t] = x] /\ FetchAdd(t, c, n)
  /\ UNCHANGED <<list, pages, taken, held, alive, out, calls>>
  /\ x.step \in Granting <=> call[t].step \in Granting
  /\ x.step \in Granting => x.kind = call[t].kind
  /\ x.step # "refill" /\ x.step # "flush"

LEMMA RecordCounts ==
  ASSUME Counted, NEW t \in Threads, NEW x \in CallRecord, NEW c \in Counters, NEW n \in Nat,
         Records(t, x, c, n)
  PROVE  /\ TypeOK' /\ TakenExact' /\ PagesExact' /\ CallsExact' /\ Moved(t, x)
         /\ count' = [count EXCEPT ![c] = count[c] + n] /\ count[c] + n \in Nat
         /\ alive' = alive /\ taken' = taken /\ list' = list /\ held' = held
<1>1. /\ count' = [count EXCEPT ![c] = count[c] + n]
      /\ view' = [view EXCEPT ![t][c] = count[c] + n]
      /\ list' = list /\ pages' = pages /\ taken' = taken /\ held' = held /\ alive' = alive
      /\ out' = out /\ calls' = calls
      /\ call' = [call EXCEPT ![t] = x]
      /\ x.step \in Granting <=> call[t].step \in Granting
      /\ x.step \in Granting => x.kind = call[t].kind
      /\ x.step # "refill" /\ x.step # "flush"
  BY DEF FetchAdd, Records
<1>2. TypeOK /\ list' \in [Threads -> Nat] /\ \A u \in Threads : u # t => list'[u] = list[u]
  BY <1>1 DEF Counted, TypeOK
<1>3. Moved(t, x)
  BY <1>1, <1>2, Moves
<1>4. call' \in [Threads -> CallRecord] /\ call'[t] = x /\ count[c] + n \in Nat
  BY <1>2, <1>3 DEF Moved, TypeOK
<1>5. TypeOK'
  <2>1. count' \in [Counters -> Nat] /\ view' \in [Threads -> [Counters -> Nat]]
    BY <1>1, <1>2, <1>4 DEF TypeOK
  <2> QED BY <1>1, <1>2, <1>4, <2>1 DEF TypeOK
<1>6. TakenExact'
  <2>1. At(Granting)' = At(Granting)
    BY <1>1, <1>3 DEF Moved, Bit
  <2>2. ASSUME NEW k \in Kinds PROVE GrantedOf(k)' = GrantedOf(k)
    <3>1. /\ GrantedOf(k) \in Nat /\ GrantedOf(k)' \in Nat
          /\ GrantedOf(k)' + Bit(call[t].step \in Granting /\ call[t].kind = k)
               = GrantedOf(k) + Bit(x.step \in Granting /\ x.kind = k)
      BY <1>3 DEF Moved
    <3>2. Bit(call[t].step \in Granting /\ call[t].kind = k) = Bit(x.step \in Granting /\ x.kind = k)
      BY <1>1 DEF Bit
    <3>3. Bit(x.step \in Granting /\ x.kind = k) \in Nat
      BY DEF Bit
    <3> QED BY <3>1, <3>2, <3>3
  <2>3. Total(taken)' = Total(taken) /\ Total(held)' = Total(held)
    BY <1>1 DEF Total
  <2> QED BY <1>1, <2>1, <2>2, <2>3 DEF Counted, TakenExact
<1>7. PagesExact'
  BY <1>1 DEF Counted, PagesExact
<1>8. CallsExact'
  BY <1>1, <1>2, <1>4 DEF Counted, CallsExact, TypeOK
<1> QED BY <1>1, <1>3, <1>4, <1>5, <1>6, <1>7, <1>8

(* A refill is counted once the list has it.                               *)
LEMMA RefillCounts ==
  ASSUME Counted, NEW t \in Threads, recordCentralRefill(t)
  PROVE  Counted'
<1> DEFINE x == [call[t] EXCEPT !.step = "alloc"]
<1>1. /\ call[t].step = "refill" /\ FetchAdd(t, "refill", Batch) /\ call' = [call EXCEPT ![t] = x]
      /\ UNCHANGED <<list, pages, taken, held, alive, out, calls>>
  BY DEF recordCentralRefill, RefillCount, FirstRecord, Goto
<1>2. x \in CallRecord /\ x.step = "alloc" /\ x.kind = call[t].kind
  <2>1. call[t] \in CallRecord /\ call[t].step \in Granting /\ "alloc" \in Granting
    BY <1>1 DEF Counted, TypeOK, Granting
  <2> QED BY <2>1, Advance
<1> HIDE DEF x
<1>3. /\ TypeOK' /\ TakenExact' /\ PagesExact' /\ CallsExact' /\ Moved(t, x)
      /\ count' = [count EXCEPT !["refill"] = count["refill"] + Batch]
      /\ alive' = alive /\ taken' = taken /\ list' = list
  <2>1. "refill" \in Counters /\ Batch \in Nat
    BY CounterNames, StatsAssumption DEF StatsAssumption
  <2>2. Records(t, x, "refill", Batch)
    BY <1>1, <1>2 DEF Records, Granting
  <2> QED BY <1>2, <2>1, <2>2, RecordCounts
<1>4. /\ At({"refill"}) \in Nat /\ At({"refill"})' \in Nat /\ At({"refill"})' + 1 = At({"refill"})
      /\ At({"refill", "alloc"})' = At({"refill", "alloc"})
      /\ At({"flush", "free"})' = At({"flush", "free"})
      /\ At({"kind"})' = At({"kind"}) /\ At({"how"})' = At({"how"})
  BY <1>1, <1>2, <1>3 DEF Moved, Bit
<1>5. CountsExact'
  <2>1. \A c \in {"alloc", "free", "small", "large", "sized", "unsized"} : count'[c] = count[c]
    BY <1>3, CounterNames DEF Counted, TypeOK
  <2>2. Total(taken)' = Total(taken)
    BY <1>3 DEF Total
  <2> QED BY <1>4, <2>1, <2>2 DEF Counted, CountsExact
<1>6. FlowExact'
  <2>1. Known(t) = 0 /\ Known(t)' = Batch - 1
    BY <1>1, <1>2, <1>3 DEF Known, Moved, Counted, CallsExact
  <2>2. /\ count["refill"] \in Nat /\ count["flush"] \in Nat /\ taken["small"] \in Nat
        /\ count'["flush"] = count["flush"] /\ count'["refill"] = count["refill"] + Batch
    BY <1>3, CounterNames DEF Counted, TypeOK, Kinds
  <2>3. /\ SumOf([u \in Threads |-> Known(u)]) \in Nat /\ SumOf([u \in Threads |-> Known(u)])' \in Nat
        /\ SumOf([u \in Threads |-> Known(u)])' = SumOf([u \in Threads |-> Known(u)]) + Batch - 1
    BY <1>3, <2>1, StatsAssumption DEF Moved, StatsAssumption
  <2>4. /\ Accounted \in Int /\ Fetched \in Int /\ Accounted' \in Int /\ Fetched' \in Int
        /\ Accounted' + Fetched = Fetched' + Accounted
    <3>1. /\ Accounted' = count["flush"] + taken["small"] + SumOf([u \in Threads |-> Known(u)])'
          /\ Fetched' = count["refill"] + Batch + At({"refill"})'
      BY <1>3, <2>2 DEF Accounted, Fetched
    <3>2. Batch \in Nat
      BY StatsAssumption DEF StatsAssumption
    <3> QED BY <1>4, <2>2, <2>3, <3>1, <3>2 DEF Accounted, Fetched
  <2> QED BY <1>3, <2>4, FlowKept DEF Counted
<1> QED BY <1>3, <1>5, <1>6 DEF Counted

(* The flow is untouched by what neither lists nor refills.                *)
LEMMA FlowAside ==
  ASSUME Counted, NEW t \in Threads, NEW x, Moved(t, x),
         taken' = taken, alive' = alive, Known(t)' = Known(t),
         count'["refill"] = count["refill"], count'["flush"] = count["flush"],
         call[t].step # "refill", x.step # "refill"
  PROVE  FlowExact'
<1>1. At({"refill"}) \in Nat /\ At({"refill"})' = At({"refill"})
  BY DEF Moved, Bit
<1>2. /\ SumOf([u \in Threads |-> Known(u)]) \in Nat
      /\ SumOf([u \in Threads |-> Known(u)])' = SumOf([u \in Threads |-> Known(u)])
  BY DEF Moved
<1>3. count["refill"] \in Nat /\ count["flush"] \in Nat /\ taken["small"] \in Nat
  BY CounterNames DEF Counted, TypeOK, Kinds
<1>4. Accounted' = Accounted /\ Fetched' = Fetched
  BY <1>1, <1>2 DEF Accounted, Fetched
<1>5. Accounted \in Int /\ Fetched \in Int
  BY <1>1, <1>2, <1>3 DEF Accounted, Fetched
<1> QED BY <1>4, <1>5, FlowKept DEF Counted

(* An allocation is counted before its kind.                               *)
LEMMA AllocationCounts ==
  ASSUME Counted, NEW t \in Threads, recordAllocation(t)
  PROVE  Counted'
<1> DEFINE r == call[t]
<1>0. TypeOK /\ r \in CallRecord
  BY DEF Counted, TypeOK
<1>1. CASE r.step = "alloc"
  <2> DEFINE x == [r EXCEPT !.step = "kind"]
  <2>1. /\ call' = [call EXCEPT ![t] = x] /\ FetchAdd(t, "alloc", 1)
        /\ UNCHANGED <<list, pages, taken, held, alive, out, calls>>
    BY <1>1 DEF recordAllocation, Goto
  <2>2. x \in CallRecord /\ x.step = "kind" /\ x.kind = r.kind
    <3>1. r.step \in Granting /\ "kind" \in Granting
      BY <1>1 DEF Granting
    <3> QED BY <1>0, <3>1, Advance
  <2> HIDE DEF x
  <2>3. /\ TypeOK' /\ TakenExact' /\ PagesExact' /\ CallsExact' /\ Moved(t, x)
        /\ count' = [count EXCEPT !["alloc"] = count["alloc"] + 1]
        /\ alive' = alive /\ taken' = taken /\ list' = list
    <3>1. "alloc" \in Counters /\ 1 \in Nat
      BY CounterNames
    <3>2. Records(t, x, "alloc", 1)
      BY <1>1, <2>1, <2>2 DEF Records, Granting
    <3> QED BY <2>2, <3>1, <3>2, RecordCounts
  <2>4. /\ At({"refill", "alloc"}) \in Nat /\ At({"refill", "alloc"})' + 1 = At({"refill", "alloc"})
        /\ At({"refill", "alloc"})' \in Nat /\ At({"flush", "free"})' = At({"flush", "free"})
        /\ At({"kind"}) \in Nat /\ At({"kind"})' = At({"kind"}) + 1 /\ At({"how"})' = At({"how"})
    BY <1>1, <2>2, <2>3 DEF Moved, Bit
  <2>5. /\ \A c \in Counters \ {"alloc"} : count'[c] = count[c]
        /\ count'["alloc"] = count["alloc"] + 1
        /\ \A c \in Counters : count[c] \in Nat
    BY <1>0, <2>3, CounterNames DEF TypeOK
  <2>6. CountsExact'
    <3>1. Total(taken)' = Total(taken)
      BY <2>3 DEF Total
    <3>2. /\ count'["small"] = count["small"] /\ count'["large"] = count["large"]
          /\ count'["free"] = count["free"] /\ count["alloc"] \in Nat
          /\ count'["sized"] = count["sized"] /\ count'["unsized"] = count["unsized"]
          /\ count["small"] \in Nat /\ count["large"] \in Nat
      BY <2>5, CounterNames
    <3> QED BY <2>4, <2>5, <3>1, <3>2 DEF Counted, CountsExact
  <2>7. FlowExact'
    <3>1. Known(t)' = Known(t)
      BY <1>1, <2>2, <2>3 DEF Known, Moved
    <3> QED BY <1>1, <2>2, <2>3, <2>5, <3>1, FlowAside, CounterNames
  <2> QED BY <2>3, <2>6, <2>7 DEF Counted
<1>2. CASE r.step = "kind"
  <2> DEFINE x == [r EXCEPT !.step = "return"]
             c == AllocCounter(r.kind)
  <2>0. c \in {"small", "large"}
    BY DEF AllocCounter
  <2>1. /\ call' = [call EXCEPT ![t] = x] /\ FetchAdd(t, c, 1)
        /\ UNCHANGED <<list, pages, taken, held, alive, out, calls>>
    BY <1>2 DEF recordAllocation, Goto
  <2>2. x \in CallRecord /\ x.step = "return" /\ x.kind = r.kind
    <3>1. r.step \in Granting /\ "return" \in Granting
      BY <1>2 DEF Granting
    <3> QED BY <1>0, <3>1, Advance
  <2> HIDE DEF x, c
  <2>3. /\ TypeOK' /\ TakenExact' /\ PagesExact' /\ CallsExact' /\ Moved(t, x)
        /\ count' = [count EXCEPT ![c] = count[c] + 1]
        /\ alive' = alive /\ taken' = taken /\ list' = list
    <3>1. c \in Counters /\ 1 \in Nat
      BY <2>0, CounterNames
    <3>2. Records(t, x, c, 1)
      BY <1>2, <2>1, <2>2 DEF Records, Granting
    <3> QED BY <2>2, <3>1, <3>2, RecordCounts
  <2>4. /\ At({"refill", "alloc"})' = At({"refill", "alloc"}) /\ At({"refill", "alloc"}) \in Nat
        /\ At({"flush", "free"})' = At({"flush", "free"})
        /\ At({"kind"}) \in Nat /\ At({"kind"})' \in Nat /\ At({"kind"})' + 1 = At({"kind"})
        /\ At({"how"})' = At({"how"})
    BY <1>2, <2>2, <2>3 DEF Moved, Bit
  <2>5. /\ \A d \in Counters \ {c} : count'[d] = count[d]
        /\ count'[c] = count[c] + 1
        /\ \A d \in Counters : count[d] \in Nat
    BY <1>0, <2>0, <2>3, CounterNames DEF TypeOK
  <2>6. CountsExact'
    <3>1. Total(taken)' = Total(taken)
      BY <2>3 DEF Total
    <3>2. count'["small"] + count'["large"] = count["small"] + count["large"] + 1
      BY <2>0, <2>5, CounterNames
    <3>3. /\ count["small"] \in Nat /\ count["large"] \in Nat
          /\ count'["alloc"] = count["alloc"] /\ count'["free"] = count["free"]
          /\ count'["sized"] = count["sized"] /\ count'["unsized"] = count["unsized"]
      BY <2>0, <2>5, CounterNames
    <3> QED BY <2>4, <3>1, <3>2, <3>3 DEF Counted, CountsExact
  <2>7. FlowExact'
    <3>1. Known(t)' = Known(t)
      BY <1>2, <2>2, <2>3 DEF Known, Moved
    <3> QED BY <1>2, <2>0, <2>2, <2>3, <2>5, <3>1, FlowAside, CounterNames
  <2> QED BY <2>3, <2>6, <2>7 DEF Counted
<1> QED BY <1>1, <1>2 DEF recordAllocation

(* A flush is counted once the list is without it.                         *)
LEMMA FlushCounts ==
  ASSUME Counted, NEW t \in Threads, recordCentralFlush(t)
  PROVE  Counted'
<1> DEFINE r == call[t]
           x == [r EXCEPT !.step = "free"]
           n == FlushCount(r.size)
<1>0. TypeOK /\ r \in CallRecord
  BY DEF Counted, TypeOK
<1>1. /\ r.step = "flush" /\ call' = [call EXCEPT ![t] = x] /\ FetchAdd(t, "flush", n)
      /\ UNCHANGED <<list, pages, taken, held, alive, out, calls>>
  BY DEF recordCentralFlush, Goto
<1>2. x \in CallRecord /\ x.step = "free"
  <2>1. r.step \in Leaving /\ "free" \in Leaving
    BY <1>1 DEF Leaving
  <2> QED BY <1>0, <2>1, Advance
<1>3. r.size \in Nat /\ Keep(r.size) \in Nat /\ Keep(r.size) <= r.size /\ n = r.size - Keep(r.size) /\ n \in Nat
  <2>1. r.size \in Nat \ {0}
    BY <1>0, <1>1, CallParts DEF Leaving
  <2>2. Keep(r.size) \in Nat /\ Keep(r.size) <= r.size
    BY <2>1, KeepBounds
  <2> QED BY <2>1, <2>2 DEF FlushCount
<1>4. list[t] = Keep(r.size)
  BY <1>1 DEF Counted, CallsExact
<1> HIDE DEF x, n
<1>5. /\ TypeOK' /\ TakenExact' /\ PagesExact' /\ CallsExact' /\ Moved(t, x)
      /\ count' = [count EXCEPT !["flush"] = count["flush"] + n]
      /\ alive' = alive /\ taken' = taken /\ list' = list
  <2>1. "flush" \in Counters
    BY CounterNames
  <2>2. Records(t, x, "flush", n)
    BY <1>1, <1>2 DEF Records, Granting
  <2> QED BY <1>2, <1>3, <2>1, <2>2, RecordCounts
<1>6. /\ At({"refill"}) \in Nat /\ At({"refill"})' = At({"refill"})
      /\ At({"refill", "alloc"})' = At({"refill", "alloc"})
      /\ At({"flush", "free"})' = At({"flush", "free"})
      /\ At({"kind"})' = At({"kind"}) /\ At({"how"})' = At({"how"})
  BY <1>1, <1>2, <1>5 DEF Moved, Bit
<1>7. /\ \A c \in Counters \ {"flush"} : count'[c] = count[c]
      /\ count'["flush"] = count["flush"] + n
      /\ \A c \in Counters : count[c] \in Nat
  BY <1>0, <1>5, CounterNames DEF TypeOK
<1>8. CountsExact'
  <2>1. \A c \in {"alloc", "free", "small", "large", "sized", "unsized"} : count'[c] = count[c]
    BY <1>7, CounterNames
  <2>2. Total(taken)' = Total(taken)
    BY <1>5 DEF Total
  <2> QED BY <1>6, <2>1, <2>2 DEF Counted, CountsExact
<1>9. FlowExact'
  <2>1. Known(t) = r.size /\ Known(t)' = Keep(r.size)
    BY <1>1, <1>2, <1>4, <1>5 DEF Known, Moved
  <2>2. /\ count["refill"] \in Nat /\ count["flush"] \in Nat /\ taken["small"] \in Nat
        /\ count'["refill"] = count["refill"]
    BY <1>0, <1>7, CounterNames DEF TypeOK, Kinds
  <2>3. /\ SumOf([u \in Threads |-> Known(u)]) \in Nat /\ SumOf([u \in Threads |-> Known(u)])' \in Nat
        /\ SumOf([u \in Threads |-> Known(u)])' + n = SumOf([u \in Threads |-> Known(u)])
    BY <1>3, <1>5, <2>1 DEF Moved
  <2>4. /\ Accounted' = count["flush"] + n + taken["small"] + SumOf([u \in Threads |-> Known(u)])'
        /\ Fetched' = count["refill"] + At({"refill"})
    BY <1>5, <1>6, <1>7, <2>2 DEF Accounted, Fetched
  <2>5. /\ Accounted \in Int /\ Fetched \in Int /\ Accounted' \in Int /\ Fetched' \in Int
        /\ Accounted' + Fetched = Fetched' + Accounted
    BY <1>3, <1>6, <2>2, <2>3, <2>4 DEF Accounted, Fetched
  <2> QED BY <1>5, <2>5, FlowKept DEF Counted
<1> QED BY <1>5, <1>8, <1>9 DEF Counted

(* A free is counted before the way it was called.                         *)
LEMMA FreeCounts ==
  ASSUME Counted, NEW t \in Threads, recordFree(t)
  PROVE  Counted'
<1> DEFINE r == call[t]
<1>0. TypeOK /\ r \in CallRecord
  BY DEF Counted, TypeOK
<1>1. CASE r.step = "free"
  <2> DEFINE x == [r EXCEPT !.step = "how"]
  <2>1. /\ call' = [call EXCEPT ![t] = x] /\ FetchAdd(t, "free", 1)
        /\ UNCHANGED <<list, pages, taken, held, alive, out, calls>>
    BY <1>1 DEF recordFree, Goto
  <2>2. x \in CallRecord /\ x.step = "how"
    <3>1. r.step \in Leaving /\ "how" \in Leaving
      BY <1>1 DEF Leaving
    <3> QED BY <1>0, <3>1, Advance
  <2> HIDE DEF x
  <2>3. /\ TypeOK' /\ TakenExact' /\ PagesExact' /\ CallsExact' /\ Moved(t, x)
        /\ count' = [count EXCEPT !["free"] = count["free"] + 1]
        /\ alive' = alive /\ taken' = taken /\ list' = list
    <3>1. "free" \in Counters /\ 1 \in Nat
      BY CounterNames
    <3>2. Records(t, x, "free", 1)
      BY <1>1, <2>1, <2>2 DEF Records, Granting
    <3> QED BY <2>2, <3>1, <3>2, RecordCounts
  <2>4. /\ At({"refill", "alloc"})' = At({"refill", "alloc"}) /\ At({"refill", "alloc"}) \in Nat
        /\ At({"flush", "free"}) \in Nat /\ At({"flush", "free"})' \in Nat
        /\ At({"flush", "free"})' + 1 = At({"flush", "free"})
        /\ At({"kind"})' = At({"kind"}) /\ At({"how"}) \in Nat /\ At({"how"})' = At({"how"}) + 1
    BY <1>1, <2>2, <2>3 DEF Moved, Bit
  <2>5. /\ \A c \in Counters \ {"free"} : count'[c] = count[c]
        /\ count'["free"] = count["free"] + 1
        /\ \A c \in Counters : count[c] \in Nat
    BY <1>0, <2>3, CounterNames DEF TypeOK
  <2>6. CountsExact'
    <3>1. Total(taken)' = Total(taken) /\ Total(taken) \in Nat
      BY <1>0, <2>3 DEF Total, TypeOK, Kinds
    <3>2. /\ count'["small"] = count["small"] /\ count'["large"] = count["large"]
          /\ count'["alloc"] = count["alloc"] /\ count["free"] \in Nat /\ count["alloc"] \in Nat
          /\ count'["sized"] = count["sized"] /\ count'["unsized"] = count["unsized"]
          /\ count["sized"] \in Nat /\ count["unsized"] \in Nat
      BY <2>5, CounterNames
    <3> QED BY <2>4, <2>5, <3>1, <3>2 DEF Counted, CountsExact
  <2>7. FlowExact'
    <3>1. Known(t)' = Known(t)
      BY <1>1, <2>2, <2>3 DEF Known, Moved
    <3> QED BY <1>1, <2>2, <2>3, <2>5, <3>1, FlowAside, CounterNames
  <2> QED BY <2>3, <2>6, <2>7 DEF Counted
<1>2. CASE r.step = "how"
  <2> DEFINE c == IF r.sized THEN "sized" ELSE "unsized"
  <2>0. c \in {"sized", "unsized"}
    OBVIOUS
  <2>1. /\ call' = [call EXCEPT ![t] = Idle] /\ FetchAdd(t, c, 1)
        /\ UNCHANGED <<list, pages, taken, held, alive, out, calls>>
    BY <1>2 DEF recordFree, Goto
  <2>2. Idle \in CallRecord /\ Idle.step = "idle"
    BY DEF CallRecord, Idle
  <2> HIDE DEF c
  <2>3. /\ TypeOK' /\ TakenExact' /\ PagesExact' /\ CallsExact' /\ Moved(t, Idle)
        /\ count' = [count EXCEPT ![c] = count[c] + 1]
        /\ alive' = alive /\ taken' = taken /\ list' = list
    <3>1. c \in Counters /\ 1 \in Nat
      BY <2>0, CounterNames
    <3>2. Records(t, Idle, c, 1)
      BY <1>2, <2>1, <2>2 DEF Records, Granting
    <3> QED BY <2>2, <3>1, <3>2, RecordCounts
  <2>4. /\ At({"refill", "alloc"})' = At({"refill", "alloc"})
        /\ At({"flush", "free"})' = At({"flush", "free"})
        /\ At({"kind"})' = At({"kind"})
        /\ At({"how"}) \in Nat /\ At({"how"})' \in Nat /\ At({"how"})' + 1 = At({"how"})
    BY <1>2, <2>2, <2>3 DEF Moved, Bit
  <2>5. /\ \A d \in Counters \ {c} : count'[d] = count[d]
        /\ count'[c] = count[c] + 1
        /\ \A d \in Counters : count[d] \in Nat
    BY <1>0, <2>0, <2>3, CounterNames DEF TypeOK
  <2>6. CountsExact'
    <3>1. Total(taken)' = Total(taken)
      BY <2>3 DEF Total
    <3>2. count'["sized"] + count'["unsized"] = count["sized"] + count["unsized"] + 1
      BY <2>0, <2>5, CounterNames
    <3>3. /\ count["sized"] \in Nat /\ count["unsized"] \in Nat
          /\ count'["alloc"] = count["alloc"] /\ count'["free"] = count["free"]
          /\ count'["small"] = count["small"] /\ count'["large"] = count["large"]
      BY <2>0, <2>5, CounterNames
    <3> QED BY <2>4, <3>1, <3>2, <3>3 DEF Counted, CountsExact
  <2>7. FlowExact'
    <3>1. Known(t)' = Known(t)
      BY <1>2, <2>2, <2>3 DEF Known, Moved
    <3> QED BY <1>2, <2>0, <2>2, <2>3, <2>5, <3>1, FlowAside, CounterNames
  <2> QED BY <2>3, <2>6, <2>7 DEF Counted
<1> QED BY <1>1, <1>2 DEF recordFree

(* A block goes to the list or its page to the cache, an object freed or   *)
(* one whose constructor threw.                                            *)
LEMMA GiveCounts ==
  ASSUME Counted, NEW t \in Threads, NEW k \in Kinds, NEW sized \in BOOLEAN, GiveTo(t, k, sized),
         taken[k] # 0, UNCHANGED <<count, view, alive, out, calls>>,
         \/ call[t].step = "idle" /\ held[k] # 0 /\ held' = [held EXCEPT ![k] = held[k] - 1]
         \/ call[t].step = "return" /\ call[t].kind = k /\ held' = held
  PROVE  Counted'
<1> DEFINE n == list[t] + 1
           halve == k = "small" /\ n > MaxList /\ Keep(n) < n
           x == [step |-> IF halve THEN "flush" ELSE "free", size |-> n, sized |-> sized]
<1>0. TypeOK /\ list[t] \in Nat /\ n \in Nat \ {0} /\ Keep(n) \in Nat /\ Keep(n) <= n
  BY KeepBounds DEF Counted, TypeOK
<1>1. /\ taken' = [taken EXCEPT ![k] = taken[k] - 1]
      /\ list' = (IF k # "small" THEN list ELSE [list EXCEPT ![t] = IF halve THEN Keep(n) ELSE n])
      /\ call' = [call EXCEPT ![t] = x]
      /\ pages' = (IF k = "small" THEN pages ELSE PagesReturned)
      /\ count' = count /\ view' = view /\ alive' = alive /\ out' = out /\ calls' = calls
  BY DEF GiveTo, Goto
<1>2. /\ x \in CallRecord /\ x.step = (IF halve THEN "flush" ELSE "free") /\ x.size = n
      /\ x.step \in {"flush", "free"}
  BY <1>0 DEF CallRecord, Leaving
<1> HIDE DEF x
<1>3. list' \in [Threads -> Nat] /\ \A u \in Threads : u # t => list'[u] = list[u]
  BY <1>0, <1>1 DEF TypeOK
<1>4. Moved(t, x)
  BY <1>1, <1>2, <1>3, Moves
<1>5. /\ call' \in [Threads -> CallRecord] /\ call'[t] = x
      /\ At({"refill"}) \in Nat /\ At({"refill"})' = At({"refill"})
      /\ At({"refill", "alloc"}) \in Nat /\ At({"refill", "alloc"})' = At({"refill", "alloc"})
      /\ At({"flush", "free"}) \in Nat /\ At({"flush", "free"})' = At({"flush", "free"}) + 1
      /\ At({"kind"})' = At({"kind"}) /\ At({"how"})' = At({"how"})
  BY <1>2, <1>4 DEF Moved, Bit
<1>6. /\ taken[k] \in Nat /\ taken' \in [Kinds -> Nat]
      /\ Total(taken) \in Nat /\ Total(taken)' = Total(taken) - 1
  <2>1. taken \in [Kinds -> Nat]
    BY <1>0 DEF TypeOK
  <2>2. Total(taken) \in Nat /\ Total(taken') = Total(taken) - 1 /\ taken' \in [Kinds -> Nat]
    BY <1>1, <2>1, OneLess
  <2>3. Total(taken)' = Total(taken')
    BY DEF Total
  <2> QED BY <2>1, <2>2, <2>3
<1>7. /\ held' \in [Kinds -> Nat] /\ Total(held) \in Nat
      /\ Total(held)' = Total(held) - Bit(call[t].step = "idle")
  <2>1. held \in [Kinds -> Nat] /\ Total(held)' = Total(held')
    BY <1>0 DEF TypeOK, Total
  <2>2. CASE call[t].step = "idle"
    <3>1. held[k] # 0 /\ held' = [held EXCEPT ![k] = held[k] - 1]
      BY <2>2
    <3>2. Total(held) \in Nat /\ Total(held') = Total(held) - 1 /\ held' \in [Kinds -> Nat]
      BY <2>1, <3>1, OneLess
    <3> QED BY <2>1, <2>2, <3>2 DEF Bit
  <2>3. CASE call[t].step = "return"
    <3>1. held' = held /\ Total(held) \in Nat
      BY <2>1, <2>3 DEF Total, Kinds
    <3> QED BY <2>1, <2>3, <3>1 DEF Bit
  <2> QED BY <2>2, <2>3
<1>8. PagesExact' /\ pages' \in [reserved : Nat, cached : Nat]
  <2>1. /\ pages.reserved = pages.cached + taken["large"] + taken["aligned"]
        /\ pages \in [reserved : Nat, cached : Nat] /\ taken \in [Kinds -> Nat]
    BY <1>0 DEF Counted, PagesExact, TypeOK
  <2>2. CASE k = "small"
    BY <1>1, <2>1, <2>2 DEF PagesExact, Kinds
  <2>3. CASE k # "small" /\ pages.cached < MaxCachedPages
    <3>1. pages' = [pages EXCEPT !.cached = pages.cached + 1]
      BY <1>1, <2>3 DEF PagesReturned
    <3> QED BY <1>1, <1>6, <2>1, <2>3, <3>1 DEF PagesExact, Kinds
  <2>4. CASE k # "small" /\ ~ (pages.cached < MaxCachedPages)
    <3>1. pages' = [pages EXCEPT !.reserved = pages.reserved - 1]
      BY <1>1, <2>4 DEF PagesReturned
    <3> QED BY <1>1, <1>6, <2>1, <2>4, <3>1 DEF PagesExact, Kinds
  <2> QED BY <2>2, <2>3, <2>4
<1>9. TypeOK'
  BY <1>0, <1>1, <1>3, <1>5, <1>6, <1>7, <1>8 DEF TypeOK
<1>10. TakenExact'
  <2>1. ASSUME NEW j \in Kinds PROVE taken'[j] = held'[j] + GrantedOf(j)'
    <3>1. /\ GrantedOf(j) \in Nat /\ GrantedOf(j)' \in Nat
          /\ GrantedOf(j)' + Bit(call[t].step \in Granting /\ call[t].kind = j)
               = GrantedOf(j) + Bit(x.step \in Granting /\ x.kind = j)
      BY <1>4 DEF Moved
    <3>2. x.step \notin Granting /\ "idle" \notin Granting /\ "return" \in Granting
      BY <1>2 DEF Granting
    <3>3. Bit(x.step \in Granting /\ x.kind = j) = 0
      BY <3>2 DEF Bit
    <3>4. Bit(call[t].step \in Granting /\ call[t].kind = j) = Bit(call[t].step = "return" /\ j = k)
      BY <3>2 DEF Bit
    <3>5. taken[j] = held[j] + GrantedOf(j) /\ taken[j] \in Nat /\ held[j] \in Nat
      BY <1>0 DEF Counted, TakenExact, TypeOK
    <3>6. taken'[j] = taken[j] - Bit(j = k)
      BY <1>0, <1>1 DEF TypeOK, Bit
    <3>7. held'[j] = held[j] - Bit(call[t].step = "idle" /\ j = k)
      BY <1>0 DEF TypeOK, Bit
    <3> QED BY <3>1, <3>3, <3>4, <3>5, <3>6, <3>7 DEF Bit
  <2>2. /\ At(Granting) \in Nat /\ At(Granting)' \in Nat
        /\ At(Granting)' + Bit(call[t].step = "return") = At(Granting)
    BY <1>2, <1>4 DEF Moved, Bit, Granting
  <2>3. Bit(call[t].step = "return") = 1 - Bit(call[t].step = "idle") /\ Bit(call[t].step = "idle") \in Nat
    BY DEF Bit
  <2>4. Total(taken) = Total(held) + At(Granting)
    BY DEF Counted, TakenExact
  <2>5. Total(taken)' = Total(held)' + At(Granting)'
    BY <1>6, <1>7, <2>2, <2>3, <2>4
  <2> QED BY <2>1, <2>5 DEF TakenExact
<1>11. CountsExact'
  <2>1. count["alloc"] \in Nat /\ count["free"] \in Nat
    BY <1>0, CounterNames DEF TypeOK
  <2> QED BY <1>1, <1>5, <1>6, <2>1 DEF Counted, CountsExact
<1>12. CallsExact'
  <2>1. ASSUME NEW u \in Threads, call'[u].step = "refill" PROVE call'[u].kind = "small" /\ list'[u] = Batch - 1
    <3>1. u # t /\ call'[u] = call[u]
      BY <1>0, <1>1, <1>2, <1>5, <2>1 DEF TypeOK
    <3> QED BY <1>3, <2>1, <3>1 DEF Counted, CallsExact
  <2>2. ASSUME NEW u \in Threads, call'[u].step = "flush"
        PROVE  list'[u] = Keep(call'[u].size) /\ list'[u] <= call'[u].size
    <3>1. CASE u = t
      BY <1>0, <1>1, <1>2, <1>5, <2>2, <3>1 DEF TypeOK
    <3>2. CASE u # t
      <4>1. call'[u] = call[u]
        BY <1>0, <1>1, <3>2 DEF TypeOK
      <4> QED BY <1>3, <2>2, <3>2, <4>1 DEF Counted, CallsExact
    <3> QED BY <3>1, <3>2
  <2> QED BY <2>1, <2>2 DEF CallsExact
<1>13. FlowExact'
  <2>1. Known(t) = list[t] /\ Known(t)' = (IF k = "small" THEN n ELSE list[t])
    BY <1>0, <1>1, <1>2, <1>5 DEF Known, TypeOK
  <2>2. /\ count["refill"] \in Nat /\ count["flush"] \in Nat /\ taken["small"] \in Nat
        /\ taken'["small"] + Bit(k = "small") = taken["small"] /\ taken'["small"] \in Nat
    BY <1>0, <1>1, <1>6, CounterNames DEF TypeOK, Kinds, Bit
  <2>3. /\ SumOf([u \in Threads |-> Known(u)]) \in Nat /\ SumOf([u \in Threads |-> Known(u)])' \in Nat
        /\ SumOf([u \in Threads |-> Known(u)])' = SumOf([u \in Threads |-> Known(u)]) + Bit(k = "small")
    BY <1>0, <1>4, <2>1 DEF Moved, Bit
  <2>4. Bit(k = "small") \in Nat
    BY DEF Bit
  <2>5. /\ Accounted' = count["flush"] + taken'["small"] + SumOf([u \in Threads |-> Known(u)])'
        /\ Fetched' = Fetched
    BY <1>1, <1>5 DEF Accounted, Fetched
  <2>6. /\ Accounted \in Int /\ Fetched \in Int /\ Accounted' \in Int /\ Fetched' \in Int
        /\ Accounted' + Fetched = Fetched' + Accounted
    BY <1>5, <2>2, <2>3, <2>4, <2>5 DEF Accounted, Fetched
  <2> QED BY <1>1, <2>6, FlowKept DEF Counted
<1> QED BY <1>8, <1>9, <1>10, <1>11, <1>12, <1>13 DEF Counted

LEMMA DeallocateCounts ==
  ASSUME Counted, NEW t \in Threads, NEW k \in Kinds, NEW sized \in BOOLEAN, deallocate(t, k, sized)
  PROVE  Counted'
<1>1. /\ call[t] = Idle /\ held[k] > 0 /\ held' = [held EXCEPT ![k] = held[k] - 1]
      /\ GiveTo(t, k, sized) /\ UNCHANGED <<count, view, alive, out, calls>>
  BY DEF deallocate
<1>2. call[t].step = "idle" /\ held[k] # 0
  BY <1>1 DEF Idle
<1>3. taken[k] # 0
  <2>1. GrantedOf(k) \in Nat
    BY CellsFinite DEF GrantedOf
  <2>2. taken[k] = held[k] + GrantedOf(k) /\ held[k] \in Nat
    BY DEF Counted, TakenExact, TypeOK
  <2> QED BY <1>1, <2>1, <2>2
<1> QED BY <1>1, <1>2, <1>3, GiveCounts

(* A block becomes an object, unless its constructor throws.               *)
LEMMA ReturnCounts ==
  ASSUME Counted, NEW t \in Threads, return(t)
  PROVE  Counted'
<1> DEFINE k == call[t].kind
<1>1. call[t].step = "return" /\ UNCHANGED <<count, view, alive, out, calls>>
  BY DEF return
<1>2. TypeOK /\ k \in Kinds /\ call[t].step \in Granting
  BY <1>1, CallParts DEF Counted, TypeOK, Granting
<1>3. CASE call[t].new /\ newThrows(t) /\ held' = held
  <2>1. taken[k] # 0
    BY <1>2, TakenAtLeast
  <2>2. GiveTo(t, k, FALSE)
    BY <1>3 DEF newThrows
  <2> QED BY <1>1, <1>2, <1>3, <2>1, <2>2, GiveCounts
<1>4. CASE /\ held' = [held EXCEPT ![k] = held[k] + 1]
           /\ Goto(t, Idle)
           /\ UNCHANGED <<list, pages, taken>>
  <2>1. Idle \in CallRecord /\ Idle.step = "idle"
    BY DEF CallRecord, Idle
  <2>2. call' = [call EXCEPT ![t] = Idle] /\ list' \in [Threads -> Nat]
    BY <1>2, <1>4 DEF Goto, TypeOK
  <2>3. Moved(t, Idle)
    BY <1>4, <2>1, <2>2, Moves
  <2>4. /\ call' \in [Threads -> CallRecord] /\ call'[t] = Idle
        /\ At({"refill", "alloc"})' = At({"refill", "alloc"})
        /\ At({"flush", "free"})' = At({"flush", "free"})
        /\ At({"kind"})' = At({"kind"}) /\ At({"how"})' = At({"how"})
        /\ At(Granting) \in Nat /\ At(Granting)' \in Nat /\ At(Granting)' + 1 = At(Granting)
    BY <1>1, <2>1, <2>3 DEF Moved, Bit, Granting
  <2>5. /\ held \in [Kinds -> Nat] /\ held' \in [Kinds -> Nat] /\ Total(held) \in Nat
        /\ Total(held)' = Total(held) + 1 /\ Total(taken)' = Total(taken)
    <3>1. held \in [Kinds -> Nat] /\ held' \in [Kinds -> Nat]
      BY <1>2, <1>4 DEF TypeOK
    <3>2. Total(held) \in Nat /\ Total(held') = Total(held) + 1
      BY <1>2, <1>4, <3>1, OneMore
    <3> QED BY <1>4, <3>1, <3>2 DEF Total
  <2>6. TypeOK'
    BY <1>1, <1>2, <1>4, <2>4, <2>5 DEF TypeOK
  <2>7. TakenExact'
    <3>1. ASSUME NEW j \in Kinds PROVE taken'[j] = held'[j] + GrantedOf(j)'
      <4>1. /\ GrantedOf(j) \in Nat /\ GrantedOf(j)' \in Nat
            /\ GrantedOf(j)' + Bit(call[t].step \in Granting /\ call[t].kind = j)
                 = GrantedOf(j) + Bit(Idle.step \in Granting /\ Idle.kind = j)
        BY <2>3 DEF Moved
      <4>2. /\ Bit(call[t].step \in Granting /\ call[t].kind = j) = Bit(j = k)
            /\ Bit(Idle.step \in Granting /\ Idle.kind = j) = 0
        BY <1>2, <2>1 DEF Bit, Granting
      <4>3. taken[j] = held[j] + GrantedOf(j) /\ taken'[j] = taken[j] /\ held[j] \in Nat
        BY <1>4, <2>5 DEF Counted, TakenExact
      <4>4. held'[j] = held[j] + Bit(j = k) /\ Bit(j = k) \in Nat
        BY <1>2, <1>4, <2>5 DEF Bit
      <4> QED BY <4>1, <4>2, <4>3, <4>4
    <3>2. Total(taken)' = Total(held)' + At(Granting)'
      BY <2>4, <2>5 DEF Counted, TakenExact
    <3> QED BY <3>1, <3>2 DEF TakenExact
  <2>8. PagesExact'
    BY <1>4 DEF Counted, PagesExact
  <2>9. CountsExact'
    BY <1>1, <2>4, <2>5 DEF Counted, CountsExact
  <2>10. CallsExact'
    BY <1>2, <1>4, <2>1, <2>2, <2>4 DEF Counted, CallsExact, TypeOK
  <2>11. FlowExact'
    <3>1. Known(t)' = Known(t)
      BY <1>1, <1>4, <2>1, <2>4 DEF Known
    <3>2. /\ taken' = taken /\ alive' = alive /\ count' = count
          /\ call[t].step # "refill" /\ Idle.step # "refill"
      BY <1>1, <1>4, <2>1
    <3> QED BY <2>3, <3>1, <3>2, FlowAside
  <2> QED BY <2>6, <2>7, <2>8, <2>9, <2>10, <2>11 DEF Counted
<1> QED BY <1>3, <1>4 DEF return

(* What a thread listed when it ended is not counted any more.             *)
LEMMA ExitCounts ==
  ASSUME Counted, NEW t \in Threads, exit(t)
  PROVE  Counted'
<1>1. /\ call[t] = Idle /\ alive' = [alive EXCEPT ![t] = "exited"] /\ list' = [list EXCEPT ![t] = 0]
      /\ UNCHANGED <<count, view, pages, taken, held, call, out, calls>>
  BY DEF exit
<1>2. TypeOK /\ Idle \in CallRecord /\ Idle.step = "idle"
  BY DEF Counted, CallRecord, Idle
<1>3. /\ list' \in [Threads -> Nat] /\ \A u \in Threads : u # t => list'[u] = list[u]
      /\ call' = [call EXCEPT ![t] = Idle]
  BY <1>1, <1>2 DEF TypeOK
<1>4. Moved(t, Idle)
  BY <1>2, <1>3, Moves
<1>5. TypeOK'
  BY <1>1, <1>2, <1>3 DEF TypeOK
<1>6. TakenExact' /\ PagesExact' /\ CountsExact'
  BY <1>1 DEF Counted, TakenExact, PagesExact, CountsExact, At, GrantedOf, Total
<1>7. CallsExact'
  BY <1>1, <1>2, <1>3 DEF Counted, CallsExact
<1>8. FlowExact'
  <2>1. Known(t) = list[t] /\ Known(t)' = 0 /\ list[t] \in Nat
    BY <1>1, <1>2 DEF Known, TypeOK
  <2>2. /\ SumOf([u \in Threads |-> Known(u)]) \in Nat /\ SumOf([u \in Threads |-> Known(u)])' \in Nat
        /\ SumOf([u \in Threads |-> Known(u)])' <= SumOf([u \in Threads |-> Known(u)])
    BY <1>4, <2>1 DEF Moved
  <2>3. At({"refill"})' = At({"refill"}) /\ At({"refill"}) \in Nat
    BY <1>1, <1>2, <1>4 DEF Moved, Bit
  <2>4. count["refill"] \in Nat /\ count["flush"] \in Nat /\ taken["small"] \in Nat
    BY <1>2, CounterNames DEF TypeOK, Kinds
  <2>5. Accounted' <= Fetched'
    BY <1>1, <2>2, <2>3, <2>4 DEF Counted, FlowExact, Accounted, Fetched
  <2>6. alive'[t] # "running"
    BY <1>1, <1>2 DEF TypeOK
  <2> QED BY <2>5, <2>6 DEF FlowExact
<1> QED BY <1>5, <1>6, <1>7, <1>8 DEF Counted

(* stats() counts nothing.                                                 *)
LEMMA AsideCounts ==
  ASSUME Counted, NEW t \in Threads, NEW x \in CallRecord, call' = [call EXCEPT ![t] = x],
         UNCHANGED <<count, list, pages, taken, held, alive>>, TypeOK',
         {call[t].step, x.step} \subseteq {"idle", "cached", "load", "report"}
  PROVE  Counted'
<1>1. /\ TypeOK /\ count' = count /\ list' = list /\ pages' = pages /\ taken' = taken
      /\ held' = held /\ alive' = alive
      /\ call[t].step \in {"idle", "cached", "load", "report"}
      /\ x.step \in {"idle", "cached", "load", "report"}
  BY DEF Counted
<1>2. Moved(t, x) /\ call'[t] = x
  <2>1. list' \in [Threads -> Nat]
    BY <1>1 DEF TypeOK
  <2>2. Moved(t, x)
    BY <1>1, <2>1, Moves
  <2> QED BY <2>2 DEF Moved
<1>3. /\ At({"refill", "alloc"})' = At({"refill", "alloc"})
      /\ At({"flush", "free"})' = At({"flush", "free"})
      /\ At({"kind"})' = At({"kind"}) /\ At({"how"})' = At({"how"})
      /\ At(Granting)' = At(Granting)
  BY <1>1, <1>2 DEF Moved, Bit, Granting
<1>4. \A k \in Kinds : GrantedOf(k)' = GrantedOf(k)
  <2> TAKE k \in Kinds
  <2>1. /\ GrantedOf(k) \in Nat /\ GrantedOf(k)' \in Nat
        /\ GrantedOf(k)' + Bit(call[t].step \in Granting /\ call[t].kind = k)
             = GrantedOf(k) + Bit(x.step \in Granting /\ x.kind = k)
    BY <1>2 DEF Moved
  <2>2. call[t].step \notin Granting /\ x.step \notin Granting
    BY <1>1 DEF Granting
  <2> QED BY <2>1, <2>2 DEF Bit
<1>5. Total(taken)' = Total(taken) /\ Total(held)' = Total(held)
  BY <1>1 DEF Total
<1>6. TakenExact' /\ PagesExact' /\ CountsExact'
  BY <1>1, <1>3, <1>4, <1>5 DEF Counted, TakenExact, PagesExact, CountsExact
<1>7. CallsExact'
  BY <1>1, <1>2 DEF Counted, CallsExact, TypeOK
<1>8. FlowExact'
  <2>1. Known(t)' = Known(t)
    BY <1>1, <1>2 DEF Known
  <2>2. call[t].step # "refill" /\ x.step # "refill"
    BY <1>1
  <2> QED BY <1>1, <1>2, <2>1, <2>2, FlowAside
<1> QED BY <1>6, <1>7, <1>8 DEF Counted

-----------------------------------------------------------------------------
(* What threads have seen, and what stats() reports.                       *)

Reporting == {"cached", "load", "report"}

(* A running thread moves, and has seen no less than before.               *)
LEMMA ViewsMove ==
  ASSUME TypeOK, ViewsExact, NEW t \in Threads, NEW x, alive[t] = "running",
         call' = [call EXCEPT ![t] = x], alive' = alive, x.step \in Reporting => t = Main
  PROVE  /\ \A u \in Threads : alive'[u] # "running" => u # Main /\ call'[u] = Idle
         /\ \A u \in Threads : call'[u].step \in Reporting => u = Main
<1>1. call'[t] = x /\ \A u \in Threads : u # t => call'[u] = call[u]
  BY DEF TypeOK
<1> QED BY <1>1 DEF ViewsExact, Reporting

LEMMA ViewsAside ==
  ASSUME TypeOK, ViewsExact, NEW t \in Threads, NEW x, alive[t] = "running",
         call' = [call EXCEPT ![t] = x], alive' = alive, x.step \in Reporting => t = Main,
         count' = count, view' = view
  PROVE  ViewsExact'
<1>1. /\ \A u \in Threads : alive'[u] # "running" => u # Main /\ call'[u] = Idle
      /\ \A u \in Threads : call'[u].step \in Reporting => u = Main
  BY ViewsMove
<1> QED BY <1>1 DEF ViewsExact, Reporting

(* A thread that adds has seen the latest value.                           *)
LEMMA ViewsAdd ==
  ASSUME TypeOK, ViewsExact, NEW t \in Threads, NEW x, alive[t] = "running",
         call' = [call EXCEPT ![t] = x], alive' = alive, x.step \notin Reporting,
         NEW c \in Counters, NEW n \in Nat, FetchAdd(t, c, n)
  PROVE  ViewsExact'
<1>1. /\ \A u \in Threads : alive'[u] # "running" => u # Main /\ call'[u] = Idle
      /\ \A u \in Threads : call'[u].step \in Reporting => u = Main
  BY ViewsMove
<1>2. /\ count \in [Counters -> Nat] /\ view \in [Threads -> [Counters -> Nat]] /\ Main \in Threads
      /\ count' = [count EXCEPT ![c] = count[c] + n]
      /\ view' = [view EXCEPT ![t][c] = count[c] + n]
  BY StatsAssumption DEF TypeOK, FetchAdd, StatsAssumption
<1>3. /\ count'[c] = count[c] + n /\ view'[t][c] = count[c] + n
      /\ \A d \in Counters : d # c => count'[d] = count[d] /\ view'[t][d] = view[t][d]
      /\ \A u \in Threads : u # t => view'[u] = view[u]
  BY <1>2
<1>4. \A u \in Threads, d \in Counters : view[u][d] \in Nat /\ count[d] \in Nat /\ view[u][d] <= count[d]
  BY <1>2 DEF ViewsExact
<1>5. \A u \in Threads, d \in Counters : view'[u][d] <= count'[d]
  <2> TAKE u \in Threads, d \in Counters
  <2>1. CASE d = c /\ u = t
    BY <1>2, <1>3, <2>1
  <2>2. CASE d = c /\ u # t
    BY <1>3, <1>4, <2>2
  <2>3. CASE d # c
    BY <1>3, <1>4, <2>3
  <2> QED BY <2>1, <2>2, <2>3
<1>6. \A d \in Counters : \E u \in Threads : view'[u][d] = count'[d]
  <2> TAKE d \in Counters
  <2>1. CASE d = c
    BY <1>3, <2>1
  <2>2. CASE d # c
    <3>1. PICK u \in Threads : view[u][d] = count[d]
      BY DEF ViewsExact
    <3>2. view'[u][d] = view[u][d] /\ count'[d] = count[d]
      BY <1>3, <2>2
    <3> QED BY <3>1, <3>2
  <2> QED BY <2>1, <2>2
<1>7. \A u \in Threads : alive'[u] = "joined" => \A d \in Counters : view'[u][d] <= view'[Main][d]
  <2>1. SUFFICES ASSUME NEW u \in Threads, alive[u] = "joined", NEW d \in Counters
                 PROVE  view'[u][d] <= view'[Main][d]
    OBVIOUS
  <2>2. u # t /\ view'[u] = view[u] /\ view[u][d] <= view[Main][d]
    BY <1>3, <2>1 DEF ViewsExact
  <2>3. view[Main][d] <= view'[Main][d] /\ view'[Main][d] \in Nat
    <3>1. CASE Main = t /\ d = c
      BY <1>2, <1>3, <1>4, <3>1
    <3>2. CASE ~ (Main = t /\ d = c)
      BY <1>2, <1>3, <1>4, <3>2
    <3> QED BY <3>1, <3>2
  <2> QED BY <1>2, <1>4, <2>2, <2>3
<1> QED BY <1>1, <1>5, <1>6, <1>7 DEF ViewsExact, Reporting

(* stats() meets no step of another thread once all have been joined.      *)
LEMMA NotQuiet ==
  ASSUME ViewsExact, OutExact, NEW t \in Threads, alive[t] = "running",
         call[t].step \notin Reporting
  PROVE  ~ out.quiet
BY DEF ViewsExact, OutExact, Reporting

(* What has been loaded stays below counters that grow.                    *)
LEMMA OutKept ==
  ASSUME TypeOK, OutExact, ~ out.quiet, out' = out, \A c \in Counters : count'[c] \in Nat /\ count[c] <= count'[c]
  PROVE  OutExact'
<1>1. /\ \A c \in Counters : out.value[c] \in Nat /\ count[c] \in Nat /\ out.value[c] <= count[c]
      /\ out.live \in Nat /\ out.live <= count["alloc"] /\ "alloc" \in Counters
  BY CounterNames DEF TypeOK, OutExact
<1>2. \A c \in Counters : out'.value[c] <= count'[c]
  BY <1>1
<1>3. out'.live <= count'["alloc"]
  BY <1>1
<1> QED BY <1>2, <1>3 DEF OutExact

(* Once every other thread has been joined the main thread has seen the    *)
(* latest value of every counter.                                          *)
LEMMA AllSeen ==
  ASSUME TypeOK, ViewsExact, \A t \in Threads \ {Main} : alive[t] = "joined", NEW c \in Counters
  PROVE  view[Main][c] = count[c]
<1>1. PICK t \in Threads : view[t][c] = count[c]
  BY DEF ViewsExact
<1>2. Main \in Threads /\ view[Main][c] \in Nat /\ count[c] \in Nat /\ view[Main][c] <= count[c]
  BY StatsAssumption DEF StatsAssumption, TypeOK, ViewsExact
<1>3. CASE t = Main
  BY <1>1, <1>3
<1>4. CASE t # Main
  <2>1. view[t][c] <= view[Main][c]
    BY <1>4 DEF ViewsExact
  <2> QED BY <1>1, <1>2, <2>1
<1> QED BY <1>3, <1>4

-----------------------------------------------------------------------------
(* The invariant is inductive.                                             *)

(* A step of a thread inside a call that adds to a counter.                *)
Adds(t) ==
  \E x \in CallRecord, c \in Counters, n \in Nat :
    /\ call' = [call EXCEPT ![t] = x] /\ FetchAdd(t, c, n)
    /\ alive' = alive /\ out' = out
    /\ x.step \notin Reporting /\ call[t].step \notin Reporting /\ call[t].step # "idle"

LEMMA RecordsAdd ==
  ASSUME TypeOK, NEW t \in Threads,
         recordCentralRefill(t) \/ recordAllocation(t) \/ recordCentralFlush(t) \/ recordFree(t)
  PROVE  Adds(t)
<1>0. call[t] \in CallRecord
  BY DEF TypeOK
<1>1. CASE recordCentralRefill(t)
  <2>1. /\ call[t].step = "refill" /\ FetchAdd(t, "refill", Batch)
        /\ call' = [call EXCEPT ![t] = [call[t] EXCEPT !.step = "alloc"]] /\ alive' = alive /\ out' = out
    BY <1>1 DEF recordCentralRefill, RefillCount, FirstRecord, Goto
  <2>2. call[t].step \in Granting /\ "alloc" \in Granting
    BY <2>1 DEF Granting
  <2>3. [call[t] EXCEPT !.step = "alloc"] \in CallRecord /\ [call[t] EXCEPT !.step = "alloc"].step = "alloc"
    BY <1>0, <2>2, Advance
  <2>4. "refill" \in Counters /\ Batch \in Nat
    BY CounterNames, StatsAssumption DEF StatsAssumption
  <2> QED BY <2>1, <2>3, <2>4 DEF Adds, Reporting
<1>2. CASE recordAllocation(t)
  <2>1. PICK s \in Granting, c \in Counters :
          /\ call[t].step \in {"alloc", "kind"} /\ FetchAdd(t, c, 1) /\ s \notin Reporting
          /\ call' = [call EXCEPT ![t] = [call[t] EXCEPT !.step = s]] /\ alive' = alive /\ out' = out
    <3>1. CASE call[t].step = "alloc"
      <4>1. "kind" \in Granting /\ "alloc" \in Counters /\ "kind" \notin Reporting
        BY CounterNames DEF Granting, Reporting
      <4> QED BY <1>2, <3>1, <4>1 DEF recordAllocation, Goto
    <3>2. CASE call[t].step = "kind"
      <4>1. "return" \in Granting /\ AllocCounter(call[t].kind) \in Counters /\ "return" \notin Reporting
        BY CounterNames DEF Granting, AllocCounter, Reporting
      <4> QED BY <1>2, <3>2, <4>1 DEF recordAllocation, Goto
    <3> QED BY <1>2, <3>1, <3>2 DEF recordAllocation
  <2>2. call[t].step \in Granting
    BY <2>1 DEF Granting
  <2>3. [call[t] EXCEPT !.step = s] \in CallRecord /\ [call[t] EXCEPT !.step = s].step = s
    BY <1>0, <2>2, Advance
  <2> QED BY <2>1, <2>3 DEF Adds, Reporting
<1>3. CASE recordCentralFlush(t)
  <2>1. /\ call[t].step = "flush" /\ FetchAdd(t, "flush", FlushCount(call[t].size))
        /\ call' = [call EXCEPT ![t] = [call[t] EXCEPT !.step = "free"]] /\ alive' = alive /\ out' = out
    BY <1>3 DEF recordCentralFlush, Goto
  <2>2. call[t].step \in Leaving /\ "free" \in Leaving
    BY <2>1 DEF Leaving
  <2>3. [call[t] EXCEPT !.step = "free"] \in CallRecord /\ [call[t] EXCEPT !.step = "free"].step = "free"
    BY <1>0, <2>2, Advance
  <2>4. "flush" \in Counters /\ FlushCount(call[t].size) \in Nat
    <3>1. call[t].size \in Nat \ {0}
      BY <1>0, <2>2, CallParts
    <3>2. Keep(call[t].size) \in Nat /\ Keep(call[t].size) <= call[t].size
      BY <3>1, KeepBounds
    <3> QED BY <3>1, <3>2, CounterNames DEF FlushCount
  <2> QED BY <2>1, <2>3, <2>4 DEF Adds, Reporting
<1>4. CASE recordFree(t)
  <2>1. CASE call[t].step = "free"
    <3>1. /\ FetchAdd(t, "free", 1) /\ call' = [call EXCEPT ![t] = [call[t] EXCEPT !.step = "how"]]
          /\ alive' = alive /\ out' = out
      BY <1>4, <2>1 DEF recordFree, Goto
    <3>2. call[t].step \in Leaving /\ "how" \in Leaving /\ "free" \in Counters
      BY <2>1, CounterNames DEF Leaving
    <3>3. [call[t] EXCEPT !.step = "how"] \in CallRecord /\ [call[t] EXCEPT !.step = "how"].step = "how"
      BY <1>0, <3>2, Advance
    <3> QED BY <2>1, <3>1, <3>2, <3>3 DEF Adds, Reporting
  <2>2. CASE call[t].step = "how"
    <3>1. PICK c \in Counters : FetchAdd(t, c, 1) /\ call' = [call EXCEPT ![t] = Idle] /\ alive' = alive /\ out' = out
      BY <1>4, <2>2, CounterNames DEF recordFree, Goto
    <3>2. Idle \in CallRecord /\ Idle.step = "idle"
      BY DEF CallRecord, Idle
    <3> QED BY <2>2, <3>1, <3>2 DEF Adds, Reporting
  <2> QED BY <1>4, <2>1, <2>2 DEF recordFree
<1> QED BY <1>1, <1>2, <1>3, <1>4

LEMMA AddKeeps ==
  ASSUME Inv, Counted', NEW t \in Threads, Adds(t)
  PROVE  Inv'
<1>1. PICK x \in CallRecord, c \in Counters, n \in Nat :
        /\ call' = [call EXCEPT ![t] = x] /\ FetchAdd(t, c, n)
        /\ alive' = alive /\ out' = out
        /\ x.step \notin Reporting /\ call[t].step \notin Reporting /\ call[t].step # "idle"
  BY DEF Adds
<1>2. TypeOK /\ ViewsExact /\ OutExact
  BY DEF Inv, Counted
<1>3. alive[t] = "running"
  BY <1>1, <1>2 DEF ViewsExact, Idle
<1>4. ViewsExact'
  BY <1>1, <1>2, <1>3, ViewsAdd
<1>5. ~ out.quiet
  BY <1>1, <1>2, <1>3, NotQuiet
<1>6. \A d \in Counters : count'[d] \in Nat /\ count[d] <= count'[d]
  <2>1. count' = [count EXCEPT ![c] = count[c] + n] /\ count \in [Counters -> Nat]
    BY <1>1, <1>2 DEF FetchAdd, TypeOK
  <2> QED BY <2>1
<1>7. OutExact'
  BY <1>1, <1>2, <1>5, <1>6, OutKept
<1> QED BY <1>4, <1>7 DEF Inv

(* A step of a thread that adds to none.                                   *)
Passes(t) ==
  \E x \in CallRecord :
    /\ call' = [call EXCEPT ![t] = x] /\ x.step \notin Reporting
    /\ alive[t] = "running" /\ call[t].step \notin Reporting
    /\ UNCHANGED <<count, view, alive, out>>

LEMMA PassKeeps ==
  ASSUME Inv, Counted', NEW t \in Threads, Passes(t)
  PROVE  Inv'
<1>1. PICK x \in CallRecord :
        /\ call' = [call EXCEPT ![t] = x] /\ x.step \notin Reporting
        /\ alive[t] = "running" /\ call[t].step \notin Reporting
        /\ count' = count /\ view' = view /\ alive' = alive /\ out' = out
  BY DEF Passes
<1>2. TypeOK /\ ViewsExact /\ OutExact
  BY DEF Inv, Counted
<1>3. ViewsExact'
  BY <1>1, <1>2, ViewsAside
<1>4. ~ out.quiet
  BY <1>1, <1>2, NotQuiet
<1>5. \A c \in Counters : count'[c] \in Nat /\ count[c] <= count'[c]
  BY <1>1, <1>2 DEF TypeOK
<1>6. OutExact'
  BY <1>1, <1>2, <1>4, <1>5, OutKept
<1> QED BY <1>3, <1>6 DEF Inv

LEMMA CallsPass ==
  ASSUME Inv, NEW t \in Threads, NEW k \in Kinds, NEW b \in BOOLEAN,
         allocate(t, k, b) \/ deallocate(t, k, b) \/ return(t)
  PROVE  Passes(t)
<1>0. TypeOK /\ ViewsExact
  BY DEF Inv, Counted
<1>1. call' \in [Threads -> CallRecord]
  <2>1. Counted'
    BY AllocateCounts, DeallocateCounts, ReturnCounts DEF Inv
  <2> QED BY <2>1 DEF Counted, TypeOK
<1>2. PICK x : /\ call' = [call EXCEPT ![t] = x] /\ x.step \in {"refill", "alloc", "flush", "free", "idle"}
               /\ UNCHANGED <<count, view, alive, out>> /\ call[t].step \in {"idle", "return"}
               /\ call[t].step = "idle" => alive[t] = "running"
  <2>1. CASE allocate(t, k, b)
    <3> DEFINE s == IF k = "small" /\ list[t] = 0 THEN "refill" ELSE "alloc"
               x == [step |-> s, kind |-> k, new |-> b]
    <3>1. call' = [call EXCEPT ![t] = x] /\ call[t] = Idle /\ alive[t] = "running" /\ UNCHANGED <<count, view, alive, out>>
      BY <2>1 DEF allocate, Goto, FirstRecord
    <3>2. x.step \in {"refill", "alloc"} /\ Idle.step = "idle"
      BY DEF Idle
    <3> QED BY <3>1, <3>2
  <2>2. ASSUME NEW j \in Kinds, NEW sized \in BOOLEAN, GiveTo(t, j, sized)
        PROVE  \E x : call' = [call EXCEPT ![t] = x] /\ x.step \in {"flush", "free"}
    <3> DEFINE n == list[t] + 1
               halve == j = "small" /\ n > MaxList /\ Keep(n) < n
               x == [step |-> IF halve THEN "flush" ELSE "free", size |-> n, sized |-> sized]
    <3>1. call' = [call EXCEPT ![t] = x]
      BY <2>2 DEF GiveTo, Goto
    <3>2. x.step \in {"flush", "free"}
      OBVIOUS
    <3> QED BY <3>1, <3>2
  <2>3. CASE deallocate(t, k, b)
    <3>1. GiveTo(t, k, b) /\ call[t] = Idle /\ alive[t] = "running" /\ UNCHANGED <<count, view, alive, out>>
      BY <2>3 DEF deallocate
    <3> QED BY <2>2, <3>1 DEF Idle
  <2>4. CASE return(t)
    <3>1. call[t].step = "return" /\ UNCHANGED <<count, view, alive, out>>
      BY <2>4 DEF return
    <3>2. call[t].kind \in Kinds
      BY <1>0, <3>1, CallParts DEF TypeOK, Granting
    <3>3. \/ GiveTo(t, call[t].kind, FALSE)
          \/ call' = [call EXCEPT ![t] = Idle]
      BY <2>4 DEF return, newThrows, Goto
    <3>4. Idle.step = "idle"
      BY DEF Idle
    <3> QED BY <2>2, <3>1, <3>2, <3>3, <3>4
  <2> QED BY <2>1, <2>3, <2>4
<1>3. x \in CallRecord
  <2>1. x = call'[t]
    BY <1>0, <1>2 DEF TypeOK
  <2> QED BY <1>1, <2>1
<1>4. alive[t] = "running"
  BY <1>0, <1>2 DEF ViewsExact, Idle
<1> QED BY <1>2, <1>3, <1>4 DEF Passes, Reporting

(* A thread ends.                                                          *)
LEMMA ExitKeeps ==
  ASSUME Inv, NEW t \in Threads, exit(t)
  PROVE  Inv'
<1>1. /\ t # Main /\ call[t] = Idle /\ alive[t] = "running" /\ alive' = [alive EXCEPT ![t] = "exited"]
      /\ count' = count /\ view' = view /\ call' = call /\ out' = out
  BY DEF exit
<1>2. TypeOK /\ ViewsExact /\ OutExact /\ Idle.step \notin Reporting
  BY DEF Inv, Counted, Idle, Reporting
<1>3. ViewsExact'
  <2>1. alive'[t] = "exited" /\ \A u \in Threads : u # t => alive'[u] = alive[u]
    BY <1>1, <1>2 DEF TypeOK
  <2> QED BY <1>1, <1>2, <2>1 DEF ViewsExact
<1>4. ~ out.quiet
  BY <1>1, <1>2, NotQuiet
<1>5. \A c \in Counters : count'[c] \in Nat /\ count[c] <= count'[c]
  BY <1>1, <1>2 DEF TypeOK
<1>6. OutExact'
  BY <1>1, <1>2, <1>4, <1>5, OutKept
<1>7. Counted'
  BY ExitCounts DEF Inv
<1> QED BY <1>3, <1>6, <1>7 DEF Inv

(* The main thread waits for a thread that has ended.                      *)
LEMMA JoinKeeps ==
  ASSUME Inv, NEW t \in Threads, join(t)
  PROVE  Inv'
<1>1. /\ call[Main] = Idle /\ alive[t] = "exited" /\ alive' = [alive EXCEPT ![t] = "joined"]
      /\ view' = [view EXCEPT ![Main] = Joined(view[Main], view[t])]
      /\ count' = count /\ list' = list /\ pages' = pages /\ taken' = taken /\ held' = held
      /\ call' = call /\ out' = out /\ calls' = calls
  BY DEF join
<1>2. /\ TypeOK /\ ViewsExact /\ OutExact /\ Main \in Threads /\ Idle.step \notin Reporting
      /\ view \in [Threads -> [Counters -> Nat]] /\ count \in [Counters -> Nat]
  BY StatsAssumption DEF Inv, Counted, TypeOK, StatsAssumption, Idle, Reporting
<1>3. t # Main
  BY <1>1, <1>2 DEF ViewsExact
<1>4. /\ view' \in [Threads -> [Counters -> Nat]]
      /\ \A u \in Threads : u # Main => view'[u] = view[u]
      /\ \A c \in Counters : view'[Main][c] = IF view[Main][c] > view[t][c] THEN view[Main][c] ELSE view[t][c]
  <2>1. Joined(view[Main], view[t]) \in [Counters -> Nat]
    BY <1>2 DEF Joined, Larger
  <2>2. view'[Main] = Joined(view[Main], view[t])
    BY <1>1, <1>2
  <2> QED BY <1>1, <1>2, <2>1, <2>2 DEF Joined, Larger
<1>5. \A c \in Counters : /\ view[Main][c] \in Nat /\ view[t][c] \in Nat /\ count[c] \in Nat
                          /\ view[Main][c] <= count[c] /\ view[t][c] <= count[c]
  BY <1>2 DEF ViewsExact
<1>6. \A c \in Counters : /\ view'[Main][c] \in Nat /\ view'[Main][c] <= count[c]
                          /\ view[Main][c] <= view'[Main][c] /\ view[t][c] <= view'[Main][c]
  BY <1>4, <1>5
<1>7. /\ alive'[t] = "joined" /\ \A u \in Threads : u # t => alive'[u] = alive[u]
      /\ alive' \in [Threads -> {"running", "exited", "joined"}]
  BY <1>1, <1>2 DEF TypeOK
<1>8. ViewsExact'
  <2>1. \A u \in Threads, c \in Counters : view'[u][c] <= count'[c]
    BY <1>1, <1>2, <1>4, <1>6 DEF ViewsExact
  <2>2. ASSUME NEW c \in Counters PROVE \E u \in Threads : view'[u][c] = count'[c]
    <3>1. PICK u \in Threads : view[u][c] = count[c]
      BY <1>2 DEF ViewsExact
    <3>2. CASE u = Main
      <4>1. view'[Main][c] = count[c]
        BY <1>5, <1>6, <3>1, <3>2
      <4> QED BY <1>1, <1>2, <4>1
    <3>3. CASE u # Main
      BY <1>1, <1>4, <3>1, <3>3
    <3> QED BY <3>2, <3>3
  <2>3. ASSUME NEW u \in Threads, alive'[u] = "joined", NEW c \in Counters
        PROVE  view'[u][c] <= view'[Main][c]
    <3>1. u # Main
      BY <1>2, <1>3, <1>7, <2>3 DEF ViewsExact
    <3>2. CASE u = t
      BY <1>4, <1>6, <3>1, <3>2
    <3>3. CASE u # t
      <4>1. view[u][c] <= view[Main][c] /\ view[u][c] \in Nat
        BY <1>2, <1>7, <2>3, <3>3 DEF ViewsExact
      <4> QED BY <1>4, <1>5, <1>6, <3>1, <4>1
    <3> QED BY <3>2, <3>3
  <2>4. /\ \A u \in Threads : alive'[u] # "running" => u # Main /\ call'[u] = Idle
        /\ \A u \in Threads : call'[u].step \in {"cached", "load", "report"} => u = Main
    BY <1>1, <1>2, <1>3, <1>7 DEF ViewsExact
  <2> QED BY <2>1, <2>2, <2>3, <2>4 DEF ViewsExact
<1>9. OutExact'
  <2>1. ~ out.quiet
    BY <1>1, <1>2 DEF OutExact, Reporting
  <2>2. \A c \in Counters : count'[c] \in Nat /\ count[c] <= count'[c]
    BY <1>1, <1>2
  <2> QED BY <1>1, <1>2, <2>1, <2>2, OutKept
<1>10. Counted'
  <2>1. TypeOK'
    BY <1>1, <1>2, <1>4, <1>7 DEF TypeOK
  <2>2. TakenExact' /\ PagesExact' /\ CountsExact' /\ CallsExact'
    BY <1>1 DEF Inv, Counted, TakenExact, PagesExact, CountsExact, CallsExact, At, GrantedOf, Total
  <2>3. FlowExact'
    <3>1. Accounted' = Accounted /\ Fetched' = Fetched
      BY <1>1 DEF Accounted, Fetched, At, Known
    <3>2. \E u \in Threads : alive'[u] # "running"
      BY <1>7
    <3> QED BY <3>1, <3>2 DEF Inv, Counted, FlowExact
  <2> QED BY <2>1, <2>2, <2>3 DEF Counted
<1> QED BY <1>8, <1>9, <1>10 DEF Inv

(* stats() begins: it is quiet if every other thread has been joined.      *)
LEMMA MainFacts ==
  ASSUME Inv
  PROVE  /\ TypeOK /\ ViewsExact /\ OutExact /\ Main \in Threads /\ alive[Main] = "running"
         /\ call[Main] \in CallRecord
BY StatsAssumption DEF Inv, Counted, ViewsExact, TypeOK, StatsAssumption

(* What a report holds before anything is loaded.                          *)
LEMMA NewOutType ==
  /\ NewOut \in [quiet : BOOLEAN, reserved : Nat, cached : Nat, value : [Counters -> Nat], live : Nat]
  /\ NewOut.quiet = FALSE /\ NewOut.live = 0 /\ \A c \in Counters : NewOut.value[c] = 0
BY DEF NewOut

LEMMA StatsKeeps ==
  ASSUME Inv, stats
  PROVE  Inv'
<1> DEFINE x == [step |-> "cached"]
           quiet == \A t \in Threads \ {Main} : alive[t] = "joined"
<1>1. /\ call[Main] = Idle /\ calls' = calls + 1 /\ call' = [call EXCEPT ![Main] = x]
      /\ out' = [NewOut EXCEPT !.quiet = quiet, !.reserved = pages.reserved]
      /\ UNCHANGED <<count, view, list, pages, taken, held, alive>>
  BY DEF stats, Goto
<1>2. /\ TypeOK /\ ViewsExact /\ OutExact /\ Main \in Threads /\ alive[Main] = "running"
      /\ x \in CallRecord /\ x.step = "cached" /\ call[Main].step = "idle"
  BY <1>1, MainFacts DEF CallRecord, Idle
<1> HIDE DEF x
<1>3. call' \in [Threads -> CallRecord] /\ call'[Main].step = "cached"
  BY <1>1, <1>2 DEF TypeOK
<1>4. /\ out' \in [quiet : BOOLEAN, reserved : Nat, cached : Nat, value : [Counters -> Nat], live : Nat]
      /\ (out'.quiet <=> quiet) /\ out'.reserved = pages.reserved
      /\ out'.value = NewOut.value /\ out'.live = 0
  <2>1. quiet \in BOOLEAN /\ pages.reserved \in Nat
    BY <1>2 DEF TypeOK
  <2> HIDE DEF quiet
  <2> QED BY <1>1, <2>1, NewOutType
<1> HIDE DEF quiet
<1>5. TypeOK'
  <2>1. calls' \in Nat
    BY <1>1, <1>2 DEF TypeOK
  <2> QED BY <1>1, <1>2, <1>3, <1>4, <2>1 DEF TypeOK
<1>6. Counted'
  <2>1. {call[Main].step, x.step} \subseteq {"idle", "cached", "load", "report"}
    BY <1>2
  <2> QED BY <1>1, <1>2, <1>5, <2>1, AsideCounts DEF Inv
<1>7. ViewsExact'
  BY <1>1, <1>2, ViewsAside
<1>8. OutExact'
  <2>1. /\ \A c \in Counters : out'.value[c] = 0 /\ count'[c] \in Nat
        /\ out'.live = 0 /\ "alloc" \in Counters
    BY <1>1, <1>2, <1>4, NewOutType, CounterNames DEF TypeOK
  <2>2. Loaded' = 0
    BY <1>3 DEF Loaded
  <2>3. (\A c \in Counters : out'.value[c] <= count'[c]) /\ out'.live <= count'["alloc"]
    BY <2>1
  <2>4. out'.quiet => \A t \in Threads \ {Main} : alive'[t] = "joined"
    BY <1>1, <1>4, Zenon DEF quiet
  <2>5. /\ \A i \in 1 .. Loaded' : out'.value[LoadOrder[i]] = count'[LoadOrder[i]]
        /\ Loaded' >= 2 => out'.live = LiveOf(count'["alloc"], count'["free"])
    BY <2>2
  <2>6. out'.reserved = pages'.reserved
    BY <1>1, <1>4
  <2> QED BY <1>3, <2>3, <2>4, <2>5, <2>6 DEF OutExact
<1> QED BY <1>6, <1>7, <1>8 DEF Inv

LEMMA LoadCachedKeeps ==
  ASSUME Inv, loadCached
  PROVE  Inv'
<1> DEFINE x == [step |-> "load", at |-> 1]
<1>1. /\ call[Main].step = "cached" /\ call' = [call EXCEPT ![Main] = x]
      /\ out' = [out EXCEPT !.cached = pages.cached]
      /\ UNCHANGED <<count, view, list, pages, taken, held, alive, calls>>
  BY DEF loadCached, Goto
<1>2. /\ TypeOK /\ ViewsExact /\ OutExact /\ Main \in Threads /\ alive[Main] = "running"
      /\ x \in CallRecord /\ x.step = "load" /\ x.at = 1
  BY MainFacts, CounterNames DEF CallRecord
<1> HIDE DEF x
<1>3. call' \in [Threads -> CallRecord] /\ call'[Main] = x
  BY <1>1, <1>2 DEF TypeOK
<1>4. /\ out' \in [quiet : BOOLEAN, reserved : Nat, cached : Nat, value : [Counters -> Nat], live : Nat]
      /\ (out'.quiet <=> out.quiet) /\ out'.reserved = out.reserved /\ out'.cached = pages.cached
      /\ out'.value = out.value /\ out'.live = out.live
  <2>1. pages.cached \in Nat
    BY <1>2 DEF TypeOK
  <2> QED BY <1>1, <1>2, <2>1 DEF TypeOK
<1>5. TypeOK'
  BY <1>1, <1>2, <1>3, <1>4 DEF TypeOK
<1>6. Counted'
  <2>1. {call[Main].step, x.step} \subseteq {"idle", "cached", "load", "report"}
    BY <1>1, <1>2
  <2> QED BY <1>1, <1>2, <1>5, <2>1, AsideCounts DEF Inv
<1>7. ViewsExact'
  BY <1>1, <1>2, ViewsAside
<1>8. OutExact'
  <2>1. Loaded' = 0
    BY <1>2, <1>3 DEF Loaded
  <2>2. \A i \in 1 .. 0 : FALSE
    OBVIOUS
  <2> QED BY <1>1, <1>2, <1>3, <1>4, <2>1, <2>2 DEF OutExact
<1> QED BY <1>6, <1>7, <1>8 DEF Inv

LEMMA ReportKeeps ==
  ASSUME Inv, report
  PROVE  Inv'
<1>1. /\ call[Main].step = "report" /\ call' = [call EXCEPT ![Main] = Idle] /\ out' = NewOut
      /\ UNCHANGED <<count, view, list, pages, taken, held, alive, calls>>
  BY DEF report, Goto
<1>2. /\ TypeOK /\ ViewsExact /\ OutExact /\ Main \in Threads /\ alive[Main] = "running"
      /\ Idle \in CallRecord /\ Idle.step = "idle"
  BY MainFacts DEF CallRecord, Idle
<1>3. call' \in [Threads -> CallRecord]
  BY <1>1, <1>2 DEF TypeOK
<1>4. TypeOK'
  BY <1>1, <1>2, <1>3, NewOutType DEF TypeOK
<1>5. Counted'
  <2>1. {call[Main].step, Idle.step} \subseteq {"idle", "cached", "load", "report"}
    BY <1>1, <1>2
  <2> QED BY <1>1, <1>2, <1>4, <2>1, AsideCounts DEF Inv
<1>6. ViewsExact'
  BY <1>1, <1>2, ViewsAside
<1>7. OutExact'
  <2>1. \A c \in Counters : count[c] \in Nat /\ NewOut.value[c] <= count[c]
    BY <1>2, NewOutType DEF TypeOK
  <2>2. NewOut.live <= count["alloc"]
    BY <2>1, NewOutType, CounterNames
  <2> QED BY <1>1, <2>1, <2>2, NewOutType DEF OutExact
<1> QED BY <1>5, <1>6, <1>7 DEF Inv

(* A relaxed load; no other thread being left, it returns the latest       *)
(* value.                                                                  *)
LEMMA LoadKeeps ==
  ASSUME Inv, load
  PROVE  Inv'
<1> DEFINE i == call[Main].at
           c == LoadOrder[i]
           x == IF i < Len(LoadOrder) THEN [step |-> "load", at |-> i + 1] ELSE [step |-> "report"]
<1>0. /\ TypeOK /\ ViewsExact /\ OutExact /\ Main \in Threads /\ alive[Main] = "running"
      /\ call[Main].step = "load" /\ i \in 1 .. 8 /\ c \in Counters
      /\ (i = 1 => c = "alloc") /\ (i = 2 => c = "free") /\ (c = "free" => i = 2)
  <2>1. call[Main].step = "load"
    BY DEF load
  <2>2. i \in 1 .. 8
    BY <2>1, MainFacts, CallParts, CounterNames
  <2>3. c \in Counters /\ (i = 1 => c = "alloc") /\ (i = 2 => c = "free")
    BY <2>2, CounterNames
  <2>4. c = "free" => i = 2
    <3>1. 2 \in 1 .. 8 /\ LoadOrder[2] = "free"
      BY CounterNames
    <3> QED BY <2>2, <3>1, CounterNames
  <2> QED BY <2>1, <2>2, <2>3, <2>4, MainFacts
<1>1. PICK v \in view[Main][c] .. count[c] :
        /\ view' = [view EXCEPT ![Main][c] = v]
        /\ out' = [out EXCEPT !.value[c] = v,
                              !.live = IF c = "free" THEN LiveOf(out.value["alloc"], v) ELSE out.live]
        /\ call' = [call EXCEPT ![Main] = x]
  BY Zenon DEF load, Goto
<1>2. /\ count' = count /\ list' = list /\ pages' = pages /\ taken' = taken /\ held' = held
      /\ alive' = alive /\ calls' = calls
  BY DEF load
<1>3. /\ x \in CallRecord /\ x.step \in {"load", "report"}
      /\ (x.step = "load" => i < 8 /\ x.at = i + 1) /\ (x.step = "report" => i = 8)
  BY <1>0, CounterNames DEF CallRecord
<1> HIDE DEF x
<1>4. /\ count \in [Counters -> Nat] /\ view \in [Threads -> [Counters -> Nat]] /\ v \in Nat
      /\ view[Main][c] <= v /\ v <= count[c]
  BY <1>0, <1>1 DEF TypeOK
<1>5. call' \in [Threads -> CallRecord] /\ call'[Main] = x
  BY <1>0, <1>1, <1>3 DEF TypeOK
<1>6. /\ view' \in [Threads -> [Counters -> Nat]] /\ view'[Main][c] = v
      /\ \A d \in Counters : d # c => view'[Main][d] = view[Main][d]
      /\ \A t \in Threads : t # Main => view'[t] = view[t]
  BY <1>0, <1>1, <1>4
<1>7. LiveOf(out.value["alloc"], v) \in Nat /\ LiveOf(out.value["alloc"], v) <= out.value["alloc"]
      /\ out.value["alloc"] \in Nat /\ out.value["alloc"] <= count["alloc"] /\ count["alloc"] \in Nat
  <2>1. out.value["alloc"] \in Nat /\ out.value["alloc"] <= count["alloc"] /\ count["alloc"] \in Nat
    BY <1>0, CounterNames DEF TypeOK, OutExact
  <2> QED BY <1>4, <2>1 DEF LiveOf
<1>8. /\ out' \in [quiet : BOOLEAN, reserved : Nat, cached : Nat, value : [Counters -> Nat], live : Nat]
      /\ (out'.quiet <=> out.quiet) /\ out'.reserved = out.reserved /\ out'.cached = out.cached
      /\ out'.value[c] = v /\ \A d \in Counters : d # c => out'.value[d] = out.value[d]
      /\ out'.live = IF c = "free" THEN LiveOf(out.value["alloc"], v) ELSE out.live
  <2>1. out \in [quiet : BOOLEAN, reserved : Nat, cached : Nat, value : [Counters -> Nat], live : Nat]
    BY <1>0 DEF TypeOK
  <2> QED BY <1>0, <1>1, <1>4, <1>7, <2>1
<1>9. TypeOK'
  BY <1>0, <1>2, <1>5, <1>6, <1>8 DEF TypeOK
<1>10. Counted'
  <2>1. {call[Main].step, x.step} \subseteq {"idle", "cached", "load", "report"}
    BY <1>0, <1>3
  <2> QED BY <1>0, <1>1, <1>2, <1>3, <1>9, <2>1, AsideCounts DEF Inv
<1>11. ViewsExact'
  <2>1. /\ \A u \in Threads : alive'[u] # "running" => u # Main /\ call'[u] = Idle
        /\ \A u \in Threads : call'[u].step \in Reporting => u = Main
    BY <1>0, <1>1, <1>2, ViewsMove
  <2>2. \A t \in Threads, d \in Counters :
          view[t][d] \in Nat /\ count[d] \in Nat /\ view[t][d] <= count[d]
    BY <1>0, <1>4 DEF ViewsExact
  <2>3. \A t \in Threads, d \in Counters : view'[t][d] <= count'[d]
    <3> TAKE t \in Threads, d \in Counters
    <3>1. CASE t = Main /\ d = c
      BY <1>2, <1>4, <1>6, <3>1
    <3>2. CASE ~ (t = Main /\ d = c)
      BY <1>2, <1>6, <2>2, <3>2
    <3> QED BY <3>1, <3>2
  <2>4. ASSUME NEW d \in Counters PROVE \E t \in Threads : view'[t][d] = count'[d]
    <3>1. PICK t \in Threads : view[t][d] = count[d]
      BY <1>0 DEF ViewsExact
    <3>2. CASE t = Main /\ d = c
      <4>1. v = count[c]
        BY <1>4, <3>1, <3>2
      <4> QED BY <1>2, <1>6, <3>2, <4>1
    <3>3. CASE ~ (t = Main /\ d = c)
      BY <1>2, <1>6, <3>1, <3>3
    <3> QED BY <3>2, <3>3
  <2>5. ASSUME NEW t \in Threads, alive[t] = "joined", NEW d \in Counters
        PROVE  view'[t][d] <= view'[Main][d]
    <3>1. t # Main /\ view'[t] = view[t] /\ view[t][d] <= view[Main][d]
      BY <1>0, <1>6, <2>5 DEF ViewsExact
    <3>2. view[Main][d] <= view'[Main][d] /\ view'[Main][d] \in Nat
      BY <1>0, <1>4, <1>6, <2>2
    <3> QED BY <1>0, <2>2, <3>1, <3>2
  <2> QED BY <1>2, <2>1, <2>3, <2>4, <2>5 DEF ViewsExact, Reporting
<1>12. OutExact'
  <2>1. \A d \in Counters : out'.value[d] <= count'[d]
    BY <1>0, <1>2, <1>4, <1>8 DEF OutExact
  <2>2. out'.live <= count'["alloc"]
    BY <1>0, <1>2, <1>7, <1>8 DEF OutExact, TypeOK
  <2>3. Loaded = i - 1 /\ Loaded' = i
    <3>1. Loaded = i - 1
      BY <1>0 DEF Loaded
    <3>2. Loaded' = i
      BY <1>0, <1>3, <1>5, CounterNames DEF Loaded
    <3> QED BY <3>1, <3>2
  <2>4. ASSUME out.quiet
        PROVE  /\ \A j \in 1 .. i : out'.value[LoadOrder[j]] = count'[LoadOrder[j]]
               /\ i >= 2 => out'.live = LiveOf(count'["alloc"], count'["free"])
    <3>1. /\ \A t \in Threads \ {Main} : alive[t] = "joined"
          /\ \A j \in 1 .. (i - 1) : out.value[LoadOrder[j]] = count[LoadOrder[j]]
          /\ (i - 1 >= 2 => out.live = LiveOf(count["alloc"], count["free"]))
      BY <1>0, <2>3, <2>4 DEF OutExact
    <3>2. v = count[c]
      <4>1. view[Main][c] = count[c]
        BY <1>0, <3>1, AllSeen
      <4> QED BY <1>4, <4>1
    <3>3. ASSUME NEW j \in 1 .. i PROVE out'.value[LoadOrder[j]] = count'[LoadOrder[j]]
      <4>1. CASE j = i
        BY <1>2, <1>8, <3>2, <4>1
      <4>2. CASE j # i
        <5>1. j \in 1 .. (i - 1) /\ j \in 1 .. 8
          BY <1>0, <3>3, <4>2
        <5>2. LoadOrder[j] # c /\ LoadOrder[j] \in Counters
          BY <1>0, <4>2, <5>1, CounterNames
        <5> QED BY <1>2, <1>8, <3>1, <5>1, <5>2
      <4> QED BY <4>1, <4>2
    <3>4. ASSUME i >= 2 PROVE out'.live = LiveOf(count'["alloc"], count'["free"])
      <4>1. CASE i = 2
        <5>1. c = "free" /\ 1 \in 1 .. (i - 1) /\ LoadOrder[1] = "alloc"
          BY <1>0, <4>1, CounterNames
        <5>2. out.value["alloc"] = count["alloc"]
          BY <3>1, <5>1
        <5> QED BY <1>2, <1>8, <3>2, <5>1, <5>2
      <4>2. CASE i # 2
        <5>1. i - 1 >= 2 /\ c # "free"
          BY <1>0, <3>4, <4>2
        <5> QED BY <1>2, <1>8, <3>1, <5>1
      <4> QED BY <4>1, <4>2
    <3> QED BY <3>3, <3>4
  <2>5. out.quiet => /\ out.cached = pages.cached /\ out.reserved = pages.reserved
                     /\ \A t \in Threads \ {Main} : alive[t] = "joined"
    BY <1>0 DEF OutExact
  <2>6. call'[Main].step \in {"cached", "load", "report"}
    BY <1>3, <1>5
  <2> QED BY <1>2, <1>8, <2>1, <2>2, <2>3, <2>4, <2>5, <2>6 DEF OutExact
<1> QED BY <1>10, <1>11, <1>12 DEF Inv


-----------------------------------------------------------------------------
(* Nothing is counted, given out or under way at first.                    *)
LEMMA InvInitially == Init => Inv
<1> SUFFICES ASSUME Init PROVE Inv
  OBVIOUS
<1>1. /\ count = [c \in Counters |-> 0] /\ view = [t \in Threads |-> [c \in Counters |-> 0]]
      /\ list = [t \in Threads |-> 0] /\ pages = [reserved |-> 0, cached |-> 0]
      /\ taken = [k \in Kinds |-> 0] /\ held = [k \in Kinds |-> 0]
      /\ call = [t \in Threads |-> Idle] /\ alive = [t \in Threads |-> "running"]
      /\ out = NewOut /\ calls = 0
  BY DEF Init
<1>2. /\ Main \in Threads /\ Idle \in CallRecord /\ Idle.step = "idle"
      /\ \A t \in Threads : call[t] = Idle /\ call[t].step = "idle" /\ list[t] = 0
      /\ \A c \in Counters : count[c] = 0
  BY <1>1, StatsAssumption DEF StatsAssumption, CallRecord, Idle
<1>3. TypeOK
  BY <1>1, <1>2, NewOutType DEF TypeOK
<1>4. ASSUME NEW S, "idle" \notin S PROVE At(S) = 0
  <2> DEFINE f == [t \in Threads |-> IF call[t].step \in S THEN 1 ELSE 0]
  <2>1. f \in [Threads -> Nat] /\ \A t \in Threads : f[t] = 0
    BY <1>2, <1>4
  <2>2. At(S) = SumOf(f)
    BY DEF At
  <2> HIDE DEF f
  <2> QED BY <2>1, <2>2, SumZero
<1>5. ASSUME NEW k PROVE GrantedOf(k) = 0
  <2> DEFINE f == [t \in Threads |-> IF call[t].step \in Granting /\ call[t].kind = k THEN 1 ELSE 0]
  <2>1. f \in [Threads -> Nat] /\ \A t \in Threads : f[t] = 0
    BY <1>2 DEF Granting
  <2>2. GrantedOf(k) = SumOf(f)
    BY DEF GrantedOf
  <2> HIDE DEF f
  <2> QED BY <2>1, <2>2, SumZero
<1>6. SumOf([t \in Threads |-> Known(t)]) = 0
  <2> DEFINE f == [t \in Threads |-> Known(t)]
  <2>1. f \in [Threads -> Nat] /\ \A t \in Threads : f[t] = 0
    BY <1>2 DEF Known
  <2> HIDE DEF f
  <2>2. SumOf(f) = 0
    BY <2>1, SumZero
  <2> QED BY <2>2 DEF f
<1>7. /\ At(Granting) = 0 /\ At({"refill", "alloc"}) = 0 /\ At({"flush", "free"}) = 0
      /\ At({"kind"}) = 0 /\ At({"how"}) = 0 /\ At({"refill"}) = 0
  BY <1>4 DEF Granting
<1>8. /\ taken["small"] = 0 /\ taken["large"] = 0 /\ taken["aligned"] = 0
      /\ Total(taken) = 0 /\ Total(held) = 0 /\ \A k \in Kinds : taken[k] = 0 /\ held[k] = 0
  BY <1>1 DEF Kinds, Total
<1>9. TakenExact /\ PagesExact
  BY <1>1, <1>5, <1>7, <1>8 DEF TakenExact, PagesExact
<1>10. CountsExact
  BY <1>2, <1>7, <1>8, CounterNames DEF CountsExact
<1>11. CallsExact
  BY <1>2 DEF CallsExact
<1>12. FlowExact
  BY <1>2, <1>6, <1>7, <1>8, CounterNames DEF FlowExact, Accounted, Fetched
<1>13. ViewsExact
  BY <1>1, <1>2 DEF ViewsExact
<1>14. OutExact
  <2>1. \A c \in Counters : out.value[c] = 0
    BY <1>1, NewOutType
  <2>2. ~ out.quiet /\ out.live = 0 /\ count["alloc"] = 0
    BY <1>1, <1>2, NewOutType, CounterNames
  <2> QED BY <1>2, <2>1, <2>2 DEF OutExact
<1> QED BY <1>3, <1>9, <1>10, <1>11, <1>12, <1>13, <1>14 DEF Inv, Counted

(* Every step keeps the counters in line.                                  *)
LEMMA InvInductive == Inv /\ [Next]_vars => Inv'
<1> SUFFICES ASSUME Inv, [Next]_vars PROVE Inv'
  OBVIOUS
<1>0. Counted /\ TypeOK
  BY DEF Inv, Counted
<1>1. ASSUME NEW t \in Threads, NEW k \in Kinds, NEW b \in BOOLEAN, allocate(t, k, b)
      PROVE  Inv'
  BY <1>0, <1>1, AllocateCounts, CallsPass, PassKeeps
<1>2. ASSUME NEW t \in Threads, NEW k \in Kinds, NEW b \in BOOLEAN, deallocate(t, k, b)
      PROVE  Inv'
  BY <1>0, <1>2, DeallocateCounts, CallsPass, PassKeeps
<1>3. ASSUME NEW t \in Threads, return(t) PROVE Inv'
  <2>1. "small" \in Kinds /\ TRUE \in BOOLEAN
    BY DEF Kinds
  <2>2. Passes(t)
    BY <1>3, <2>1, CallsPass
  <2> QED BY <1>0, <1>3, <2>2, ReturnCounts, PassKeeps
<1>4. ASSUME NEW t \in Threads,
             recordCentralRefill(t) \/ recordAllocation(t) \/ recordCentralFlush(t) \/ recordFree(t)
      PROVE  Inv'
  <2>1. Adds(t)
    BY <1>0, <1>4, RecordsAdd
  <2>2. Counted'
    BY <1>0, <1>4, RefillCounts, AllocationCounts, FlushCounts, FreeCounts
  <2> QED BY <2>1, <2>2, AddKeeps
<1>5. ASSUME NEW t \in Threads, exit(t) \/ join(t) PROVE Inv'
  BY <1>5, ExitKeeps, JoinKeeps
<1>6. ASSUME stats \/ loadCached \/ load \/ report PROVE Inv'
  BY <1>6, StatsKeeps, LoadCachedKeeps, LoadKeeps, ReportKeeps
<1>7. CASE UNCHANGED vars
  <2>1. /\ TypeOK' /\ PagesExact' /\ CallsExact' /\ ViewsExact' /\ OutExact'
    BY <1>7 DEF vars, Inv, Counted, TypeOK, PagesExact, CallsExact, ViewsExact, OutExact, Loaded
  <2>2. TakenExact' /\ CountsExact' /\ FlowExact'
    BY <1>7 DEF vars, Inv, Counted, TakenExact, CountsExact, FlowExact, Accounted, Fetched, Known,
                At, GrantedOf, Total
  <2> QED BY <2>1, <2>2 DEF Inv, Counted
<1> QED BY <1>1, <1>2, <1>3, <1>4, <1>5, <1>6, <1>7 DEF Next

(* The counters are those of what the program and the pool have done, and  *)
(* what stats() has loaded so far fits them.                               *)
THEOREM InvHolds == Spec => []Inv
BY InvInitially, InvInductive, PTL DEF Spec

-----------------------------------------------------------------------------
(* Blocks fetched from the central cache and not flushed to it are those   *)
(* on the lists and those given out, and none is flushed before it has     *)
(* been fetched.                                                           *)
LEMMA FlowFollows == Inv => CentralFlow
<1> SUFFICES ASSUME Inv PROVE CentralFlow
  OBVIOUS
<1>1. /\ TypeOK /\ Accounted <= Fetched
      /\ (\A t \in Threads : alive[t] = "running") => Accounted = Fetched
      /\ taken["small"] = held["small"] + GrantedOf("small")
  BY DEF Inv, Counted, FlowExact, TakenExact, Kinds
<1> DEFINE refills == [t \in Threads |-> IF call[t].step \in {"refill"} THEN 1 ELSE 0]
           granted == [t \in Threads |-> IF call[t].step \in Granting /\ call[t].kind = "small" THEN 1 ELSE 0]
           known   == [t \in Threads |-> Known(t)]
<1>2. refills \in [Threads -> Nat] /\ granted \in [Threads -> Nat]
  OBVIOUS
<1>3. \A t \in Threads : refills[t] <= granted[t]
  BY DEF Inv, Counted, CallsExact, Granting
<1>4. known \in [Threads -> Nat]
  <2> SUFFICES ASSUME NEW t \in Threads PROVE Known(t) \in Nat
    OBVIOUS
  <2>1. call[t] \in CallRecord /\ list[t] \in Nat
    BY <1>1 DEF TypeOK
  <2>2. call[t].step = "flush" => call[t].size \in Nat
    BY <2>1, CallParts DEF Leaving
  <2> QED BY <2>1, <2>2 DEF Known
<1>5. /\ At({"refill"}) = SumOf(refills) /\ GrantedOf("small") = SumOf(granted)
      /\ Accounted = count["flush"] + taken["small"] + SumOf(known)
      /\ Fetched = count["refill"] + At({"refill"})
  BY DEF At, GrantedOf, Accounted, Fetched
<1>6. /\ (AllIdle => \A t \in Threads : refills[t] = 0)
      /\ (AllIdle => known = list)
  BY <1>1 DEF AllIdle, Idle, Known, TypeOK
<1> HIDE DEF refills, granted, known
<1>7. /\ SumOf(refills) \in Nat /\ SumOf(known) \in Nat /\ SumOf(granted) \in Nat
      /\ SumOf(refills) <= SumOf(granted)
  BY <1>2, <1>3, <1>4, SumBelow, CellsFinite
<1>8. /\ count["flush"] \in Nat /\ count["refill"] \in Nat /\ taken["small"] \in Nat
      /\ held["small"] \in Nat
  BY <1>1, CounterNames DEF TypeOK, Kinds
<1>9. count["flush"] <= count["refill"]
  BY <1>1, <1>5, <1>7, <1>8
<1>10. ASSUME AllIdle, \A t \in Threads : alive[t] = "running"
       PROVE  count["refill"] = count["flush"] + taken["small"] + Listed
  <2>1. SumOf(refills) = 0 /\ SumOf(known) = Listed
    BY <1>2, <1>6, <1>10, SumZero DEF Listed
  <2>2. Accounted = Fetched
    BY <1>1, <1>10
  <2> QED BY <1>5, <1>7, <1>8, <2>1, <2>2
<1> QED BY <1>9, <1>10 DEF CentralFlow

THEOREM CentralFlowCorrect == Spec => []CentralFlow
BY InvHolds, FlowFollows, PTL

(* No free is counted before the allocation it undoes: a block given out   *)
(* and not counted is still being granted.                                 *)
LEMMA LiveFollows == Inv => LiveNeverWraps
<1> SUFFICES ASSUME Inv PROVE LiveNeverWraps
  OBVIOUS
<1>1. /\ TypeOK /\ OutExact /\ Total(taken) = Total(held) + At(Granting)
      /\ count["alloc"] + At({"refill", "alloc"}) = count["free"] + At({"flush", "free"}) + Total(taken)
  BY DEF Inv, Counted, TakenExact, CountsExact
<1> DEFINE uncounted == [t \in Threads |-> IF call[t].step \in {"refill", "alloc"} THEN 1 ELSE 0]
           granting  == [t \in Threads |-> IF call[t].step \in Granting THEN 1 ELSE 0]
           leaving   == [t \in Threads |-> IF call[t].step \in {"flush", "free"} THEN 1 ELSE 0]
<1>2. /\ uncounted \in [Threads -> Nat] /\ granting \in [Threads -> Nat] /\ leaving \in [Threads -> Nat]
      /\ \A t \in Threads : uncounted[t] <= granting[t]
  BY DEF Granting
<1>3. /\ At({"refill", "alloc"}) = SumOf(uncounted) /\ At(Granting) = SumOf(granting)
      /\ At({"flush", "free"}) = SumOf(leaving)
  BY DEF At
<1> HIDE DEF uncounted, granting, leaving
<1>4. /\ SumOf(uncounted) <= SumOf(granting)
      /\ SumOf(uncounted) \in Nat /\ SumOf(granting) \in Nat /\ SumOf(leaving) \in Nat
  BY <1>2, SumBelow, CellsFinite
<1>5. count["alloc"] \in Nat /\ count["free"] \in Nat
  BY <1>1, CounterNames DEF TypeOK
<1>6. Total(held) \in Nat
  BY <1>1 DEF TypeOK, Total, Kinds
<1>7. count["free"] <= count["alloc"]
  BY <1>1, <1>3, <1>4, <1>5, <1>6
<1> QED BY <1>1, <1>7 DEF LiveNeverWraps, OutExact

THEOREM LiveNeverWrapsCorrect == Spec => []LiveNeverWraps
BY InvHolds, LiveFollows, PTL

(* A report made when every other thread has been joined is exact: nothing *)
(* is under way, and the main thread has seen every counter's last value.  *)
LEMMA QuietFollows == Inv => QuiescentExact
<1> SUFFICES ASSUME Inv, out.quiet, call[Main].step = "report"
             PROVE  /\ taken = held
                    /\ out.live = Total(held)
                    /\ out.value["small"] + out.value["large"] = out.value["alloc"]
                    /\ out.value["sized"] + out.value["unsized"] = out.value["free"]
                    /\ out.reserved = out.cached + held["large"] + held["aligned"]
  BY DEF QuiescentExact
<1>1. TypeOK /\ TakenExact /\ PagesExact /\ CountsExact /\ ViewsExact /\ OutExact
  BY DEF Inv, Counted
<1>2. /\ \A t \in Threads \ {Main} : alive[t] = "joined"
      /\ out.reserved = pages.reserved /\ out.cached = pages.cached
      /\ \A i \in 1 .. Loaded : out.value[LoadOrder[i]] = count[LoadOrder[i]]
      /\ Loaded >= 2 => out.live = LiveOf(count["alloc"], count["free"])
  BY <1>1 DEF OutExact
<1>3. \A t \in Threads : call[t].step \in {"idle", "report"}
  <2> TAKE t \in Threads
  <2>1. t # Main => call[t] = Idle
    BY <1>1, <1>2 DEF ViewsExact
  <2> QED BY <2>1 DEF Idle
<1>4. ASSUME NEW S, "idle" \notin S, "report" \notin S PROVE At(S) = 0
  <2> DEFINE f == [t \in Threads |-> IF call[t].step \in S THEN 1 ELSE 0]
  <2>1. f \in [Threads -> Nat] /\ \A t \in Threads : f[t] = 0
    BY <1>3, <1>4
  <2>2. At(S) = SumOf(f)
    BY DEF At
  <2> HIDE DEF f
  <2> QED BY <2>1, <2>2, SumZero
<1>5. ASSUME NEW k PROVE GrantedOf(k) = 0
  <2> DEFINE f == [t \in Threads |-> IF call[t].step \in Granting /\ call[t].kind = k THEN 1 ELSE 0]
  <2>1. f \in [Threads -> Nat] /\ \A t \in Threads : f[t] = 0
    BY <1>3 DEF Granting
  <2>2. GrantedOf(k) = SumOf(f)
    BY DEF GrantedOf
  <2> HIDE DEF f
  <2> QED BY <2>1, <2>2, SumZero
<1>6. /\ At({"refill", "alloc"}) = 0 /\ At({"flush", "free"}) = 0
      /\ At({"kind"}) = 0 /\ At({"how"}) = 0
  BY <1>4
<1>7. taken = held
  <2>1. \A k \in Kinds : taken[k] = held[k]
    BY <1>1, <1>5 DEF TakenExact, TypeOK
  <2> QED BY <1>1, <2>1 DEF TypeOK
<1>8. Loaded = 8
  BY CounterNames DEF Loaded
<1>9. \A c \in Counters : out.value[c] = count[c]
  <2>1. \A c \in Counters : \E i \in 1 .. 8 : c = LoadOrder[i]
    BY CounterNames DEF Counters
  <2> QED BY <1>2, <1>8, <2>1
<1>10. /\ count["alloc"] \in Nat /\ count["free"] \in Nat /\ count["small"] \in Nat /\ count["large"] \in Nat
       /\ count["sized"] \in Nat /\ count["unsized"] \in Nat /\ Total(held) \in Nat
  <2>1. \A c \in Counters : count[c] \in Nat
    BY <1>1 DEF TypeOK
  <2>2. Total(held) \in Nat
    BY <1>1 DEF TypeOK, Total, Kinds
  <2> QED BY <2>1, <2>2, CounterNames
<1>11. /\ count["alloc"] = count["free"] + Total(held)
       /\ count["small"] + count["large"] = count["alloc"]
       /\ count["sized"] + count["unsized"] = count["free"]
  BY <1>1, <1>6, <1>7, <1>10 DEF CountsExact
<1>12. out.live = Total(held)
  BY <1>2, <1>8, <1>10, <1>11 DEF LiveOf
<1>13. /\ out.value["small"] + out.value["large"] = out.value["alloc"]
       /\ out.value["sized"] + out.value["unsized"] = out.value["free"]
  BY <1>9, <1>11, CounterNames
<1> QED BY <1>1, <1>2, <1>7, <1>12, <1>13 DEF PagesExact

THEOREM QuiescentExactCorrect == Spec => []QuiescentExact
BY InvHolds, QuietFollows, PTL
=============================================================================
