-------------------------- MODULE DebugGuardsProofs --------------------------
(***************************************************************************)
(* The guards judge every free rightly, and every block of every span in   *)
(* use is in exactly one place, provided every size the program names is   *)
(* on the right side of MAX_BYTES (~ WrongKind).  The code keeps neither   *)
(* for a program that confuses large and small objects, as a run with      *)
(* WrongKind = TRUE shows.                                                 *)
(***************************************************************************)
EXTENDS DebugGuards, FiniteSetTheorems, TLAPS

Sizes == Classes \cup {Large, NoSize}

CallRecord ==
  {Idle} \cup [step : {"mark"}, ptr : Addresses]
         \cup [step : {"check", "again", "push", "release"}, ptr : Addresses, size : Sizes]

TypeOK ==
  /\ kind \in [Spans -> Classes \cup {Large, Free}]
  /\ marks \in [Spans -> [size : Nat, set : SUBSET Nat]]
  /\ largeOut \in [Spans -> BOOLEAN]
  /\ central \in [Classes -> SUBSET Addresses]
  /\ lists \in [Threads -> [Classes -> SUBSET Addresses]]
  /\ live \subseteq Addresses
  /\ call \in [Threads -> CallRecord]

(* The block at b is one its span was cut into for class c.                *)
BlockOf(b, c) == kind[b[1]] = c /\ b \in BlocksOf(b[1], c)

Taken(t, p) == call[t].step \in {"mark", "push", "release"} /\ call[t].ptr = p

(* What is anywhere is a block of its span, on the lists of its class.     *)
AtHome ==
  /\ \A c \in Classes : \A b \in central[c] : BlockOf(b, c)
  /\ \A t \in Threads, c \in Classes : \A b \in lists[t][c] : BlockOf(b, c)
  /\ \A b \in live : b \in BlocksIn(b[1])

(* What a call has been told of its address still holds.                   *)
CallsExact ==
  \A t \in Threads :
    /\ call[t].step = "mark" => \E c \in Classes : BlockOf(call[t].ptr, c)
    /\ call[t].step = "push" =>
         /\ ListFor(call[t].ptr, call[t].size) \in Classes
         /\ BlockOf(call[t].ptr, ListFor(call[t].ptr, call[t].size))
    /\ call[t].step = "release" =>
         kind[call[t].ptr[1]] = Large /\ call[t].ptr \in BlocksIn(call[t].ptr[1])
    /\ call[t].step = "check" => MayName(call[t].ptr, call[t].size)
    /\ call[t].step # "again"

(* A block is in one place at most.                                        *)
Once ==
  /\ \A p \in live :
       /\ \A c \in Classes : p \notin central[c]
       /\ \A t \in Threads, c \in Classes : p \notin lists[t][c]
       /\ \A t \in Threads : ~ Taken(t, p)
  /\ \A c \in Classes : \A p \in central[c] :
       /\ \A t \in Threads, d \in Classes : p \notin lists[t][d]
       /\ \A t \in Threads : ~ Taken(t, p)
  /\ \A t, u \in Threads, c \in Classes : \A p \in lists[t][c] :
       /\ t # u => p \notin lists[u][c]
       /\ ~ Taken(u, p)
  /\ \A t, u \in Threads, p \in Addresses : Taken(t, p) /\ Taken(u, p) => t = u

(* A block of a span in use is in one place at least.                      *)
Somewhere(p) ==
  \/ p \in live
  \/ \E c \in Classes : p \in central[c]
  \/ \E t \in Threads, c \in Classes : p \in lists[t][c]
  \/ \E t \in Threads : Taken(t, p)

Kept == \A p \in Addresses : p \in BlocksIn(p[1]) => Somewhere(p)

(* The marks are those of the blocks the program holds.                    *)
MarksExact ==
  \A p \in Addresses :
    /\ kind[p[1]] \in Classes =>
         /\ marks[p[1]].size = CountOf(kind[p[1]])
         /\ (Marked(p) <=> p \in live)
    /\ kind[p[1]] = Large /\ p[2] = 0 => (largeOut[p[1]] <=> p \in live)

Inv == TypeOK /\ AtHome /\ CallsExact /\ Once /\ Kept /\ MarksExact

-----------------------------------------------------------------------------
(* Arithmetic of blocks.                                                   *)

(* A multiple is its quotient times the divisor.                           *)
LEMMA ExactQuotient ==
  ASSUME NEW x \in Nat, NEW u \in Nat \ {0}, x % u = 0
  PROVE  x \div u \in Nat /\ x = (x \div u) * u
OBVIOUS

(* The quotient of a multiple is what was multiplied.                      *)
LEMMA QuotientOfProduct ==
  ASSUME NEW i \in Nat, NEW u \in Nat \ {0}
  PROVE  (i * u) % u = 0 /\ (i * u) \div u = i
<1>1. i * u \in Nat
  OBVIOUS
<1>2. PICK q \in Int, r \in 0 .. u - 1 : q = (i * u) \div u /\ r = (i * u) % u /\ i * u = q * u + r
  BY <1>1
<1>3. (i - q) * u = r
  BY <1>2
<1>4. i - q = 0
  <2>1. CASE i - q >= 1
    <3>1. (i - q) * u >= u
      BY <2>1
    <3> QED BY <3>1, <1>2, <1>3
  <2>2. CASE i - q <= -1
    <3>1. (i - q) * u <= -u
      BY <2>2
    <3> QED BY <3>1, <1>2, <1>3
  <2> QED BY <2>1, <2>2, <1>2
<1>5. r = 0
  BY <1>3, <1>4, <1>2
<1> QED BY <1>2, <1>4, <1>5

(* There is room in a span for all its blocks.                             *)
LEMMA LastBlockFits ==
  ASSUME NEW i \in Nat, NEW u \in Nat \ {0}, NEW n \in Nat, i < n \div u
  PROVE  i * u \in 0 .. n - 1
<1>1. n \div u \in Nat /\ (n \div u) * u <= n
  OBVIOUS
<1>2. PICK q \in Nat : q = n \div u
  BY <1>1
<1>3. (i + 1) * u <= q * u
  <2>1. q - (i + 1) \in Nat
    BY <1>2
  <2>2. (q - (i + 1)) * u \in Nat
    BY <2>1
  <2> QED BY <2>2, <1>2
<1>4. (i + 1) * u = i * u + u /\ i * u \in Nat
  OBVIOUS
<1> QED BY <1>1, <1>2, <1>3, <1>4

(* The units of a block and the blocks of a span are numbers.              *)
LEMMA UnitTypes ==
  ASSUME NEW c \in Classes
  PROVE  Unit[c] \in Nat \ {0} /\ CountOf(c) \in Nat /\ CountOf(c) < NoIndex /\ SpanUnits \in Nat \ {0}
<1>1. Unit[c] \in 1 .. SpanUnits /\ SpanUnits \in Nat \ {0}
  BY GuardsAssumption
<1>2. PICK u \in Nat \ {0}, n \in Nat \ {0} : u = Unit[c] /\ n = SpanUnits
  BY <1>1
<1>3. n \div u \in Nat /\ n \div u <= n
  <2>1. n \div u \in Nat /\ (n \div u) * u <= n
    OBVIOUS
  <2>2. (n \div u) <= (n \div u) * u
    BY <2>1
  <2> QED BY <2>1, <2>2
<1> QED BY <1>2, <1>3 DEF CountOf, NoIndex

(* A block is the address with a quotient below the number of blocks.      *)
LEMMA BlockIndex ==
  ASSUME NEW c \in Classes, NEW s \in Spans
  PROVE  /\ BlocksOf(s, c) \subseteq Addresses
         /\ \A b \in Addresses :
              b \in BlocksOf(s, c) <=>
                /\ b[1] = s /\ b[2] % Unit[c] = 0
                /\ b[2] \div Unit[c] < CountOf(c)
<1> DEFINE u == Unit[c]
           n == SpanUnits
<1>1. u \in Nat \ {0} /\ n \in Nat \ {0} /\ CountOf(c) = n \div u /\ CountOf(c) \in Nat
  BY UnitTypes DEF CountOf
<1> HIDE DEF u, n
<1>2. ASSUME NEW b \in BlocksOf(s, c)
      PROVE  /\ b \in Addresses /\ b[1] = s /\ b[2] % u = 0 /\ b[2] \div u < CountOf(c)
  <2>1. PICK i \in 0 .. CountOf(c) - 1 : b = <<s, i * u>>
    BY <1>2 DEF BlocksOf, u
  <2>2. i \in Nat /\ i < n \div u
    BY <1>1, <2>1
  <2>3. i * u \in 0 .. n - 1
    BY <1>1, <2>2, LastBlockFits
  <2>4. (i * u) % u = 0 /\ (i * u) \div u = i
    BY <1>1, <2>2, QuotientOfProduct
  <2> QED BY <1>1, <2>1, <2>2, <2>3, <2>4 DEF Addresses, n
<1>3. ASSUME NEW b \in Addresses, b[1] = s, b[2] % u = 0, b[2] \div u < CountOf(c)
      PROVE  b \in BlocksOf(s, c)
  <2>1. b[2] \in Nat /\ b = <<s, b[2]>>
    BY <1>1, <1>3 DEF Addresses, n
  <2>2. PICK i \in Nat : i = b[2] \div u /\ b[2] = i * u
    BY <1>1, <1>3, <2>1, ExactQuotient
  <2>3. i \in 0 .. CountOf(c) - 1
    BY <1>1, <1>3, <2>2
  <2> QED BY <2>1, <2>2, <2>3 DEF BlocksOf, u
<1> QED BY <1>2, <1>3 DEF u

(* Two blocks of a span have different indices.                            *)
LEMMA IndexApart ==
  ASSUME NEW p \in Addresses, NEW q \in Addresses, NEW c \in Classes, p[1] = q[1],
         p[2] % Unit[c] = 0, q[2] % Unit[c] = 0, p[2] \div Unit[c] = q[2] \div Unit[c]
  PROVE  p = q
<1>1. Unit[c] \in Nat \ {0} /\ SpanUnits \in Nat
  BY UnitTypes
<1>2. p[2] \in Nat /\ q[2] \in Nat /\ p = <<p[1], p[2]>> /\ q = <<q[1], q[2]>>
  BY <1>1 DEF Addresses
<1>3. p[2] = (p[2] \div Unit[c]) * Unit[c] /\ q[2] = (q[2] \div Unit[c]) * Unit[c]
  BY <1>1, <1>2, ExactQuotient
<1> QED BY <1>2, <1>3

(* The three names that are no class are different.                        *)
LEMMA NamesApart ==
  /\ Large # Free /\ Large # NoSize /\ Free # NoSize
  /\ Large \notin Classes /\ Free \notin Classes /\ NoSize \notin Classes
<1>1. ASSUME NEW a, NEW b PROVE Cardinality({a, b}) \in 0 .. 2
  <2>1. IsFiniteSet({a}) /\ Cardinality({a}) = 1
    BY FS_Singleton
  <2>2. {a, b} = {a} \cup {b}
    OBVIOUS
  <2> QED BY <2>1, <2>2, FS_AddElement
<1>2. ASSUME NEW a, NEW b PROVE {Large, Free, NoSize} # {a, b}
  <2>1. Cardinality({Large, Free, NoSize}) = 3
    BY GuardsAssumption
  <2>2. Cardinality({a, b}) # 3
    <3>1. Cardinality({a, b}) \in 0 .. 2
      BY <1>1
    <3> QED BY <3>1
  <2> QED BY <2>1, <2>2
<1>3. Large # Free
  BY <1>2
<1>4. Large # NoSize
  BY <1>2
<1>5. Free # NoSize
  BY <1>2
<1>6. Large \notin Classes /\ Free \notin Classes /\ NoSize \notin Classes
  BY GuardsAssumption
<1> QED BY <1>3, <1>4, <1>5, <1>6

-----------------------------------------------------------------------------
(* What the invariant says.                                                *)

(* An address is its span and an offset.                                   *)
LEMMA AddressParts ==
  ASSUME NEW p \in Addresses
  PROVE  p[1] \in Spans /\ p[2] \in Nat /\ p = <<p[1], p[2]>> /\ p[2] < NoIndex
BY GuardsAssumption DEF Addresses, NoIndex

(* The blocks in use in a span, by its kind.                               *)
LEMMA BlockKinds ==
  ASSUME NEW p \in Addresses
  PROVE  /\ kind[p[1]] = Free => p \notin BlocksIn(p[1])
         /\ kind[p[1]] = Large => (p \in BlocksIn(p[1]) <=> p[2] = 0)
         /\ kind[p[1]] \in Classes => (p \in BlocksIn(p[1]) <=> BlockOf(p, kind[p[1]]))
<1>1. p = <<p[1], p[2]>>
  BY AddressParts
<1>2. CASE kind[p[1]] = Free
  BY <1>2, NamesApart DEF BlocksIn
<1>3. CASE kind[p[1]] = Large
  <2>1. BlocksIn(p[1]) = {<<p[1], 0>>}
    BY <1>3, NamesApart DEF BlocksIn
  <2> QED BY <1>1, <1>3, <2>1, NamesApart
<1>4. CASE kind[p[1]] \in Classes
  <2>1. BlocksIn(p[1]) = BlocksOf(p[1], kind[p[1]])
    BY <1>4, NamesApart DEF BlocksIn
  <2> QED BY <1>4, <2>1, NamesApart DEF BlockOf
<1> QED BY <1>2, <1>3, <1>4

(* The same one step later.                                                *)
LEMMA BlockKindsNext ==
  ASSUME NEW p \in Addresses
  PROVE  /\ kind'[p[1]] = Free => p \notin BlocksIn(p[1])'
         /\ kind'[p[1]] = Large => (p \in BlocksIn(p[1])' <=> p[2] = 0)
         /\ kind'[p[1]] \in Classes => (p \in BlocksIn(p[1])' <=> BlockOf(p, kind[p[1]])')
<1>1. p = <<p[1], p[2]>>
  BY AddressParts
<1>2. CASE kind'[p[1]] = Free
  BY <1>2, NamesApart DEF BlocksIn
<1>3. CASE kind'[p[1]] = Large
  <2>1. BlocksIn(p[1])' = {<<p[1], 0>>}
    BY <1>3, NamesApart DEF BlocksIn
  <2> QED BY <1>1, <1>3, <2>1, NamesApart
<1>4. CASE kind'[p[1]] \in Classes
  <2>1. BlocksIn(p[1])' = BlocksOf(p[1], kind'[p[1]])
    BY <1>4, NamesApart DEF BlocksIn
  <2> QED BY <1>4, <2>1, NamesApart DEF BlockOf
<1> QED BY <1>2, <1>3, <1>4

(* A span has one kind.                                                    *)
LEMMA KindOf ==
  ASSUME TypeOK, NEW s \in Spans
  PROVE  kind[s] \in Classes \/ kind[s] = Large \/ kind[s] = Free
BY DEF TypeOK

(* A call is idle or has an address, and a size if it is a free.           *)
LEMMA CallParts ==
  ASSUME TypeOK, NEW t \in Threads
  PROVE  /\ call[t] = Idle <=> call[t].step = "idle"
         /\ call[t].step # "idle" => call[t].ptr \in Addresses
         /\ call[t].step \in {"check", "again", "push", "release"} => call[t].size \in Sizes
         /\ call[t].step \in {"idle", "mark", "check", "again", "push", "release"}
BY DEF TypeOK, CallRecord, Idle

(* A block a call has taken is in a span in use.                           *)
LEMMA TakenInUse ==
  ASSUME TypeOK, CallsExact, NEW t \in Threads, NEW p, Taken(t, p)
  PROVE  p \in Addresses /\ p \in BlocksIn(p[1]) /\ kind[p[1]] # Free
<1>1. p \in Addresses /\ call[t].ptr = p
  BY CallParts DEF Taken
<1>2. CASE call[t].step = "mark"
  <2>1. PICK c \in Classes : BlockOf(p, c)
    BY <1>1, <1>2 DEF CallsExact
  <2> QED BY <1>1, <2>1, BlockKinds, NamesApart DEF BlockOf
<1>3. CASE call[t].step = "push"
  <2>1. PICK c \in Classes : BlockOf(p, c)
    BY <1>1, <1>3 DEF CallsExact
  <2> QED BY <1>1, <2>1, BlockKinds, NamesApart DEF BlockOf
<1>4. CASE call[t].step = "release"
  BY <1>1, <1>4, NamesApart DEF CallsExact
<1> QED BY <1>2, <1>3, <1>4 DEF Taken

(* What is anywhere is in a span in use.                                   *)
LEMMA InUse ==
  ASSUME TypeOK, AtHome, CallsExact, NEW p \in Addresses, Somewhere(p)
  PROVE  p \in BlocksIn(p[1]) /\ kind[p[1]] # Free
<1>1. CASE p \in live
  <2>1. p \in BlocksIn(p[1])
    BY <1>1 DEF AtHome
  <2> QED BY <2>1, BlockKinds
<1>2. CASE \E c \in Classes : p \in central[c]
  <2>1. PICK c \in Classes : BlockOf(p, c)
    BY <1>2 DEF AtHome
  <2> QED BY <2>1, BlockKinds, NamesApart DEF BlockOf
<1>3. CASE \E t \in Threads, c \in Classes : p \in lists[t][c]
  <2>1. PICK c \in Classes : BlockOf(p, c)
    BY <1>3 DEF AtHome
  <2> QED BY <2>1, BlockKinds, NamesApart DEF BlockOf
<1>4. CASE \E t \in Threads : Taken(t, p)
  BY <1>4, TakenInUse
<1> QED BY <1>1, <1>2, <1>3, <1>4 DEF Somewhere

(* The block at p is marked only if its offset is a multiple of the unit   *)
(* and its index that of a block.                                          *)
LEMMA MarkedIsBlock ==
  ASSUME TypeOK, MarksExact, NEW p \in Addresses, kind[p[1]] \in Classes, Marked(p)
  PROVE  p \in live /\ p[2] % Unit[kind[p[1]]] = 0 /\ debugBlockIndex(p) = p[2] \div Unit[kind[p[1]]]
<1>1. p \in live /\ marks[p[1]].size = CountOf(kind[p[1]])
  BY DEF MarksExact
<1>2. debugBlockIndex(p) # NoIndex
  <2>1. CountOf(kind[p[1]]) \in Nat /\ CountOf(kind[p[1]]) < NoIndex /\ NoIndex \in Nat
    BY UnitTypes, GuardsAssumption DEF NoIndex
  <2> QED BY <1>1, <2>1 DEF Marked
<1> QED BY <1>1, <1>2 DEF debugBlockIndex

-----------------------------------------------------------------------------
(* The judgement, and where a free goes that has passed it.                *)

(* The check lets a free through if the program holds the block and names  *)
(* no other size.                                                          *)
LEMMA Judged ==
  ASSUME ~ WrongKind, TypeOK, AtHome, MarksExact,
         NEW p \in Addresses, NEW e \in Sizes, MayName(p, e)
  PROVE  Validated(p, e) <=> p \in live /\ RightSize(p, e)
<1>1. p[1] \in Spans
  BY AddressParts
<1>2. CASE kind[p[1]] = Large
  <2>1. Validated(p, e) = (p[2] = 0 /\ largeOut[p[1]])
    BY <1>2, NamesApart DEF Validated
  <2>2. p \in live => p[2] = 0
    BY <1>2, BlockKinds DEF AtHome
  <2>3. p[2] = 0 => (largeOut[p[1]] <=> p \in live)
    BY <1>2 DEF MarksExact
  <2>4. RightSize(p, e)
    BY <1>2, NamesApart DEF MayName, RightSize
  <2> QED BY <2>1, <2>2, <2>3, <2>4
<1>3. CASE kind[p[1]] = Free
  <2>1. ~ Validated(p, e)
    BY <1>3, NamesApart DEF Validated
  <2>2. p \notin live
    BY <1>3, BlockKinds DEF AtHome
  <2> QED BY <2>1, <2>2
<1>4. CASE kind[p[1]] \in Classes
  <2>1. Validated(p, e) <=> e \in {NoSize, Large, kind[p[1]]} /\ Marked(p)
    BY <1>4, NamesApart DEF Validated
  <2>2. e # Large
    BY <1>4, NamesApart DEF MayName
  <2>3. Marked(p) <=> p \in live
    BY <1>4 DEF MarksExact
  <2> QED BY <2>1, <2>2, <2>3 DEF RightSize
<1> QED BY <1>1, <1>2, <1>3, <1>4, KindOf

(* A free that passes is pushed on the list of its class or releases its   *)
(* large span; it is not checked again.                                    *)
LEMMA Passed ==
  ASSUME ~ WrongKind, TypeOK, AtHome, MarksExact,
         NEW p \in Addresses, NEW e \in Sizes, MayName(p, e), Validated(p, e)
  PROVE  /\ p \in live /\ p \in BlocksIn(p[1])
         /\ \/ /\ AfterCheck(p, e) = "push"
               /\ kind[p[1]] \in Classes /\ ListFor(p, e) = kind[p[1]]
            \/ /\ AfterCheck(p, e) = "release"
               /\ kind[p[1]] = Large
<1>1. p \in live /\ RightSize(p, e)
  BY Judged
<1>2. p \in BlocksIn(p[1]) /\ kind[p[1]] # Free /\ p[1] \in Spans
  BY <1>1, BlockKinds, AddressParts DEF AtHome
<1>3. CASE kind[p[1]] = Large
  <2>1. e \notin Classes
    BY <1>1, <1>3, NamesApart DEF RightSize
  <2> QED BY <1>1, <1>2, <1>3, <2>1 DEF AfterCheck
<1>4. CASE kind[p[1]] \in Classes
  <2>1. e \in Classes => e = kind[p[1]]
    BY <1>1, NamesApart DEF RightSize
  <2>2. e # Large
    BY <1>1, <1>4, NamesApart DEF RightSize
  <2>3. AfterCheck(p, e) = "push"
    BY <1>4, <2>1, <2>2, NamesApart DEF AfterCheck
  <2> QED BY <1>1, <1>2, <1>4, <2>1, <2>3 DEF ListFor
<1> QED BY <1>2, <1>3, <1>4, KindOf

-----------------------------------------------------------------------------
(* Allocation.                                                             *)

(* A block is taken from the blocks of a class, which are shared out anew  *)
(* between the central cache and the thread's list.                        *)
LEMMA TakenFrom ==
  ASSUME Inv, NEW t \in Threads, NEW c \in Classes, call[t] = Idle,
         NEW b \in central[c] \cup lists[t][c], NEW C, NEW L,
         C \cup L \cup {b} = central[c] \cup lists[t][c], C \cap L = {}, b \notin C, b \notin L,
         central' = [central EXCEPT ![c] = C],
         lists' = [lists EXCEPT ![t][c] = L],
         call' = [call EXCEPT ![t] = [step |-> "mark", ptr |-> b]],
         UNCHANGED <<kind, marks, largeOut, live>>
  PROVE  Inv'
<1> DEFINE pool == central[c] \cup lists[t][c]
<1>1. /\ \A d \in Classes : central'[d] = IF d = c THEN C ELSE central[d]
      /\ \A u \in Threads, d \in Classes : lists'[u][d] = IF u = t /\ d = c THEN L ELSE lists[u][d]
      /\ \A u \in Threads : call'[u] = IF u = t THEN [step |-> "mark", ptr |-> b] ELSE call[u]
  BY DEF Inv, TypeOK
<1>2. pool \subseteq Addresses /\ \A p \in pool : BlockOf(p, c)
  BY DEF Inv, TypeOK, AtHome
<1>3. C \subseteq pool /\ L \subseteq pool /\ b \in pool
  OBVIOUS
<1>4. TypeOK'
  <2>1. [step |-> "mark", ptr |-> b] \in CallRecord
    BY <1>2, <1>3 DEF CallRecord
  <2> QED BY <1>2, <1>3, <2>1 DEF Inv, TypeOK
<1>5. \A p : \A d \in Classes : BlockOf(p, d)' <=> BlockOf(p, d)
  BY DEF BlockOf
<1>6. \A s : BlocksIn(s)' = BlocksIn(s)
  BY DEF BlocksIn
<1>7. AtHome'
  <2>1. \A d \in Classes : \A p \in central'[d] : BlockOf(p, d)
    BY <1>1, <1>2, <1>3 DEF Inv, AtHome
  <2>2. \A u \in Threads, d \in Classes : \A p \in lists'[u][d] : BlockOf(p, d)
    BY <1>1, <1>2, <1>3 DEF Inv, AtHome
  <2> QED BY <1>5, <1>6, <2>1, <2>2 DEF Inv, AtHome
<1>8. CallsExact'
  <2> SUFFICES ASSUME NEW u \in Threads
               PROVE  /\ call'[u].step = "mark" => \E d \in Classes : BlockOf(call'[u].ptr, d)
                      /\ call'[u].step = "push" =>
                           /\ ListFor(call[u].ptr, call[u].size)' \in Classes
                           /\ BlockOf(call'[u].ptr, ListFor(call[u].ptr, call[u].size)')
                      /\ call'[u].step = "release" =>
                           kind[call'[u].ptr[1]] = Large /\ call'[u].ptr \in BlocksIn(call'[u].ptr[1])
                      /\ call'[u].step = "check" => MayName(call[u].ptr, call[u].size)'
                      /\ call'[u].step # "again"
    BY <1>5, <1>6 DEF CallsExact
  <2>1. CASE u = t
    BY <1>1, <1>2, <1>3, <2>1
  <2>2. CASE u # t
    <3>1. call'[u] = call[u]
      BY <1>1, <2>2
    <3> QED BY <3>1 DEF Inv, CallsExact, ListFor, MayName
  <2> QED BY <2>1, <2>2
<1>9. /\ ~ Taken(t, b)
      /\ \A p : Taken(t, p)' <=> p = b
      /\ \A u \in Threads \ {t} : \A p : Taken(u, p)' <=> Taken(u, p)
      /\ \A p : ~ Taken(t, p)
  BY <1>1 DEF Taken, Idle
<1>10. \A p \in pool : \A d \in Classes \ {c} : p \notin central[d] /\ \A u \in Threads : p \notin lists[u][d]
  BY <1>2 DEF Inv, AtHome, BlockOf
<1>11. Once'
  <2>1. \A p \in live :
          /\ \A d \in Classes : p \notin central'[d]
          /\ \A u \in Threads, d \in Classes : p \notin lists'[u][d]
          /\ \A u \in Threads : ~ Taken(u, p)'
    BY <1>1, <1>3, <1>9 DEF Inv, Once
  <2>2. \A d \in Classes : \A p \in central'[d] :
          /\ \A u \in Threads, e \in Classes : p \notin lists'[u][e]
          /\ \A u \in Threads : ~ Taken(u, p)'
    BY <1>1, <1>3, <1>9, <1>10 DEF Inv, Once
  <2>3. \A u, w \in Threads, d \in Classes : \A p \in lists'[u][d] :
          /\ u # w => p \notin lists'[w][d]
          /\ ~ Taken(w, p)'
    BY <1>1, <1>3, <1>9, <1>10 DEF Inv, Once
  <2>4. \A u, w \in Threads, p \in Addresses : Taken(u, p)' /\ Taken(w, p)' => u = w
    BY <1>1, <1>3, <1>9, <1>10 DEF Inv, Once
  <2> QED BY <2>1, <2>2, <2>3, <2>4 DEF Once
<1>12. Kept'
  <2> SUFFICES ASSUME NEW p \in Addresses, p \in BlocksIn(p[1]) PROVE Somewhere(p)'
    BY <1>6 DEF Kept
  <2>1. Somewhere(p)
    BY DEF Inv, Kept
  <2> QED BY <1>1, <1>9, <2>1 DEF Somewhere
<1>13. MarksExact'
  BY DEF Inv, MarksExact, Marked, debugBlockIndex, CountOf
<1> QED BY <1>4, <1>7, <1>8, <1>11, <1>12, <1>13 DEF Inv

(* A span that is not in use has no block anywhere, and no free has been   *)
(* told of it.                                                             *)
LEMMA NothingThere ==
  ASSUME Inv, NEW s \in Spans, kind[s] = Free, ~ Inspected(s)
  PROVE  /\ \A p \in Addresses : p[1] = s => ~ Somewhere(p)
         /\ \A t \in Threads : call[t].step # "idle" => call[t].ptr[1] # s
<1>1. ASSUME NEW p \in Addresses, p[1] = s PROVE ~ Somewhere(p)
  BY <1>1, InUse DEF Inv
<1>2. ASSUME NEW t \in Threads, call[t].step # "idle" PROVE call[t].ptr[1] # s
  <2>1. CASE call[t].step \in {"mark", "push", "release"}
    BY <2>1, TakenInUse DEF Taken, Inv
  <2>2. CASE call[t].step \in {"check", "again"}
    BY <2>2 DEF Inspected
  <2> QED BY <1>2, <2>1, <2>2, CallParts DEF Inv
<1> QED BY <1>1, <1>2

(* A span is cut into blocks of a class for a thread that has none.        *)
LEMMA CutFrom ==
  ASSUME Inv, NEW t \in Threads, NEW c \in Classes, call[t] = Idle,
         central[c] = {}, lists[t][c] = {},
         NEW s \in Spans, kind[s] = Free, ~ Inspected(s),
         NEW b \in BlocksOf(s, c), NEW C, NEW L,
         C \cup L \cup {b} = BlocksOf(s, c), C \cap L = {}, b \notin C, b \notin L,
         kind' = [kind EXCEPT ![s] = c],
         marks' = [marks EXCEPT ![s] = FreshMap(c)],
         central' = [central EXCEPT ![c] = C],
         lists' = [lists EXCEPT ![t][c] = L],
         call' = [call EXCEPT ![t] = [step |-> "mark", ptr |-> b]],
         UNCHANGED <<largeOut, live>>
  PROVE  Inv'
<1> DEFINE pool == BlocksOf(s, c)
<1>1. /\ \A d \in Classes : central'[d] = IF d = c THEN C ELSE central[d]
      /\ \A u \in Threads, d \in Classes : lists'[u][d] = IF u = t /\ d = c THEN L ELSE lists[u][d]
      /\ \A u \in Threads : call'[u] = IF u = t THEN [step |-> "mark", ptr |-> b] ELSE call[u]
      /\ \A r \in Spans : kind'[r] = IF r = s THEN c ELSE kind[r]
      /\ \A r \in Spans : marks'[r] = IF r = s THEN FreshMap(c) ELSE marks[r]
  BY DEF Inv, TypeOK
<1>2. /\ pool \subseteq Addresses
      /\ \A p \in pool : p[1] = s /\ p[2] % Unit[c] = 0 /\ p[2] \div Unit[c] < CountOf(c)
  BY BlockIndex
<1>3. C \subseteq pool /\ L \subseteq pool /\ b \in pool
  OBVIOUS
<1>4. \A p \in Addresses : p[1] = s => ~ Somewhere(p)
  BY NothingThere
<1>5. \A p \in pool : BlockOf(p, c)'
  BY <1>1, <1>2 DEF BlockOf
<1>6. \A p \in Addresses : p[1] # s =>
        /\ \A d : BlockOf(p, d)' <=> BlockOf(p, d)
        /\ BlocksIn(p[1])' = BlocksIn(p[1])
  BY <1>1, AddressParts DEF BlockOf, BlocksIn
<1>7. TypeOK'
  <2>1. [step |-> "mark", ptr |-> b] \in CallRecord
    BY <1>2, <1>3 DEF CallRecord
  <2>2. FreshMap(c) \in [size : Nat, set : SUBSET Nat]
    BY UnitTypes DEF FreshMap
  <2> QED BY <1>2, <1>3, <2>1, <2>2 DEF Inv, TypeOK
<1>8. AtHome'
  <2>1. ASSUME NEW d \in Classes, NEW p \in central'[d] PROVE BlockOf(p, d)'
    <3>1. CASE d = c
      BY <1>1, <1>3, <1>5, <2>1, <3>1
    <3>2. CASE d # c
      <4>1. p \in central[d] /\ p \in Addresses
        BY <1>1, <2>1, <3>2 DEF Inv, TypeOK
      <4> QED BY <1>4, <1>6, <4>1 DEF Somewhere, Inv, AtHome
    <3> QED BY <3>1, <3>2
  <2>2. ASSUME NEW u \in Threads, NEW d \in Classes, NEW p \in lists'[u][d] PROVE BlockOf(p, d)'
    <3>1. CASE u = t /\ d = c
      BY <1>1, <1>3, <1>5, <2>2, <3>1
    <3>2. CASE ~ (u = t /\ d = c)
      <4>1. p \in lists[u][d] /\ p \in Addresses
        BY <1>1, <2>2, <3>2 DEF Inv, TypeOK
      <4> QED BY <1>4, <1>6, <4>1 DEF Somewhere, Inv, AtHome
    <3> QED BY <3>1, <3>2
  <2>3. ASSUME NEW p \in live PROVE p \in BlocksIn(p[1])'
    BY <1>4, <1>6, <2>3 DEF Somewhere, Inv, AtHome, TypeOK
  <2> QED BY <2>1, <2>2, <2>3 DEF AtHome
<1>9. CallsExact'
  <2> SUFFICES ASSUME NEW u \in Threads
               PROVE  /\ call'[u].step = "mark" => \E d \in Classes : BlockOf(call[u].ptr, d)'
                      /\ call'[u].step = "push" =>
                           /\ ListFor(call[u].ptr, call[u].size)' \in Classes
                           /\ BlockOf(call[u].ptr, ListFor(call[u].ptr, call[u].size))'
                      /\ call'[u].step = "release" =>
                           kind'[call'[u].ptr[1]] = Large /\ call'[u].ptr \in BlocksIn(call[u].ptr[1])'
                      /\ call'[u].step = "check" => MayName(call[u].ptr, call[u].size)'
                      /\ call'[u].step # "again"
    BY DEF CallsExact
  <2>1. CASE u = t
    BY <1>1, <1>5, <2>1
  <2>2. CASE u # t /\ call[u].step # "idle"
    <3>1. call'[u] = call[u] /\ call[u].ptr \in Addresses /\ call[u].ptr[1] # s
      BY <1>1, <2>2, NothingThere, CallParts DEF Inv
    <3>2. kind'[call[u].ptr[1]] = kind[call[u].ptr[1]]
      BY <1>1, <3>1, AddressParts
    <3> QED BY <1>6, <3>1, <3>2 DEF Inv, CallsExact, ListFor, MayName
  <2>3. CASE u # t /\ call[u].step = "idle"
    BY <1>1, <2>3
  <2> QED BY <2>1, <2>2, <2>3
<1>10. /\ \A p : Taken(t, p)' <=> p = b
       /\ \A u \in Threads \ {t} : \A p : Taken(u, p)' <=> Taken(u, p)
       /\ \A p : ~ Taken(t, p)
  BY <1>1 DEF Taken, Idle
<1>11. \A p \in pool :
         /\ p \notin live
         /\ \A d \in Classes : p \notin central[d]
         /\ \A u \in Threads, d \in Classes : p \notin lists[u][d]
         /\ \A u \in Threads : ~ Taken(u, p)
  BY <1>2, <1>4 DEF Somewhere
<1>12. Once'
  <2>1. \A p \in live :
          /\ \A d \in Classes : p \notin central'[d]
          /\ \A u \in Threads, d \in Classes : p \notin lists'[u][d]
          /\ \A u \in Threads : ~ Taken(u, p)'
    BY <1>1, <1>3, <1>10, <1>11 DEF Inv, Once
  <2>2. \A d \in Classes : \A p \in central'[d] :
          /\ \A u \in Threads, e \in Classes : p \notin lists'[u][e]
          /\ \A u \in Threads : ~ Taken(u, p)'
    BY <1>1, <1>3, <1>10, <1>11 DEF Inv, Once
  <2>3. \A u, w \in Threads, d \in Classes : \A p \in lists'[u][d] :
          /\ u # w => p \notin lists'[w][d]
          /\ ~ Taken(w, p)'
    BY <1>1, <1>3, <1>10, <1>11 DEF Inv, Once
  <2>4. \A u, w \in Threads, p \in Addresses : Taken(u, p)' /\ Taken(w, p)' => u = w
    BY <1>1, <1>3, <1>10, <1>11 DEF Inv, Once
  <2> QED BY <2>1, <2>2, <2>3, <2>4 DEF Once
<1>13. Kept'
  <2> SUFFICES ASSUME NEW p \in Addresses, p \in BlocksIn(p[1])' PROVE Somewhere(p)'
    BY DEF Kept
  <2>1. CASE p[1] = s
    <3>1. kind'[p[1]] = c
      BY <1>1, <2>1
    <3>2. p \in pool
      BY <2>1, <3>1, BlockKindsNext DEF BlockOf
    <3>3. p \in C \/ p \in L \/ p = b
      BY <3>2
    <3> QED BY <1>1, <1>10, <3>3 DEF Somewhere
  <2>2. CASE p[1] # s
    <3>1. Somewhere(p)
      BY <1>6, <2>2 DEF Inv, Kept
    <3> QED BY <1>1, <1>10, <3>1 DEF Somewhere
  <2> QED BY <2>1, <2>2
<1>14. MarksExact'
  <2> SUFFICES ASSUME NEW p \in Addresses
               PROVE  /\ kind'[p[1]] \in Classes =>
                           /\ marks'[p[1]].size = CountOf(kind'[p[1]])
                           /\ (Marked(p)' <=> p \in live)
                      /\ kind'[p[1]] = Large /\ p[2] = 0 => (largeOut[p[1]] <=> p \in live)
    BY DEF MarksExact
  <2>1. CASE p[1] = s
    <3>1. kind'[p[1]] = c /\ marks'[p[1]] = FreshMap(c)
      BY <1>1, <2>1
    <3>2. p \notin live
      BY <1>4, <2>1 DEF Somewhere
    <3>3. ~ Marked(p)' /\ marks'[p[1]].size = CountOf(c)
      BY <3>1 DEF Marked, FreshMap
    <3> QED BY <3>1, <3>2, <3>3, NamesApart
  <2>2. CASE p[1] # s
    <3>1. kind'[p[1]] = kind[p[1]] /\ marks'[p[1]] = marks[p[1]]
      BY <1>1, <2>2, AddressParts
    <3>2. Marked(p)' <=> Marked(p)
      BY <3>1 DEF Marked, debugBlockIndex
    <3> QED BY <3>1, <3>2 DEF Inv, MarksExact
  <2> QED BY <2>1, <2>2
<1> QED BY <1>7, <1>8, <1>9, <1>12, <1>13, <1>14 DEF Inv

(* A span is given out whole, as one large block.                          *)
LEMMA LargeFrom ==
  ASSUME Inv, NEW t \in Threads, allocateLarge(t)
  PROVE  Inv'
<1>1. PICK s \in Spans :
        /\ kind[s] = Free /\ ~ Inspected(s)
        /\ kind' = [kind EXCEPT ![s] = Large]
        /\ marks' = [marks EXCEPT ![s] = EmptyMap]
        /\ largeOut' = [largeOut EXCEPT ![s] = TRUE]
        /\ live' = live \cup {<<s, 0>>}
  BY DEF allocateLarge
<1> DEFINE b == <<s, 0>>
<1>2. /\ UNCHANGED <<central, lists, call>>
      /\ \A r \in Spans : kind'[r] = IF r = s THEN Large ELSE kind[r]
      /\ \A r \in Spans : marks'[r] = IF r = s THEN EmptyMap ELSE marks[r]
      /\ \A r \in Spans : r # s => (largeOut'[r] <=> largeOut[r])
      /\ largeOut'[s]
  BY <1>1 DEF allocateLarge, Inv, TypeOK
<1>3. b \in Addresses /\ b[1] = s /\ b[2] = 0 /\ \A p \in Addresses : p[1] = s /\ p[2] = 0 <=> p = b
  BY GuardsAssumption DEF Addresses
<1>4. /\ \A p \in Addresses : p[1] = s => ~ Somewhere(p)
      /\ \A u \in Threads : call[u].step # "idle" => call[u].ptr[1] # s
  BY <1>1, NothingThere
<1>5. \A p \in Addresses : p[1] # s =>
        /\ \A d : BlockOf(p, d)' <=> BlockOf(p, d)
        /\ BlocksIn(p[1])' = BlocksIn(p[1])
  BY <1>2, AddressParts DEF BlockOf, BlocksIn
<1>6. \A p \in Addresses : p[1] = s => (p \in BlocksIn(p[1])' <=> p = b)
  BY <1>2, <1>3, BlockKindsNext
<1>7. TypeOK'
  <2>1. EmptyMap \in [size : Nat, set : SUBSET Nat]
    BY DEF EmptyMap
  <2> QED BY <1>1, <1>2, <1>3, <2>1 DEF Inv, TypeOK
<1>8. AtHome'
  <2>1. ASSUME NEW d \in Classes, NEW p \in central[d] PROVE BlockOf(p, d)'
    BY <1>4, <1>5, <2>1 DEF Somewhere, Inv, AtHome, TypeOK
  <2>2. ASSUME NEW u \in Threads, NEW d \in Classes, NEW p \in lists[u][d] PROVE BlockOf(p, d)'
    BY <1>4, <1>5, <2>2 DEF Somewhere, Inv, AtHome, TypeOK
  <2>3. ASSUME NEW p \in live' PROVE p \in BlocksIn(p[1])'
    <3>1. CASE p = b
      BY <1>3, <1>6, <3>1
    <3>2. CASE p # b
      <4>1. p \in live /\ p \in Addresses
        BY <1>1, <2>3, <3>2 DEF Inv, TypeOK
      <4> QED BY <1>4, <1>5, <4>1 DEF Somewhere, Inv, AtHome
    <3> QED BY <3>1, <3>2
  <2> QED BY <1>2, <2>1, <2>2, <2>3 DEF AtHome
<1>9. CallsExact'
  <2> SUFFICES ASSUME NEW u \in Threads
               PROVE  /\ call[u].step = "mark" => \E d \in Classes : BlockOf(call[u].ptr, d)'
                      /\ call[u].step = "push" =>
                           /\ ListFor(call[u].ptr, call[u].size)' \in Classes
                           /\ BlockOf(call[u].ptr, ListFor(call[u].ptr, call[u].size))'
                      /\ call[u].step = "release" =>
                           kind'[call[u].ptr[1]] = Large /\ call[u].ptr \in BlocksIn(call[u].ptr[1])'
                      /\ call[u].step = "check" => MayName(call[u].ptr, call[u].size)'
                      /\ call[u].step # "again"
    BY <1>2 DEF CallsExact
  <2>1. CASE call[u].step # "idle"
    <3>1. call[u].ptr \in Addresses /\ call[u].ptr[1] # s
      BY <1>4, <2>1, CallParts DEF Inv
    <3>2. kind'[call[u].ptr[1]] = kind[call[u].ptr[1]] /\ call'[u] = call[u]
      BY <1>2, <3>1, AddressParts
    <3> QED BY <1>5, <3>1, <3>2 DEF Inv, CallsExact, ListFor, MayName
  <2>2. CASE call[u].step = "idle"
    BY <2>2
  <2> QED BY <2>1, <2>2
<1>10. \A u \in Threads : \A p : Taken(u, p)' <=> Taken(u, p)
  BY <1>2 DEF Taken
<1>11. /\ b \notin live
       /\ \A d \in Classes : b \notin central[d]
       /\ \A u \in Threads, d \in Classes : b \notin lists[u][d]
       /\ \A u \in Threads : ~ Taken(u, b)
  BY <1>3, <1>4 DEF Somewhere
<1>12. Once'
  <2>1. \A p \in live' :
          /\ \A d \in Classes : p \notin central[d]
          /\ \A u \in Threads, d \in Classes : p \notin lists[u][d]
          /\ \A u \in Threads : ~ Taken(u, p)'
    BY <1>1, <1>10, <1>11 DEF Inv, Once
  <2> QED BY <1>2, <1>10, <2>1 DEF Inv, Once
<1>13. Kept'
  <2> SUFFICES ASSUME NEW p \in Addresses, p \in BlocksIn(p[1])' PROVE Somewhere(p)'
    BY DEF Kept
  <2>1. CASE p[1] = s
    BY <1>1, <1>6, <2>1 DEF Somewhere
  <2>2. CASE p[1] # s
    <3>1. Somewhere(p)
      BY <1>5, <2>2 DEF Inv, Kept
    <3> QED BY <1>1, <1>2, <1>10, <3>1 DEF Somewhere
  <2> QED BY <2>1, <2>2
<1>14. MarksExact'
  <2> SUFFICES ASSUME NEW p \in Addresses
               PROVE  /\ kind'[p[1]] \in Classes =>
                           /\ marks'[p[1]].size = CountOf(kind'[p[1]])
                           /\ (Marked(p)' <=> p \in live')
                      /\ kind'[p[1]] = Large /\ p[2] = 0 => (largeOut'[p[1]] <=> p \in live')
    BY DEF MarksExact
  <2>1. CASE p[1] = s
    <3>1. kind'[p[1]] = Large /\ largeOut'[p[1]]
      BY <1>2, <2>1
    <3>2. p[2] = 0 => p \in live'
      BY <1>1, <1>3, <2>1
    <3> QED BY <3>1, <3>2, NamesApart
  <2>2. CASE p[1] # s
    <3>1. kind'[p[1]] = kind[p[1]] /\ marks'[p[1]] = marks[p[1]] /\ (largeOut'[p[1]] <=> largeOut[p[1]])
      BY <1>2, <2>2, AddressParts
    <3>2. Marked(p)' <=> Marked(p)
      BY <3>1 DEF Marked, debugBlockIndex
    <3>3. p \in live' <=> p \in live
      BY <1>1, <1>3, <2>2
    <3> QED BY <3>1, <3>2, <3>3 DEF Inv, MarksExact
  <2> QED BY <2>1, <2>2
<1> QED BY <1>7, <1>8, <1>9, <1>12, <1>13, <1>14 DEF Inv

(* The mark of a block that allocate is about to return is never set       *)
(* already, so the block is the program's.                                 *)
LEMMA Granted ==
  ASSUME Inv, NEW t \in Threads, markAllocated(t)
  PROVE  Inv'
<1> DEFINE p == call[t].ptr
           s == p[1]
           i == debugBlockIndex(p)
<1>1. /\ call[t].step = "mark" /\ Taken(t, p) /\ p \in Addresses
      /\ UNCHANGED <<kind, largeOut, central, lists>>
      /\ call' = [call EXCEPT ![t] = Idle]
  BY CallParts DEF markAllocated, Taken, Inv
<1>2. PICK c \in Classes : BlockOf(p, c)
  BY <1>1 DEF Inv, CallsExact
<1>3. /\ kind[s] = c /\ s \in Spans /\ c \notin {Large, Free}
      /\ i = p[2] \div Unit[c] /\ i \in Nat /\ i < CountOf(c) /\ marks[s].size = CountOf(c)
      /\ p \in BlocksIn(s) /\ CountOf(c) \in Nat
  <2>1. kind[s] = c /\ s \in Spans /\ c \notin {Large, Free} /\ p \in BlocksIn(s)
    BY <1>1, <1>2, AddressParts, BlockKinds, NamesApart DEF BlockOf
  <2>2. p[2] % Unit[c] = 0 /\ p[2] \div Unit[c] < CountOf(c)
    BY <1>1, <1>2, <2>1, BlockIndex DEF BlockOf
  <2>3. i = p[2] \div Unit[c]
    BY <2>1, <2>2 DEF debugBlockIndex
  <2>4. p[2] \div Unit[c] \in Nat
    BY <1>1, <2>2, AddressParts, UnitTypes, ExactQuotient
  <2>5. marks[s].size = CountOf(c)
    BY <1>1, <2>1 DEF Inv, MarksExact
  <2> QED BY <2>1, <2>2, <2>3, <2>4, <2>5, UnitTypes
<1>4. p \notin live
  BY <1>1 DEF Inv, Once
<1>5. ~ MarkRefused(p)
  <2>1. ~ Marked(p)
    BY <1>1, <1>3, <1>4 DEF Inv, MarksExact
  <2> QED BY <1>3, <2>1 DEF MarkRefused
<1>6. live' = live \cup {p} /\ marks' = [marks EXCEPT ![s].set = @ \cup {i}]
  <2>1. live' = live \cup {q \in {p} : ~ MarkRefused(q)}
    BY DEF markAllocated
  <2>2. {q \in {p} : ~ MarkRefused(q)} = {p}
    BY <1>5
  <2> QED BY <1>3, <1>5, <2>1, <2>2 DEF markAllocated
<1> HIDE DEF p, s, i
<1>7. /\ \A u \in Threads : call'[u] = IF u = t THEN Idle ELSE call[u]
      /\ \A r \in Spans : marks'[r].size = marks[r].size
      /\ \A r \in Spans : marks'[r].set = IF r = s THEN marks[r].set \cup {i} ELSE marks[r].set
  BY <1>1, <1>3, <1>6 DEF Inv, TypeOK
<1>8. /\ \A q : ~ Taken(t, q)'
      /\ \A q : Taken(t, q) => q = p
      /\ \A u \in Threads \ {t} : \A q : Taken(u, q)' <=> Taken(u, q)
  BY <1>7 DEF Taken, Idle, p
<1>9. (\A q, d : BlockOf(q, d)' <=> BlockOf(q, d)) /\ \A r : BlocksIn(r)' = BlocksIn(r)
  BY <1>1 DEF BlockOf, BlocksIn
<1>10. TypeOK'
  <2>1. Idle \in CallRecord
    BY DEF CallRecord
  <2> QED BY <1>1, <1>3, <1>6, <2>1 DEF Inv, TypeOK
<1>11. AtHome'
  BY <1>1, <1>3, <1>6, <1>9 DEF Inv, AtHome, s
<1>12. CallsExact'
  <2> SUFFICES ASSUME NEW u \in Threads
               PROVE  /\ call'[u].step = "mark" => \E d \in Classes : BlockOf(call'[u].ptr, d)
                      /\ call'[u].step = "push" =>
                           /\ ListFor(call[u].ptr, call[u].size)' \in Classes
                           /\ BlockOf(call'[u].ptr, ListFor(call[u].ptr, call[u].size)')
                      /\ call'[u].step = "release" =>
                           kind[call'[u].ptr[1]] = Large /\ call'[u].ptr \in BlocksIn(call'[u].ptr[1])
                      /\ call'[u].step = "check" => MayName(call[u].ptr, call[u].size)'
                      /\ call'[u].step # "again"
    BY <1>1, <1>9 DEF CallsExact
  <2>1. CASE u = t
    BY <1>7, <2>1 DEF Idle
  <2>2. CASE u # t
    <3>1. call'[u] = call[u]
      BY <1>7, <2>2
    <3> QED BY <1>1, <3>1 DEF Inv, CallsExact, ListFor, MayName
  <2> QED BY <2>1, <2>2
<1>13. Once'
  <2>1. \A q \in live' :
          /\ \A d \in Classes : q \notin central[d]
          /\ \A u \in Threads, d \in Classes : q \notin lists[u][d]
          /\ \A u \in Threads : ~ Taken(u, q)'
    BY <1>1, <1>6, <1>8 DEF Inv, Once
  <2>2. \A u \in Threads : \A q : Taken(u, q)' => Taken(u, q)
    BY <1>8
  <2> QED BY <1>1, <2>1, <2>2 DEF Inv, Once
<1>14. Kept'
  <2> SUFFICES ASSUME NEW q \in Addresses, q \in BlocksIn(q[1]) PROVE Somewhere(q)'
    BY <1>9 DEF Kept
  <2>1. Somewhere(q)
    BY DEF Inv, Kept
  <2> QED BY <1>1, <1>6, <1>8, <2>1 DEF Somewhere
<1>15. MarksExact'
  <2> SUFFICES ASSUME NEW q \in Addresses
               PROVE  /\ kind[q[1]] \in Classes =>
                           /\ marks'[q[1]].size = CountOf(kind[q[1]])
                           /\ (Marked(q)' <=> q \in live')
                      /\ kind[q[1]] = Large /\ q[2] = 0 => (largeOut[q[1]] <=> q \in live')
    BY <1>1 DEF MarksExact
  <2>1. q[1] \in Spans
    BY AddressParts
  <2>2. /\ kind[q[1]] \in Classes =>
             /\ marks[q[1]].size = CountOf(kind[q[1]])
             /\ (Marked(q) <=> q \in live)
        /\ kind[q[1]] = Large /\ q[2] = 0 => (largeOut[q[1]] <=> q \in live)
    BY DEF Inv, MarksExact
  <2>3. debugBlockIndex(q)' = debugBlockIndex(q)
    BY <1>1 DEF debugBlockIndex
  <2>4. CASE q[1] # s
    <3>1. marks'[q[1]].set = marks[q[1]].set /\ marks'[q[1]].size = marks[q[1]].size
      BY <1>7, <2>1, <2>4
    <3>2. (Marked(q)' <=> Marked(q)) /\ (q \in live' <=> q \in live)
      BY <1>6, <2>3, <2>4, <3>1 DEF Marked, s
    <3> QED BY <2>2, <3>1, <3>2
  <2>5. CASE q = p
    <3>1. Marked(q)'
      BY <1>3, <1>7, <2>3, <2>5 DEF Marked, s, i
    <3> QED BY <1>3, <1>6, <1>7, <2>1, <2>2, <2>5, <3>1 DEF s
  <2>6. CASE q[1] = s /\ q # p
    <3>1. debugBlockIndex(q) # i
      <4>1. SUFFICES ASSUME debugBlockIndex(q) = i PROVE FALSE
        OBVIOUS
      <4>2. i # NoIndex
        BY <1>3, UnitTypes, GuardsAssumption DEF NoIndex
      <4>3. q[2] % Unit[c] = 0 /\ q[2] \div Unit[c] = i
        BY <1>3, <2>6, <4>1, <4>2 DEF debugBlockIndex
      <4>4. p[2] % Unit[c] = 0 /\ p[2] \div Unit[c] = i
        BY <1>1, <1>2, <1>3, BlockIndex DEF BlockOf, s
      <4> QED BY <1>1, <2>6, <4>3, <4>4, IndexApart DEF s
    <3>2. Marked(q)' <=> Marked(q)
      <4>1. marks'[q[1]].size = marks[q[1]].size /\ marks'[q[1]].set = marks[q[1]].set \cup {i}
        BY <1>7, <2>1, <2>6
      <4> QED BY <2>3, <3>1, <4>1 DEF Marked
    <3> QED BY <1>3, <1>6, <1>7, <2>1, <2>2, <2>6, <3>2
  <2> QED BY <2>4, <2>5, <2>6
<1> QED BY <1>10, <1>11, <1>12, <1>13, <1>14, <1>15 DEF Inv

-----------------------------------------------------------------------------
(* Frees.                                                                  *)

(* findSpan tells a free of its span and changes nothing else.             *)
LEMMA LookedUp ==
  ASSUME Inv, NEW t \in Threads, NEW p \in Addresses, NEW e \in Sizes, deallocate(t, p, e)
  PROVE  Inv'
<1> DEFINE new == [step |-> "check", ptr |-> p, size |-> e]
<1>1. /\ MayName(p, e) /\ call[t] = Idle
      /\ UNCHANGED <<kind, marks, largeOut, central, lists, live>>
      /\ \A u \in Threads : call'[u] = IF u = t THEN new ELSE call[u]
      /\ call' = [call EXCEPT ![t] = new]
  BY DEF deallocate, Inv, TypeOK
<1>2. \A u \in Threads : \A q : Taken(u, q)' <=> Taken(u, q)
  BY <1>1 DEF Taken, Idle
<1>3. (\A q, d : BlockOf(q, d)' <=> BlockOf(q, d)) /\ \A r : BlocksIn(r)' = BlocksIn(r)
  BY <1>1 DEF BlockOf, BlocksIn
<1>4. TypeOK'
  <2>1. new \in CallRecord
    BY DEF CallRecord
  <2> QED BY <1>1, <2>1 DEF Inv, TypeOK
<1>5. AtHome'
  BY <1>1, <1>3 DEF Inv, AtHome
<1>6. CallsExact'
  <2> SUFFICES ASSUME NEW u \in Threads
               PROVE  /\ call'[u].step = "mark" => \E d \in Classes : BlockOf(call'[u].ptr, d)
                      /\ call'[u].step = "push" =>
                           /\ ListFor(call[u].ptr, call[u].size)' \in Classes
                           /\ BlockOf(call'[u].ptr, ListFor(call[u].ptr, call[u].size)')
                      /\ call'[u].step = "release" =>
                           kind[call'[u].ptr[1]] = Large /\ call'[u].ptr \in BlocksIn(call'[u].ptr[1])
                      /\ call'[u].step = "check" => MayName(call[u].ptr, call[u].size)'
                      /\ call'[u].step # "again"
    BY <1>1, <1>3 DEF CallsExact
  <2>1. CASE u = t
    BY <1>1, <2>1 DEF MayName
  <2>2. CASE u # t
    <3>1. call'[u] = call[u]
      BY <1>1, <2>2
    <3> QED BY <1>1, <3>1 DEF Inv, CallsExact, ListFor, MayName
  <2> QED BY <2>1, <2>2
<1>7. Once'
  BY <1>1, <1>2 DEF Inv, Once
<1>8. Kept'
  BY <1>1, <1>2, <1>3 DEF Inv, Kept, Somewhere
<1>9. MarksExact'
  BY <1>1 DEF Inv, MarksExact, Marked, debugBlockIndex
<1> QED BY <1>4, <1>5, <1>6, <1>7, <1>8, <1>9 DEF Inv

(* A free that is refused ends.                                            *)
LEMMA Refused ==
  ASSUME Inv, NEW t \in Threads, ~ \E p : Taken(t, p),
         UNCHANGED <<kind, marks, largeOut, central, lists, live>>,
         call' = [call EXCEPT ![t] = Idle]
  PROVE  Inv'
<1>1. \A u \in Threads : call'[u] = IF u = t THEN Idle ELSE call[u]
  BY DEF Inv, TypeOK
<1>2. \A u \in Threads : \A q : Taken(u, q)' <=> Taken(u, q)
  BY <1>1 DEF Taken, Idle
<1>3. (\A q, d : BlockOf(q, d)' <=> BlockOf(q, d)) /\ \A r : BlocksIn(r)' = BlocksIn(r)
  BY DEF BlockOf, BlocksIn
<1>4. TypeOK'
  <2>1. Idle \in CallRecord
    BY DEF CallRecord
  <2> QED BY <2>1 DEF Inv, TypeOK
<1>5. AtHome'
  BY <1>3 DEF Inv, AtHome
<1>6. CallsExact'
  <2> SUFFICES ASSUME NEW u \in Threads
               PROVE  /\ call'[u].step = "mark" => \E d \in Classes : BlockOf(call'[u].ptr, d)
                      /\ call'[u].step = "push" =>
                           /\ ListFor(call[u].ptr, call[u].size)' \in Classes
                           /\ BlockOf(call'[u].ptr, ListFor(call[u].ptr, call[u].size)')
                      /\ call'[u].step = "release" =>
                           kind[call'[u].ptr[1]] = Large /\ call'[u].ptr \in BlocksIn(call'[u].ptr[1])
                      /\ call'[u].step = "check" => MayName(call[u].ptr, call[u].size)'
                      /\ call'[u].step # "again"
    BY <1>3 DEF CallsExact
  <2>1. CASE u = t
    BY <1>1, <2>1 DEF Idle
  <2>2. CASE u # t
    <3>1. call'[u] = call[u]
      BY <1>1, <2>2
    <3> QED BY <3>1 DEF Inv, CallsExact, ListFor, MayName
  <2> QED BY <2>1, <2>2
<1>7. Once'
  BY <1>2 DEF Inv, Once
<1>8. Kept'
  BY <1>2, <1>3 DEF Inv, Kept, Somewhere
<1>9. MarksExact'
  BY DEF Inv, MarksExact, Marked, debugBlockIndex
<1> QED BY <1>4, <1>5, <1>6, <1>7, <1>8, <1>9 DEF Inv

(* A free that is let through takes its block from the program.            *)
LEMMA LetThrough ==
  ASSUME ~ WrongKind, Inv, NEW t \in Threads, call[t].step = "check",
         Validated(call[t].ptr, call[t].size), validateAndMarkFreed(t)
  PROVE  Inv'
<1> DEFINE p == call[t].ptr
           e == call[t].size
           s == p[1]
           i == debugBlockIndex(p)
           new == [step |-> AfterCheck(p, e), ptr |-> p, size |-> e]
<1>1. p \in Addresses /\ e \in Sizes /\ MayName(p, e) /\ s \in Spans
  BY CallParts, AddressParts DEF Inv, CallsExact
<1>2. /\ MarkFreed(p) /\ live' = live \ {p} /\ call' = [call EXCEPT ![t] = new]
      /\ UNCHANGED <<kind, central, lists>>
  BY DEF validateAndMarkFreed
<1>3. /\ p \in live /\ p \in BlocksIn(s)
      /\ \/ /\ AfterCheck(p, e) = "push"
            /\ kind[s] \in Classes /\ ListFor(p, e) = kind[s]
         \/ /\ AfterCheck(p, e) = "release"
            /\ kind[s] = Large
  BY <1>1, Passed DEF Inv
<1>4. /\ kind[s] = Large =>
           /\ \A r \in Spans : largeOut'[r] <=> r # s /\ largeOut[r]
           /\ largeOut' \in [Spans -> BOOLEAN]
           /\ marks' = marks
      /\ kind[s] \in Classes =>
           /\ \A r \in Spans : marks'[r].size = marks[r].size
           /\ \A r \in Spans : marks'[r].set = IF r = s THEN marks[r].set \ {i} ELSE marks[r].set
           /\ marks' \in [Spans -> [size : Nat, set : SUBSET Nat]]
           /\ largeOut' = largeOut
  <2>1. CASE kind[s] = Large
    <3>1. largeOut' = [largeOut EXCEPT ![s] = FALSE] /\ marks' = marks
      BY <1>2, <2>1 DEF MarkFreed
    <3>2. \A r \in Spans : r # s => (largeOut'[r] <=> largeOut[r])
      BY <3>1 DEF Inv, TypeOK
    <3>3. ~ largeOut'[s] /\ largeOut' \in [Spans -> BOOLEAN]
      BY <1>1, <3>1 DEF Inv, TypeOK
    <3>4. \A r \in Spans : largeOut'[r] <=> r # s /\ largeOut[r]
      BY <3>2, <3>3
    <3>5. kind[s] \notin Classes
      BY <2>1, NamesApart
    <3> QED BY <3>1, <3>3, <3>4, <3>5
  <2>2. CASE kind[s] \in Classes
    <3>1. marks' = [marks EXCEPT ![s].set = @ \ {i}] /\ largeOut' = largeOut
      BY <1>2, <2>2, NamesApart DEF MarkFreed
    <3>2. kind[s] # Large
      BY <2>2, NamesApart
    <3> QED BY <3>1, <3>2 DEF Inv, TypeOK
  <2> QED BY <1>3, <2>1, <2>2
<1>5. new \in CallRecord /\ new.step \in {"push", "release"} /\ new.ptr = p /\ new.size = e
      /\ new.step = AfterCheck(p, e)
  BY <1>1, <1>3 DEF CallRecord
<1> HIDE DEF p, e, s, i, new
<1>6. \A u \in Threads : call'[u] = IF u = t THEN new ELSE call[u]
  BY <1>2 DEF Inv, TypeOK
<1>7. /\ \A q : Taken(t, q)' <=> q = p
      /\ \A q : ~ Taken(t, q)
      /\ \A u \in Threads \ {t} : \A q : Taken(u, q)' <=> Taken(u, q)
  BY <1>5, <1>6 DEF Taken
<1>8. (\A q, d : BlockOf(q, d)' <=> BlockOf(q, d)) /\ \A r : BlocksIn(r)' = BlocksIn(r)
  BY <1>2 DEF BlockOf, BlocksIn
<1>9. TypeOK'
  BY <1>2, <1>3, <1>4, <1>5 DEF Inv, TypeOK
<1>10. AtHome'
  BY <1>2, <1>8 DEF Inv, AtHome
<1>11. CallsExact'
  <2> SUFFICES ASSUME NEW u \in Threads
               PROVE  /\ call'[u].step = "mark" => \E d \in Classes : BlockOf(call'[u].ptr, d)
                      /\ call'[u].step = "push" =>
                           /\ ListFor(call[u].ptr, call[u].size)' \in Classes
                           /\ BlockOf(call'[u].ptr, ListFor(call[u].ptr, call[u].size)')
                      /\ call'[u].step = "release" =>
                           kind[call'[u].ptr[1]] = Large /\ call'[u].ptr \in BlocksIn(call'[u].ptr[1])
                      /\ call'[u].step = "check" => MayName(call[u].ptr, call[u].size)'
                      /\ call'[u].step # "again"
    BY <1>2, <1>8 DEF CallsExact
  <2>1. CASE u = t
    <3>1. call'[u] = new
      BY <1>6, <2>1
    <3>2. CASE AfterCheck(p, e) = "push"
      <4>1. ListFor(p, e) = kind[s] /\ kind[s] \in Classes /\ BlockOf(p, kind[s])
        BY <1>1, <1>3, <3>2, BlockKinds DEF s
      <4>2. ListFor(call[u].ptr, call[u].size)' = ListFor(p, e)
        BY <1>2, <1>5, <3>1 DEF ListFor
      <4> QED BY <1>5, <3>1, <3>2, <4>1, <4>2
    <3>3. CASE AfterCheck(p, e) = "release"
      BY <1>3, <1>5, <3>1, <3>3 DEF s
    <3> QED BY <1>3, <3>2, <3>3
  <2>2. CASE u # t
    <3>1. call'[u] = call[u]
      BY <1>6, <2>2
    <3> QED BY <1>2, <3>1 DEF Inv, CallsExact, ListFor, MayName
  <2> QED BY <2>1, <2>2
<1>12. Once'
  <2>1. \A q \in live' :
          /\ \A d \in Classes : q \notin central[d]
          /\ \A u \in Threads, d \in Classes : q \notin lists[u][d]
          /\ \A u \in Threads : ~ Taken(u, q)'
    BY <1>2, <1>7 DEF Inv, Once
  <2>2. \A d \in Classes : \A q \in central[d] :
          /\ \A u \in Threads, f \in Classes : q \notin lists[u][f]
          /\ \A u \in Threads : ~ Taken(u, q)'
    BY <1>3, <1>7 DEF Inv, Once
  <2>3. \A u, w \in Threads, d \in Classes : \A q \in lists[u][d] :
          /\ u # w => q \notin lists[w][d]
          /\ ~ Taken(w, q)'
    BY <1>3, <1>7 DEF Inv, Once
  <2>4. \A u, w \in Threads, q \in Addresses : Taken(u, q)' /\ Taken(w, q)' => u = w
    BY <1>3, <1>7 DEF Inv, Once
  <2> QED BY <1>2, <2>1, <2>2, <2>3, <2>4 DEF Once
<1>13. Kept'
  <2> SUFFICES ASSUME NEW q \in Addresses, q \in BlocksIn(q[1]) PROVE Somewhere(q)'
    BY <1>8 DEF Kept
  <2>1. Somewhere(q)
    BY DEF Inv, Kept
  <2> QED BY <1>2, <1>7, <2>1 DEF Somewhere
<1>14. MarksExact'
  <2> SUFFICES ASSUME NEW q \in Addresses
               PROVE  /\ kind[q[1]] \in Classes =>
                           /\ marks'[q[1]].size = CountOf(kind[q[1]])
                           /\ (Marked(q)' <=> q \in live')
                      /\ kind[q[1]] = Large /\ q[2] = 0 => (largeOut'[q[1]] <=> q \in live')
    BY <1>2 DEF MarksExact
  <2>1. q[1] \in Spans /\ q = <<q[1], q[2]>>
    BY AddressParts
  <2>2. /\ kind[q[1]] \in Classes =>
             /\ marks[q[1]].size = CountOf(kind[q[1]])
             /\ (Marked(q) <=> q \in live)
        /\ kind[q[1]] = Large /\ q[2] = 0 => (largeOut[q[1]] <=> q \in live)
    BY DEF Inv, MarksExact
  <2>3. debugBlockIndex(q)' = debugBlockIndex(q)
    BY <1>2 DEF debugBlockIndex
  <2>4. q # p => (q \in live' <=> q \in live)
    BY <1>2
  <2>5. CASE kind[s] = Large
    <3>1. marks' = marks /\ (Marked(q)' <=> Marked(q))
      BY <1>4, <2>3, <2>5 DEF Marked
    <3>2. q[1] # s => (largeOut'[q[1]] <=> largeOut[q[1]])
      BY <1>4, <2>1, <2>5
    <3>3. CASE q[1] # s
      BY <2>2, <2>4, <3>1, <3>2, <3>3 DEF s
    <3>4. CASE q[1] = s
      <4>1. ~ largeOut'[q[1]]
        BY <1>4, <2>1, <2>5, <3>4
      <4>2. p[2] = 0 /\ p = <<s, p[2]>>
        BY <1>1, <1>3, <2>5, BlockKinds, AddressParts DEF s
      <4>3. q[2] = 0 => q = p
        BY <2>1, <3>4, <4>2
      <4> QED BY <1>2, <2>5, <3>4, <4>1, <4>3, NamesApart
    <3> QED BY <3>3, <3>4
  <2>6. CASE kind[s] \in Classes
    <3>1. largeOut' = largeOut
      BY <1>4, <2>6
    <3>2. CASE q[1] # s
      <4>1. marks'[q[1]].size = marks[q[1]].size /\ marks'[q[1]].set = marks[q[1]].set
        BY <1>4, <2>1, <2>6, <3>2
      <4>2. Marked(q)' <=> Marked(q)
        BY <2>3, <4>1 DEF Marked
      <4>3. q # p
        BY <3>2 DEF s
      <4> QED BY <2>2, <2>4, <3>1, <4>1, <4>2, <4>3
    <3>3. CASE q = p
      <4>1. marks'[q[1]].size = marks[q[1]].size /\ marks'[q[1]].set = marks[q[1]].set \ {i}
        BY <1>4, <2>1, <2>6, <3>3 DEF s
      <4>2. ~ Marked(q)'
        BY <2>3, <3>3, <4>1 DEF Marked, i
      <4>3. q \notin live' /\ kind[q[1]] # Large
        BY <1>2, <2>6, <3>3, NamesApart DEF s
      <4> QED BY <2>2, <4>1, <4>2, <4>3
    <3>4. CASE q[1] = s /\ q # p
      <4>1. marks'[q[1]].size = marks[q[1]].size /\ marks'[q[1]].set = marks[q[1]].set \ {i}
        BY <1>4, <2>1, <2>6, <3>4
      <4>2. Marked(q) => debugBlockIndex(q) # i
        <5>1. SUFFICES ASSUME Marked(q), debugBlockIndex(q) = i PROVE FALSE
          OBVIOUS
        <5>2. /\ q[2] % Unit[kind[s]] = 0
              /\ debugBlockIndex(q) = q[2] \div Unit[kind[s]]
          BY <2>6, <3>4, <5>1, MarkedIsBlock DEF Inv
        <5>3. Marked(p)
          BY <1>1, <1>3, <2>6 DEF Inv, MarksExact, s
        <5>4. /\ p[2] % Unit[kind[s]] = 0
              /\ i = p[2] \div Unit[kind[s]]
          BY <1>1, <2>6, <5>3, MarkedIsBlock DEF Inv, s, i
        <5> QED BY <1>1, <2>6, <3>4, <5>1, <5>2, <5>4, IndexApart DEF s
      <4>3. Marked(q)' <=> Marked(q)
        BY <2>3, <4>1, <4>2 DEF Marked
      <4>4. kind[q[1]] # Large
        BY <2>6, <3>4, NamesApart
      <4> QED BY <2>2, <2>4, <3>4, <4>1, <4>3, <4>4
    <3> QED BY <3>2, <3>3, <3>4
  <2> QED BY <1>3, <2>5, <2>6
<1> QED BY <1>9, <1>10, <1>11, <1>12, <1>13, <1>14 DEF Inv

-----------------------------------------------------------------------------
(* Lists and spans.                                                        *)

(* A block joins its list.                                                 *)
LEMMA Joined ==
  ASSUME Inv, NEW t \in Threads, call[t].step = "push",
         NEW c \in Classes, c = ListFor(call[t].ptr, call[t].size),
         lists' = [lists EXCEPT ![t][c] = @ \cup {call[t].ptr}],
         call' = [call EXCEPT ![t] = Idle],
         UNCHANGED <<kind, marks, largeOut, central, live>>
  PROVE  Inv'
<1> DEFINE p == call[t].ptr
<1>1. /\ p \in Addresses /\ BlockOf(p, c) /\ Taken(t, p) /\ \A q : Taken(t, q) => q = p
      /\ Somewhere(p)
  BY CallParts DEF Inv, CallsExact, Taken, Somewhere
<1> HIDE DEF p
<1>2. /\ \A u \in Threads, d \in Classes :
           lists'[u][d] = IF u = t /\ d = c THEN lists[t][c] \cup {p} ELSE lists[u][d]
      /\ \A u \in Threads : call'[u] = IF u = t THEN Idle ELSE call[u]
  BY DEF Inv, TypeOK, p
<1>3. /\ \A q : ~ Taken(t, q)'
      /\ \A u \in Threads \ {t} : \A q : Taken(u, q)' <=> Taken(u, q)
  BY <1>2 DEF Taken, Idle
<1>4. (\A q, d : BlockOf(q, d)' <=> BlockOf(q, d)) /\ \A r : BlocksIn(r)' = BlocksIn(r)
  BY DEF BlockOf, BlocksIn
<1>5. TypeOK'
  <2>1. Idle \in CallRecord
    BY DEF CallRecord
  <2> QED BY <1>1, <2>1 DEF Inv, TypeOK, p
<1>6. AtHome'
  <2>1. \A u \in Threads, d \in Classes : \A q \in lists'[u][d] : BlockOf(q, d)
    BY <1>1, <1>2 DEF Inv, AtHome
  <2> QED BY <1>4, <2>1 DEF Inv, AtHome
<1>7. CallsExact'
  <2> SUFFICES ASSUME NEW u \in Threads
               PROVE  /\ call'[u].step = "mark" => \E d \in Classes : BlockOf(call'[u].ptr, d)
                      /\ call'[u].step = "push" =>
                           /\ ListFor(call[u].ptr, call[u].size)' \in Classes
                           /\ BlockOf(call'[u].ptr, ListFor(call[u].ptr, call[u].size)')
                      /\ call'[u].step = "release" =>
                           kind[call'[u].ptr[1]] = Large /\ call'[u].ptr \in BlocksIn(call'[u].ptr[1])
                      /\ call'[u].step = "check" => MayName(call[u].ptr, call[u].size)'
                      /\ call'[u].step # "again"
    BY <1>4 DEF CallsExact
  <2>1. CASE u = t
    BY <1>2, <2>1 DEF Idle
  <2>2. CASE u # t
    <3>1. call'[u] = call[u]
      BY <1>2, <2>2
    <3> QED BY <3>1 DEF Inv, CallsExact, ListFor, MayName
  <2> QED BY <2>1, <2>2
<1>8. /\ p \notin live
      /\ \A d \in Classes : p \notin central[d]
      /\ \A u \in Threads, d \in Classes : p \notin lists[u][d]
      /\ \A u \in Threads : Taken(u, p) => u = t
  BY <1>1 DEF Inv, Once
<1>9. Once'
  <2>1. \A q \in live :
          /\ \A u \in Threads, d \in Classes : q \notin lists'[u][d]
          /\ \A u \in Threads : ~ Taken(u, q)'
    BY <1>2, <1>3, <1>8 DEF Inv, Once
  <2>2. \A d \in Classes : \A q \in central[d] :
          /\ \A u \in Threads, f \in Classes : q \notin lists'[u][f]
          /\ \A u \in Threads : ~ Taken(u, q)'
    BY <1>2, <1>3, <1>8 DEF Inv, Once
  <2>3. \A u, w \in Threads, d \in Classes : \A q \in lists'[u][d] :
          /\ u # w => q \notin lists'[w][d]
          /\ ~ Taken(w, q)'
    BY <1>2, <1>3, <1>8 DEF Inv, Once
  <2>4. \A u, w \in Threads, q \in Addresses : Taken(u, q)' /\ Taken(w, q)' => u = w
    BY <1>3 DEF Inv, Once
  <2>5. \A q \in live : \A d \in Classes : q \notin central[d]
    BY DEF Inv, Once
  <2> QED BY <2>1, <2>2, <2>3, <2>4, <2>5 DEF Once
<1>10. Kept'
  <2> SUFFICES ASSUME NEW q \in Addresses, q \in BlocksIn(q[1]) PROVE Somewhere(q)'
    BY <1>4 DEF Kept
  <2>1. Somewhere(q)
    BY DEF Inv, Kept
  <2> QED BY <1>1, <1>2, <1>3, <2>1 DEF Somewhere
<1>11. MarksExact'
  BY DEF Inv, MarksExact, Marked, debugBlockIndex
<1> QED BY <1>5, <1>6, <1>7, <1>9, <1>10, <1>11 DEF Inv

(* A thread that flushes a list, or has a block to push on it, keeps some  *)
(* of the blocks and returns the others; the spans that become whole leave *)
(* the class and nothing of them is elsewhere.                             *)
LEMMA Returned ==
  ASSUME Inv, NEW t \in Threads, NEW c \in Classes,
         call[t].step \in {"idle", "push"},
         \A b \in InCall(t) : BlockOf(b, c),
         NEW keep \in SUBSET (lists[t][c] \cup InCall(t)),
         lists' = [lists EXCEPT ![t][c] = keep],
         returnRange(c, (lists[t][c] \cup InCall(t)) \ keep),
         call' = [call EXCEPT ![t] = Idle],
         UNCHANGED live
  PROVE  Inv'
<1> DEFINE pool == lists[t][c] \cup InCall(t)
           home == central[c] \cup (pool \ keep)
           gone == WholeSpans(c, home)
<1>1. /\ \A s \in gone : ~ Inspected(s)
      /\ GiveBack(gone)
      /\ central' = [central EXCEPT ![c] = {b \in home : b[1] \notin gone}]
  BY DEF returnRange
<1>2. InCall(t) \subseteq Addresses /\ \A q : q \in InCall(t) <=> Taken(t, q)
  BY CallParts DEF InCall, Taken, Inv
<1>3. pool \subseteq Addresses /\ \A b \in pool : BlockOf(b, c)
  BY <1>2 DEF Inv, TypeOK, AtHome
<1>4. home \subseteq Addresses /\ \A b \in home : BlockOf(b, c)
  BY <1>3 DEF Inv, TypeOK, AtHome
<1>5. gone \subseteq Spans /\ \A s \in gone : kind[s] = c /\ BlocksOf(s, c) \subseteq home
  BY DEF WholeSpans
<1>6. /\ \A b \in pool : b \notin live
      /\ \A b \in pool : \A d \in Classes : b \notin central[d]
      /\ \A b \in pool, u \in Threads, d \in Classes : b \in lists[u][d] => u = t /\ d = c
      /\ \A b \in pool, u \in Threads : Taken(u, b) => u = t
      /\ \A b \in lists[t][c] : ~ Taken(t, b)
  <2>1. ASSUME NEW b \in lists[t][c]
        PROVE  /\ b \notin live
               /\ \A d \in Classes : b \notin central[d]
               /\ \A u \in Threads, d \in Classes : b \in lists[u][d] => u = t /\ d = c
               /\ \A u \in Threads : ~ Taken(u, b)
    <3>1. \A u \in Threads, d \in Classes : b \in lists[u][d] => d = c
      BY <2>1 DEF Inv, AtHome, BlockOf
    <3> QED BY <2>1, <3>1 DEF Inv, Once
  <2>2. ASSUME NEW b \in InCall(t)
        PROVE  /\ b \notin live
               /\ \A d \in Classes : b \notin central[d]
               /\ \A u \in Threads, d \in Classes : b \notin lists[u][d]
               /\ \A u \in Threads : Taken(u, b) => u = t
    <3>1. b \in Addresses /\ Taken(t, b)
      BY <1>2, <2>2
    <3> QED BY <3>1 DEF Inv, Once
  <2> QED BY <2>1, <2>2
<1> HIDE DEF pool, home, gone
<1>7. /\ \A s \in Spans : kind'[s] = IF s \in gone THEN Free ELSE kind[s]
      /\ \A s \in Spans : marks'[s] = IF s \in gone THEN EmptyMap ELSE marks[s]
      /\ \A s \in Spans : largeOut'[s] <=> s \notin gone /\ largeOut[s]
  BY <1>1 DEF GiveBack
<1>8. /\ \A u \in Threads, d \in Classes :
           lists'[u][d] = IF u = t /\ d = c THEN keep ELSE lists[u][d]
      /\ \A u \in Threads : call'[u] = IF u = t THEN Idle ELSE call[u]
      /\ \A d \in Classes :
           central'[d] = IF d = c THEN {b \in home : b[1] \notin gone} ELSE central[d]
      /\ live' = live
  BY <1>1 DEF Inv, TypeOK
<1>9. /\ keep \subseteq pool /\ \A b \in keep : b \notin home
      /\ \A b \in pool : b \in keep \/ b \in home
      /\ \A b : b \in home <=> b \in central[c] \/ (b \in pool /\ b \notin keep)
  BY <1>6 DEF home, pool
<1>10. \A q \in Addresses : q[1] \in gone /\ q \in BlocksIn(q[1]) => q \in home
  <2> SUFFICES ASSUME NEW q \in Addresses, q[1] \in gone, q \in BlocksIn(q[1]) PROVE q \in home
    OBVIOUS
  <2>1. BlockOf(q, c)
    BY <1>5, BlockKinds
  <2> QED BY <1>5, <2>1 DEF BlockOf
<1>11. /\ \A q \in live : q[1] \notin gone
       /\ \A u \in Threads, d \in Classes : \A q \in lists'[u][d] : q[1] \notin gone
       /\ \A d \in Classes : \A q \in central'[d] : q[1] \notin gone
       /\ \A u \in Threads : \A q : Taken(u, q) /\ u # t => q[1] \notin gone
  <2>1. ASSUME NEW q \in Addresses, q[1] \in gone, Somewhere(q) PROVE q \in home
    BY <1>10, <2>1, InUse DEF Inv
  <2>2. \A q \in home : q \notin live
    BY <1>6, <1>9 DEF Inv, Once
  <2>3. ASSUME NEW q \in live PROVE q[1] \notin gone
    BY <2>1, <2>2 DEF Somewhere, Inv, TypeOK
  <2>4. ASSUME NEW u \in Threads, NEW d \in Classes, NEW q \in lists'[u][d] PROVE q[1] \notin gone
    <3>1. CASE u = t /\ d = c
      <4>1. q \in keep /\ q \in pool /\ q \notin home /\ q \in Addresses
        BY <1>3, <1>8, <1>9, <2>4, <3>1
      <4>2. q \in BlocksIn(q[1])
        BY <1>3, <4>1, BlockKinds, NamesApart DEF BlockOf
      <4> QED BY <1>10, <4>1, <4>2
    <3>2. CASE ~ (u = t /\ d = c)
      <4>1. q \in lists[u][d] /\ q \in Addresses
        BY <1>8, <2>4, <3>2 DEF Inv, TypeOK
      <4>2. q \notin home
        <5>1. q \notin central[c]
          BY <4>1 DEF Inv, Once
        <5>2. q \notin pool
          BY <1>6, <3>2, <4>1
        <5> QED BY <1>9, <5>1, <5>2
      <4> QED BY <2>1, <4>1, <4>2 DEF Somewhere
    <3> QED BY <3>1, <3>2
  <2>5. ASSUME NEW d \in Classes, NEW q \in central'[d] PROVE q[1] \notin gone
    <3>1. CASE d = c
      BY <1>8, <2>5, <3>1
    <3>2. CASE d # c
      <4>1. q \in central[d] /\ BlockOf(q, d) /\ q \in Addresses
        BY <1>8, <2>5, <3>2 DEF Inv, AtHome, TypeOK
      <4> QED BY <1>5, <3>2, <4>1 DEF BlockOf
    <3> QED BY <3>1, <3>2
  <2>6. ASSUME NEW u \in Threads, NEW q, Taken(u, q), u # t PROVE q[1] \notin gone
    <3>1. q \in Addresses
      BY <2>6, TakenInUse DEF Inv
    <3>2. q \notin home
      <4>1. q \notin central[c]
        BY <2>6 DEF Inv, Once
      <4>2. q \notin pool
        BY <1>6, <2>6
      <4> QED BY <1>9, <4>1, <4>2
    <3> QED BY <2>1, <2>6, <3>1, <3>2 DEF Somewhere
  <2> QED BY <2>3, <2>4, <2>5, <2>6
<1>12. /\ \A q : ~ Taken(t, q)'
       /\ \A u \in Threads \ {t} : \A q : Taken(u, q)' <=> Taken(u, q)
  BY <1>8 DEF Taken, Idle
<1>13. \A q \in Addresses : q[1] \notin gone =>
         /\ kind'[q[1]] = kind[q[1]] /\ marks'[q[1]] = marks[q[1]] /\ (largeOut'[q[1]] <=> largeOut[q[1]])
         /\ \A d : BlockOf(q, d)' <=> BlockOf(q, d)
         /\ BlocksIn(q[1])' = BlocksIn(q[1])
  BY <1>7, AddressParts DEF BlockOf, BlocksIn
<1>14. TypeOK'
  <2>1. Idle \in CallRecord /\ EmptyMap \in [size : Nat, set : SUBSET Nat]
    BY DEF CallRecord, EmptyMap
  <2>2. kind' \in [Spans -> Classes \cup {Large, Free}] /\ marks' \in [Spans -> [size : Nat, set : SUBSET Nat]]
    BY <1>1, <2>1 DEF Inv, TypeOK, GiveBack
  <2>3. largeOut' \in [Spans -> BOOLEAN]
    BY <1>1 DEF GiveBack
  <2>4. central' \in [Classes -> SUBSET Addresses] /\ lists' \in [Threads -> [Classes -> SUBSET Addresses]]
    BY <1>1, <1>3, <1>4, <1>9 DEF Inv, TypeOK
  <2>5. live' \subseteq Addresses /\ call' \in [Threads -> CallRecord]
    BY <2>1 DEF Inv, TypeOK
  <2> QED BY <2>2, <2>3, <2>4, <2>5 DEF TypeOK
<1>15. AtHome'
  <2>1. ASSUME NEW d \in Classes, NEW q \in central'[d] PROVE BlockOf(q, d)'
    <3>1. q \in Addresses /\ BlockOf(q, d)
      BY <1>4, <1>8, <2>1, ZenonT(30) DEF Inv, AtHome, TypeOK
    <3> QED BY <1>11, <1>13, <2>1, <3>1
  <2>2. ASSUME NEW u \in Threads, NEW d \in Classes, NEW q \in lists'[u][d] PROVE BlockOf(q, d)'
    <3>1. q \in Addresses /\ BlockOf(q, d)
      BY <1>3, <1>8, <1>9, <2>2 DEF Inv, AtHome, TypeOK
    <3> QED BY <1>11, <1>13, <2>2, <3>1
  <2>3. ASSUME NEW q \in live PROVE q \in BlocksIn(q[1])'
    BY <1>11, <1>13, <2>3 DEF Inv, AtHome, TypeOK
  <2> QED BY <1>8, <2>1, <2>2, <2>3 DEF AtHome
<1>16. CallsExact'
  <2> SUFFICES ASSUME NEW u \in Threads
               PROVE  /\ call'[u].step = "mark" => \E d \in Classes : BlockOf(call[u].ptr, d)'
                      /\ call'[u].step = "push" =>
                           /\ ListFor(call[u].ptr, call[u].size)' \in Classes
                           /\ BlockOf(call[u].ptr, ListFor(call[u].ptr, call[u].size))'
                      /\ call'[u].step = "release" =>
                           kind'[call'[u].ptr[1]] = Large /\ call'[u].ptr \in BlocksIn(call[u].ptr[1])'
                      /\ call'[u].step = "check" => MayName(call[u].ptr, call[u].size)'
                      /\ call'[u].step # "again"
    BY DEF CallsExact
  <2>1. CASE u = t
    BY <1>8, <2>1 DEF Idle
  <2>2. CASE u # t /\ call[u].step # "idle"
    <3>1. call'[u] = call[u] /\ call[u].ptr \in Addresses /\ call[u].step # "again"
      BY <1>8, <2>2, CallParts DEF Inv, CallsExact
    <3>2. call[u].ptr[1] \notin gone
      <4>1. CASE call[u].step \in {"mark", "push", "release"}
        BY <1>11, <2>2, <4>1 DEF Taken
      <4>2. CASE call[u].step = "check"
        BY <1>1, <4>2 DEF Inspected, gone
      <4> QED BY <2>2, <3>1, <4>1, <4>2, CallParts DEF Inv
    <3>3. /\ kind'[call[u].ptr[1]] = kind[call[u].ptr[1]]
          /\ \A d : BlockOf(call[u].ptr, d)' <=> BlockOf(call[u].ptr, d)
          /\ BlocksIn(call[u].ptr[1])' = BlocksIn(call[u].ptr[1])
      <4>1. PICK q \in Addresses : q = call[u].ptr
        BY <3>1
      <4> QED BY <1>13, <3>1, <3>2, <4>1
    <3> QED BY <3>1, <3>3 DEF Inv, CallsExact, ListFor, MayName
  <2>3. CASE u # t /\ call[u].step = "idle"
    BY <1>8, <2>3
  <2> QED BY <2>1, <2>2, <2>3
<1>17. Once'
  <2>1. \A q \in live :
          /\ \A d \in Classes : q \notin central'[d]
          /\ \A u \in Threads, d \in Classes : q \notin lists'[u][d]
          /\ \A u \in Threads : ~ Taken(u, q)'
    <3> SUFFICES ASSUME NEW q \in live
                 PROVE  /\ \A d \in Classes : q \notin central'[d]
                        /\ \A u \in Threads, d \in Classes : q \notin lists'[u][d]
                        /\ \A u \in Threads : ~ Taken(u, q)'
      OBVIOUS
    <3>1. /\ \A d \in Classes : q \notin central[d]
          /\ \A u \in Threads, d \in Classes : q \notin lists[u][d]
          /\ \A u \in Threads : ~ Taken(u, q)
      BY DEF Inv, Once
    <3>2. q \notin pool /\ q \notin home /\ q \notin keep
      BY <1>6, <1>9, <3>1
    <3>3. \A d \in Classes : q \notin central'[d]
      BY <1>8, <3>1, <3>2
    <3>4. \A u \in Threads, d \in Classes : q \notin lists'[u][d]
      BY <1>8, <3>1, <3>2
    <3> QED BY <1>12, <3>1, <3>3, <3>4
  <2>2. \A d \in Classes : \A q \in central'[d] :
          /\ \A u \in Threads, f \in Classes : q \notin lists'[u][f]
          /\ \A u \in Threads : ~ Taken(u, q)'
    <3> SUFFICES ASSUME NEW d \in Classes, NEW q \in central'[d]
                 PROVE  /\ \A u \in Threads, f \in Classes : q \notin lists'[u][f]
                        /\ \A u \in Threads : ~ Taken(u, q)'
      OBVIOUS
    <3>1. CASE q \in central[d]
      BY <1>6, <1>8, <1>9, <1>12, <3>1 DEF Inv, Once
    <3>2. CASE q \notin central[d]
      <4>1. d = c /\ q \in pool /\ q \notin keep
        BY <1>8, <1>9, <3>2
      <4> QED BY <1>6, <1>8, <1>12, <4>1
    <3> QED BY <3>1, <3>2
  <2>3. \A u, w \in Threads, d \in Classes : \A q \in lists'[u][d] :
          /\ u # w => q \notin lists'[w][d]
          /\ ~ Taken(w, q)'
    <3> SUFFICES ASSUME NEW u \in Threads, NEW w \in Threads, NEW d \in Classes, NEW q \in lists'[u][d]
                 PROVE  (u # w => q \notin lists'[w][d]) /\ ~ Taken(w, q)'
      OBVIOUS
    <3>1. CASE q \in pool
      BY <1>6, <1>8, <1>9, <1>12, <3>1
    <3>2. CASE q \notin pool
      <4>1. q \in lists[u][d] /\ ~ (u = t /\ d = c)
        BY <1>8, <1>9, <3>2 DEF pool
      <4> QED BY <1>8, <1>9, <1>12, <3>2, <4>1 DEF Inv, Once
    <3> QED BY <3>1, <3>2
  <2>4. \A u, w \in Threads, q \in Addresses : Taken(u, q)' /\ Taken(w, q)' => u = w
    BY <1>12 DEF Inv, Once
  <2> QED BY <1>8, <2>1, <2>2, <2>3, <2>4 DEF Once
<1>18. Kept'
  <2> SUFFICES ASSUME NEW q \in Addresses, q \in BlocksIn(q[1])' PROVE Somewhere(q)'
    BY DEF Kept
  <2>1. q[1] \notin gone
    <3>1. q[1] \in gone => kind'[q[1]] = Free
      BY <1>5, <1>7
    <3> QED BY <3>1, BlockKindsNext
  <2>2. Somewhere(q)
    BY <1>13, <2>1 DEF Inv, Kept
  <2>3. CASE q \in pool
    <3>1. CASE q \in keep
      <4>1. q \in lists'[t][c]
        BY <1>8, <3>1
      <4> QED BY <4>1 DEF Somewhere
    <3>2. CASE q \in home
      <4>1. q \in central'[c]
        BY <1>8, <2>1, <3>2
      <4> QED BY <4>1 DEF Somewhere
    <3> QED BY <1>9, <2>3, <3>1, <3>2
  <2>4. CASE q \in live
    BY <1>8, <2>4 DEF Somewhere
  <2>5. CASE \E d \in Classes : q \in central[d]
    <3>1. PICK d \in Classes : q \in central[d]
      BY <2>5
    <3>2. q \in central'[d]
      <4>1. CASE d = c
        <5>1. q \in home
          BY <3>1, <4>1 DEF home
        <5> QED BY <1>8, <2>1, <4>1, <5>1
      <4>2. CASE d # c
        BY <1>8, <3>1, <4>2
      <4> QED BY <4>1, <4>2
    <3> QED BY <3>2 DEF Somewhere
  <2>6. CASE \E u \in Threads, d \in Classes : q \in lists[u][d] /\ q \notin pool
    BY <1>8, <2>6 DEF Somewhere, pool
  <2>7. CASE \E u \in Threads : Taken(u, q) /\ q \notin pool
    <3>1. PICK u \in Threads : Taken(u, q)
      BY <2>7
    <3>2. u # t
      BY <1>2, <2>7, <3>1 DEF pool
    <3>3. Taken(u, q)'
      BY <1>12, <3>1, <3>2
    <3> QED BY <3>3 DEF Somewhere
  <2> QED BY <2>2, <2>3, <2>4, <2>5, <2>6, <2>7 DEF Somewhere
<1>19. MarksExact'
  <2> SUFFICES ASSUME NEW q \in Addresses
               PROVE  /\ kind'[q[1]] \in Classes =>
                           /\ marks'[q[1]].size = CountOf(kind'[q[1]])
                           /\ (Marked(q)' <=> q \in live)
                      /\ kind'[q[1]] = Large /\ q[2] = 0 => (largeOut'[q[1]] <=> q \in live)
    BY <1>8 DEF MarksExact
  <2>1. CASE q[1] \in gone
    <3>1. kind'[q[1]] = Free
      BY <1>5, <1>7, <2>1
    <3> QED BY <3>1, NamesApart
  <2>2. CASE q[1] \notin gone
    <3>1. kind'[q[1]] = kind[q[1]] /\ marks'[q[1]] = marks[q[1]] /\ (largeOut'[q[1]] <=> largeOut[q[1]])
      BY <1>13, <2>2
    <3>2. Marked(q)' <=> Marked(q)
      BY <3>1 DEF Marked, debugBlockIndex
    <3> QED BY <3>1, <3>2 DEF Inv, MarksExact
  <2> QED BY <2>1, <2>2
<1> QED BY <1>14, <1>15, <1>16, <1>17, <1>18, <1>19 DEF Inv

(* A large span that is released is given back whole.                      *)
LEMMA Released ==
  ASSUME Inv, NEW t \in Threads, release(t)
  PROVE  Inv'
<1> DEFINE b == call[t].ptr
           s == b[1]
<1>1. /\ call[t].step = "release" /\ Taken(t, b) /\ ~ Inspected(s)
      /\ GiveBack({s}) /\ call' = [call EXCEPT ![t] = Idle]
      /\ UNCHANGED <<central, lists, live>>
  BY DEF release, Taken
<1>2. /\ b \in Addresses /\ s \in Spans /\ kind[s] = Large /\ b \in BlocksIn(s)
      /\ \A q \in Addresses : q[1] = s /\ q \in BlocksIn(s) => q = b
  <2>1. b \in Addresses /\ s \in Spans /\ kind[s] = Large /\ b \in BlocksIn(s)
    BY <1>1, CallParts, AddressParts DEF Inv, CallsExact
  <2>2. b = <<s, b[2]>> /\ b[2] = 0
    BY <2>1, BlockKinds, AddressParts
  <2>3. ASSUME NEW q \in Addresses, q[1] = s, q \in BlocksIn(s) PROVE q = b
    <3>1. q = <<q[1], q[2]>> /\ q[2] = 0
      BY <2>1, <2>3, BlockKinds, AddressParts
    <3> QED BY <2>2, <2>3, <3>1
  <2> QED BY <2>1, <2>3
<1> HIDE DEF b, s
<1>3. /\ \A r \in Spans : kind'[r] = IF r = s THEN Free ELSE kind[r]
      /\ \A r \in Spans : marks'[r] = IF r = s THEN EmptyMap ELSE marks[r]
      /\ \A r \in Spans : largeOut'[r] <=> r # s /\ largeOut[r]
      /\ \A u \in Threads : call'[u] = IF u = t THEN Idle ELSE call[u]
  BY <1>1 DEF GiveBack, Inv, TypeOK
<1>4. /\ \A q : ~ Taken(t, q)'
      /\ \A q : Taken(t, q) => q = b
      /\ \A u \in Threads \ {t} : \A q : Taken(u, q)' <=> Taken(u, q)
  BY <1>3 DEF Taken, Idle, b
<1>5. \A q \in Addresses : q[1] = s /\ Somewhere(q) => q = b
  BY <1>2, InUse DEF Inv
<1>6. /\ b \notin live
      /\ \A d \in Classes : b \notin central[d]
      /\ \A u \in Threads, d \in Classes : b \notin lists[u][d]
      /\ \A u \in Threads : Taken(u, b) => u = t
  BY <1>1, <1>2 DEF Inv, Once
<1>7. /\ \A q \in live : q \in Addresses /\ q[1] # s
      /\ \A d \in Classes : \A q \in central[d] : q \in Addresses /\ q[1] # s
      /\ \A u \in Threads, d \in Classes : \A q \in lists[u][d] : q \in Addresses /\ q[1] # s
      /\ \A u \in Threads \ {t} : \A q \in Addresses : Taken(u, q) => q[1] # s
  BY <1>5, <1>6, ZenonT(30) DEF Somewhere, Inv, TypeOK
<1>8. \A q \in Addresses : q[1] # s =>
         /\ kind'[q[1]] = kind[q[1]] /\ marks'[q[1]] = marks[q[1]] /\ (largeOut'[q[1]] <=> largeOut[q[1]])
         /\ \A d : BlockOf(q, d)' <=> BlockOf(q, d)
         /\ BlocksIn(q[1])' = BlocksIn(q[1])
  BY <1>3, AddressParts DEF BlockOf, BlocksIn
<1>9. TypeOK'
  <2>1. Idle \in CallRecord /\ EmptyMap \in [size : Nat, set : SUBSET Nat]
    BY DEF CallRecord, EmptyMap
  <2>2. largeOut' \in [Spans -> BOOLEAN]
    BY <1>1 DEF GiveBack
  <2> QED BY <1>1, <2>1, <2>2 DEF Inv, TypeOK, GiveBack
<1>10. AtHome'
  BY <1>1, <1>7, <1>8 DEF Inv, AtHome
<1>11. CallsExact'
  <2> SUFFICES ASSUME NEW u \in Threads
               PROVE  /\ call'[u].step = "mark" => \E d \in Classes : BlockOf(call[u].ptr, d)'
                      /\ call'[u].step = "push" =>
                           /\ ListFor(call[u].ptr, call[u].size)' \in Classes
                           /\ BlockOf(call[u].ptr, ListFor(call[u].ptr, call[u].size))'
                      /\ call'[u].step = "release" =>
                           kind'[call'[u].ptr[1]] = Large /\ call'[u].ptr \in BlocksIn(call[u].ptr[1])'
                      /\ call'[u].step = "check" => MayName(call[u].ptr, call[u].size)'
                      /\ call'[u].step # "again"
    BY DEF CallsExact
  <2>1. CASE u = t
    BY <1>3, <2>1 DEF Idle
  <2>2. CASE u # t /\ call[u].step # "idle"
    <3>1. call'[u] = call[u] /\ call[u].ptr \in Addresses /\ call[u].step # "again"
      BY <1>3, <2>2, CallParts DEF Inv, CallsExact
    <3>2. call[u].ptr[1] # s
      <4>1. CASE call[u].step \in {"mark", "push", "release"}
        BY <1>7, <2>2, <3>1, <4>1 DEF Taken
      <4>2. CASE call[u].step = "check"
        BY <1>1, <4>2 DEF Inspected
      <4> QED BY <2>2, <3>1, <4>1, <4>2, CallParts DEF Inv
    <3>3. /\ kind'[call[u].ptr[1]] = kind[call[u].ptr[1]]
          /\ \A d : BlockOf(call[u].ptr, d)' <=> BlockOf(call[u].ptr, d)
          /\ BlocksIn(call[u].ptr[1])' = BlocksIn(call[u].ptr[1])
      <4>1. PICK q \in Addresses : q = call[u].ptr
        BY <3>1
      <4> QED BY <1>8, <3>1, <3>2, <4>1
    <3> QED BY <3>1, <3>3 DEF Inv, CallsExact, ListFor, MayName
  <2>3. CASE u # t /\ call[u].step = "idle"
    BY <1>3, <2>3
  <2> QED BY <2>1, <2>2, <2>3
<1>12. Once'
  <2>1. \A u \in Threads : \A q : Taken(u, q)' => Taken(u, q)
    BY <1>4
  <2> QED BY <1>1, <2>1 DEF Inv, Once
<1>13. Kept'
  <2> SUFFICES ASSUME NEW q \in Addresses, q \in BlocksIn(q[1])' PROVE Somewhere(q)'
    BY DEF Kept
  <2>1. q[1] # s
    BY <1>2, <1>3, BlockKindsNext
  <2>2. Somewhere(q)
    BY <1>8, <2>1 DEF Inv, Kept
  <2>3. \A u \in Threads : Taken(u, q) => Taken(u, q)'
    BY <1>4, <2>1 DEF s
  <2> QED BY <1>1, <2>2, <2>3 DEF Somewhere
<1>14. MarksExact'
  <2> SUFFICES ASSUME NEW q \in Addresses
               PROVE  /\ kind'[q[1]] \in Classes =>
                           /\ marks'[q[1]].size = CountOf(kind'[q[1]])
                           /\ (Marked(q)' <=> q \in live)
                      /\ kind'[q[1]] = Large /\ q[2] = 0 => (largeOut'[q[1]] <=> q \in live)
    BY <1>1 DEF MarksExact
  <2>1. CASE q[1] = s
    <3>1. kind'[q[1]] = Free
      BY <1>2, <1>3, <2>1
    <3> QED BY <3>1, NamesApart
  <2>2. CASE q[1] # s
    <3>1. kind'[q[1]] = kind[q[1]] /\ marks'[q[1]] = marks[q[1]] /\ (largeOut'[q[1]] <=> largeOut[q[1]])
      BY <1>8, <2>2
    <3>2. Marked(q)' <=> Marked(q)
      BY <3>1 DEF Marked, debugBlockIndex
    <3> QED BY <3>1, <3>2 DEF Inv, MarksExact
  <2> QED BY <2>1, <2>2
<1> QED BY <1>9, <1>10, <1>11, <1>12, <1>13, <1>14 DEF Inv

-----------------------------------------------------------------------------
(* The invariant holds.                                                    *)

(* At first no span is in use and nothing is anywhere.                     *)
LEMMA InvInitially == Init => Inv
<1> SUFFICES ASSUME Init PROVE Inv
  OBVIOUS
<1>1. \A s \in Spans : kind[s] = Free
  BY DEF Init
<1>2. TypeOK
  <2>1. Idle \in CallRecord /\ EmptyMap \in [size : Nat, set : SUBSET Nat]
    BY DEF CallRecord, EmptyMap
  <2> QED BY <2>1 DEF Init, TypeOK
<1>3. AtHome /\ CallsExact /\ Once
  BY DEF Init, Idle, AtHome, CallsExact, Once, Taken
<1>4. Kept
  BY <1>1, BlockKinds, AddressParts DEF Kept
<1>5. MarksExact
  BY <1>1, AddressParts, NamesApart DEF MarksExact
<1> QED BY <1>2, <1>3, <1>4, <1>5 DEF Inv

(* A small allocation takes its block from the thread's list, from the     *)
(* central cache or from a new span.                                       *)
LEMMA SmallKeeps ==
  ASSUME Inv, NEW t \in Threads, NEW c \in Classes, allocateSmall(t, c)
  PROVE  Inv'
<1>1. call[t] = Idle /\ UNCHANGED <<largeOut, live>>
  BY DEF allocateSmall
<1>2. ASSUME NEW b \in lists[t][c], UNCHANGED <<kind, marks, central>>,
             lists' = [lists EXCEPT ![t][c] = @ \ {b}],
             call' = [call EXCEPT ![t] = [step |-> "mark", ptr |-> b]]
      PROVE  Inv'
  <2>1. PICK C, L : C = central[c] /\ L = lists[t][c] \ {b}
    OBVIOUS
  <2>2. /\ central' = [central EXCEPT ![c] = C] /\ lists' = [lists EXCEPT ![t][c] = L]
        /\ UNCHANGED <<kind, marks, largeOut, live>>
        /\ call' = [call EXCEPT ![t] = [step |-> "mark", ptr |-> b]]
    BY <1>1, <1>2, <2>1 DEF Inv, TypeOK
  <2>3. C \cap L = {} /\ b \notin C /\ b \notin L
    BY <1>2, <2>1 DEF Inv, Once
  <2>4. C \cup L \cup {b} = central[c] \cup lists[t][c] /\ b \in central[c] \cup lists[t][c]
    BY <1>2, <2>1
  <2> QED BY <1>1, <2>2, <2>3, <2>4, TakenFrom
<1>3. ASSUME lists[t][c] = {}, TakeBatch(t, c, central[c]), UNCHANGED <<kind, marks>>
      PROVE  Inv'
  <2>1. PICK batch \in SUBSET central[c], b \in central[c] :
          /\ b \in batch
          /\ central' = [central EXCEPT ![c] = central[c] \ batch]
          /\ lists' = [lists EXCEPT ![t][c] = batch \ {b}]
          /\ call' = [call EXCEPT ![t] = [step |-> "mark", ptr |-> b]]
    BY <1>3 DEF TakeBatch
  <2>2. PICK C, L : C = central[c] \ batch /\ L = batch \ {b}
    OBVIOUS
  <2>3. /\ C \cup L \cup {b} = central[c] \cup lists[t][c] /\ b \in central[c] \cup lists[t][c]
        /\ C \cap L = {} /\ b \notin C /\ b \notin L
    BY <1>3, <2>1, <2>2
  <2>4. /\ central' = [central EXCEPT ![c] = C] /\ lists' = [lists EXCEPT ![t][c] = L]
        /\ call' = [call EXCEPT ![t] = [step |-> "mark", ptr |-> b]]
        /\ UNCHANGED <<kind, marks, largeOut, live>>
    BY <1>1, <1>3, <2>1, <2>2
  <2> QED BY <1>1, <2>3, <2>4, TakenFrom
<1>4. ASSUME lists[t][c] = {}, central[c] = {}, NEW s \in Spans, kind[s] = Free, ~ Inspected(s),
             kind' = [kind EXCEPT ![s] = c], marks' = [marks EXCEPT ![s] = FreshMap(c)],
             TakeBatch(t, c, BlocksOf(s, c))
      PROVE  Inv'
  <2>1. PICK batch \in SUBSET BlocksOf(s, c), b \in BlocksOf(s, c) :
          /\ b \in batch
          /\ central' = [central EXCEPT ![c] = BlocksOf(s, c) \ batch]
          /\ lists' = [lists EXCEPT ![t][c] = batch \ {b}]
          /\ call' = [call EXCEPT ![t] = [step |-> "mark", ptr |-> b]]
    BY <1>4 DEF TakeBatch
  <2>2. PICK C, L : C = BlocksOf(s, c) \ batch /\ L = batch \ {b}
    OBVIOUS
  <2>3. /\ C \cup L \cup {b} = BlocksOf(s, c)
        /\ C \cap L = {} /\ b \notin C /\ b \notin L
    BY <2>1, <2>2
  <2>4. /\ central' = [central EXCEPT ![c] = C] /\ lists' = [lists EXCEPT ![t][c] = L]
        /\ call' = [call EXCEPT ![t] = [step |-> "mark", ptr |-> b]]
        /\ UNCHANGED <<largeOut, live>>
    BY <1>1, <2>1, <2>2
  <2> QED BY <1>1, <1>4, <2>3, <2>4, CutFrom
<1> QED BY <1>2, <1>3, <1>4 DEF allocateSmall

(* A push puts the block on its list, or halves the list with the block.   *)
LEMMA PushKeeps ==
  ASSUME Inv, NEW t \in Threads, push(t)
  PROVE  Inv'
<1> DEFINE c == ListFor(call[t].ptr, call[t].size)
           list == lists[t][c] \cup {call[t].ptr}
<1>1. /\ call[t].step = "push" /\ call' = [call EXCEPT ![t] = Idle] /\ UNCHANGED live
      /\ c \in Classes /\ BlockOf(call[t].ptr, c)
  BY DEF push, Inv, CallsExact
<1>2. InCall(t) = {call[t].ptr}
  BY <1>1 DEF InCall
<1>3. CASE Cardinality(list) > MaxCached
  <2>1. PICK keep \in SUBSET list :
          /\ lists' = [lists EXCEPT ![t][c] = keep]
          /\ returnRange(c, list \ keep)
    BY <1>3 DEF push
  <2> QED BY <1>1, <1>2, <2>1, Returned
<1>4. CASE ~ (Cardinality(list) > MaxCached)
  <2>1. /\ lists' = [lists EXCEPT ![t][c] = list]
        /\ UNCHANGED <<kind, marks, largeOut, central>>
    BY <1>4 DEF push
  <2>2. lists' = [lists EXCEPT ![t][c] = @ \cup {call[t].ptr}]
    BY <1>1, <2>1
  <2> QED BY <1>1, <2>1, <2>2, Joined
<1> QED BY <1>3, <1>4

(* A check lets the free through or ends it.                               *)
LEMMA CheckKeeps ==
  ASSUME ~ WrongKind, Inv, NEW t \in Threads, validateAndMarkFreed(t)
  PROVE  Inv'
<1>1. call[t].step = "check"
  BY DEF validateAndMarkFreed, Inv, CallsExact
<1>2. CASE Validated(call[t].ptr, call[t].size)
  BY <1>1, <1>2, LetThrough
<1>3. CASE ~ Validated(call[t].ptr, call[t].size)
  <2>1. /\ call' = [call EXCEPT ![t] = Idle]
        /\ UNCHANGED <<kind, marks, largeOut, central, lists, live>>
    BY <1>1, <1>3 DEF validateAndMarkFreed
  <2>2. ~ \E p : Taken(t, p)
    BY <1>1 DEF Taken
  <2> QED BY <2>1, <2>2, Refused
<1> QED BY <1>2, <1>3

(* Every step keeps the invariant.                                         *)
LEMMA InvInductive == ~ WrongKind /\ Inv /\ [Next]_vars => Inv'
<1> SUFFICES ASSUME ~ WrongKind, Inv, [Next]_vars PROVE Inv'
  OBVIOUS
<1>1. ASSUME NEW t \in Threads, NEW c \in Classes, allocateSmall(t, c) PROVE Inv'
  BY <1>1, SmallKeeps
<1>2. ASSUME NEW t \in Threads, NEW c \in Classes, flush(t, c) PROVE Inv'
  <2>1. /\ call[t] = Idle /\ returnRange(c, lists[t][c])
        /\ lists' = [lists EXCEPT ![t][c] = {}] /\ UNCHANGED <<live, call>>
    BY <1>2 DEF flush
  <2>2. InCall(t) = {} /\ call[t].step = "idle"
    BY <2>1 DEF InCall, Idle
  <2>3. call' = [call EXCEPT ![t] = Idle]
    BY <2>1 DEF Inv, TypeOK
  <2>4. (lists[t][c] \cup InCall(t)) \ {} = lists[t][c]
    BY <2>2
  <2>5. returnRange(c, (lists[t][c] \cup InCall(t)) \ {})
    BY <2>1, <2>4
  <2> QED BY <2>1, <2>2, <2>3, <2>5, Returned
<1>3. ASSUME NEW t \in Threads, allocateLarge(t) PROVE Inv'
  BY <1>3, LargeFrom
<1>4. ASSUME NEW t \in Threads, markAllocated(t) PROVE Inv'
  BY <1>4, Granted
<1>5. ASSUME NEW t \in Threads, NEW p \in Addresses, NEW e \in Sizes, deallocate(t, p, e) PROVE Inv'
  BY <1>5, LookedUp
<1>6. ASSUME NEW t \in Threads, validateAndMarkFreed(t) PROVE Inv'
  BY <1>6, CheckKeeps
<1>7. ASSUME NEW t \in Threads, push(t) PROVE Inv'
  BY <1>7, PushKeeps
<1>8. ASSUME NEW t \in Threads, release(t) PROVE Inv'
  BY <1>8, Released
<1>9. CASE UNCHANGED vars
  <2>1. UNCHANGED <<kind, marks, largeOut, central, lists, live, call>>
    BY <1>9 DEF vars
  <2>2. TypeOK'
    BY <2>1 DEF Inv, TypeOK
  <2>3. AtHome'
    BY <2>1 DEF Inv, AtHome, BlockOf, BlocksIn
  <2>4. CallsExact'
    BY <2>1 DEF Inv, CallsExact, BlockOf, BlocksIn, ListFor, MayName
  <2>5. Once'
    BY <2>1 DEF Inv, Once, Taken
  <2>6. Kept'
    BY <2>1 DEF Inv, Kept, Somewhere, Taken, BlocksIn
  <2>7. MarksExact'
    BY <2>1 DEF Inv, MarksExact, Marked, debugBlockIndex
  <2> QED BY <2>2, <2>3, <2>4, <2>5, <2>6, <2>7 DEF Inv
<1> QED BY <1>1, <1>2, <1>3, <1>4, <1>5, <1>6, <1>7, <1>8, <1>9 DEF Next, Sizes

(* The invariant holds for every program that names sizes of the right     *)
(* kind, whatever else it frees wrongly.                                   *)
THEOREM InvHolds == ASSUME ~ WrongKind PROVE Spec => []Inv
<1>1. Inv /\ [Next]_vars => Inv'
  BY InvInductive
<1> QED BY <1>1, InvInitially, PTL DEF Spec

-----------------------------------------------------------------------------
(* The properties.                                                         *)

(* A block in one place has one place, one that is nowhere has none.       *)
LEMMA InvOnePlace == Inv => OnePlace
<1> SUFFICES ASSUME Inv, NEW p \in Addresses
             PROVE  Cardinality(Places(p)) = IF p \in BlocksIn(p[1]) THEN 1 ELSE 0
  BY DEF OnePlace
<1>1. \A t \in Threads : p \in InCall(t) <=> Taken(t, p)
  BY DEF InCall, Taken
<1>2. \A x : x \in Places(p) <=>
        \/ x = <<"live", p>> /\ p \in live
        \/ \E c \in Classes : x = <<"central", c>> /\ p \in central[c]
        \/ \E t \in Threads, c \in Classes : x = <<"list", t, c>> /\ p \in lists[t][c]
        \/ \E t \in Threads : x = <<"call", t>> /\ Taken(t, p)
  <2>1. \A x : x \in {<<"live", p>> : y \in live \cap {p}} <=> x = <<"live", p>> /\ p \in live
    OBVIOUS
  <2>2. \A x : x \in {<<"central", c>> : c \in {c \in Classes : p \in central[c]}} <=>
                 \E c \in Classes : x = <<"central", c>> /\ p \in central[c]
    OBVIOUS
  <2>3. \A x : x \in {<<"list", q[1], q[2]>> : q \in {q \in Threads \X Classes : p \in lists[q[1]][q[2]]}} <=>
                 \E t \in Threads, c \in Classes : x = <<"list", t, c>> /\ p \in lists[t][c]
    <3>1. ASSUME NEW q \in Threads \X Classes, p \in lists[q[1]][q[2]]
          PROVE  \E t \in Threads, c \in Classes : <<"list", q[1], q[2]>> = <<"list", t, c>> /\ p \in lists[t][c]
      BY <3>1
    <3>2. ASSUME NEW t \in Threads, NEW c \in Classes, p \in lists[t][c]
          PROVE  \E q \in {q \in Threads \X Classes : p \in lists[q[1]][q[2]]} :
                   <<"list", q[1], q[2]>> = <<"list", t, c>>
      <4>1. /\ <<t, c>> \in Threads \X Classes /\ p \in lists[<<t, c>>[1]][<<t, c>>[2]]
            /\ <<"list", <<t, c>>[1], <<t, c>>[2]>> = <<"list", t, c>>
        BY <3>2
      <4> QED BY <4>1
    <3> QED BY <3>1, <3>2
  <2>4. \A x : x \in {<<"call", t>> : t \in {t \in Threads : p \in InCall(t)}} <=>
                 \E t \in Threads : x = <<"call", t>> /\ Taken(t, p)
    BY <1>1
  <2> QED BY <2>1, <2>2, <2>3, <2>4 DEF Places
<1>3. CASE p \notin BlocksIn(p[1])
  <2>1. ~ Somewhere(p)
    BY <1>3, InUse DEF Inv
  <2>2. Places(p) = {}
    BY <1>2, <2>1 DEF Somewhere
  <2> QED BY <1>3, <2>2, FS_EmptySet
<1>4. CASE p \in BlocksIn(p[1])
  <2>1. \E x : Places(p) = {x}
    <3>1. Somewhere(p)
      BY <1>4 DEF Inv, Kept
    <3>2. CASE p \in live
      <4>1. \A x : x \in Places(p) <=> x = <<"live", p>>
        BY <1>2, <3>2 DEF Inv, Once
      <4>2. Places(p) = {<<"live", p>>}
        BY <4>1
      <4> QED BY <4>2
    <3>3. CASE \E c \in Classes : p \in central[c]
      <4>1. PICK c \in Classes : p \in central[c]
        BY <3>3
      <4>2. \A d \in Classes : p \in central[d] => d = c
        BY <4>1 DEF Inv, AtHome, BlockOf
      <4>3. /\ p \notin live /\ \A t \in Threads : ~ Taken(t, p)
            /\ \A t \in Threads, d \in Classes : p \notin lists[t][d]
        BY <4>1 DEF Inv, Once
      <4>4. \A x : x \in Places(p) <=> x = <<"central", c>>
        BY <1>2, <4>1, <4>2, <4>3
      <4>5. Places(p) = {<<"central", c>>}
        BY <4>4
      <4> QED BY <4>5
    <3>4. CASE \E t \in Threads, c \in Classes : p \in lists[t][c]
      <4>1. PICK t \in Threads, c \in Classes : p \in lists[t][c]
        BY <3>4
      <4>2. \A u \in Threads, d \in Classes : p \in lists[u][d] => u = t /\ d = c
        <5>1. \A u \in Threads, d \in Classes : p \in lists[u][d] => d = c
          BY <4>1 DEF Inv, AtHome, BlockOf
        <5> QED BY <4>1, <5>1 DEF Inv, Once
      <4>3. /\ p \notin live /\ \A u \in Threads : ~ Taken(u, p)
            /\ \A d \in Classes : p \notin central[d]
        BY <4>1 DEF Inv, Once
      <4>4. \A x : x \in Places(p) <=> x = <<"list", t, c>>
        BY <1>2, <4>1, <4>2, <4>3
      <4>5. Places(p) = {<<"list", t, c>>}
        BY <4>4
      <4> QED BY <4>5
    <3>5. CASE \E t \in Threads : Taken(t, p)
      <4>1. PICK t \in Threads : Taken(t, p)
        BY <3>5
      <4>2. /\ p \notin live /\ \A u \in Threads : Taken(u, p) => u = t
            /\ \A d \in Classes : p \notin central[d]
            /\ \A u \in Threads, d \in Classes : p \notin lists[u][d]
        BY <4>1 DEF Inv, Once
      <4>3. \A x : x \in Places(p) <=> x = <<"call", t>>
        BY <1>2, <4>1, <4>2
      <4>4. Places(p) = {<<"call", t>>}
        BY <4>3
      <4> QED BY <4>4
    <3> QED BY <3>1, <3>2, <3>3, <3>4, <3>5 DEF Somewhere
  <2> QED BY <1>4, <2>1, FS_Singleton
<1> QED BY <1>3, <1>4

(* Every block of every span in use is in exactly one place, and nothing   *)
(* else is anywhere, for any threads, classes, spans and limits: no free   *)
(* passes twice and no allocation is refused for a stale mark.             *)
THEOREM OnePlaceCorrect == ASSUME ~ WrongKind PROVE Spec => []OnePlace
<1>1. Spec => []Inv
  BY InvHolds
<1> QED BY <1>1, InvOnePlace, PTL

(* Only its own check moves a call on from the lookup.                     *)
LEMMA OnlyCheckMoves ==
  ASSUME Inv, [Next]_vars, NEW t \in Threads, call[t].step = "check", call'[t] # call[t]
  PROVE  validateAndMarkFreed(t)
<1>1. \A u \in Threads : call' = [call EXCEPT ![u] = call'[u]] => u = t
  BY DEF Inv, TypeOK
<1>2. call[t] # Idle
  BY DEF Idle
<1>3. ASSUME NEW u \in Threads, NEW c \in Classes, allocateSmall(u, c) PROVE FALSE
  <2>1. call[u] = Idle /\ \E v : call' = [call EXCEPT ![u] = v]
    BY <1>3 DEF allocateSmall, TakeBatch
  <2> QED BY <1>2, <2>1 DEF Inv, TypeOK
<1>4. ASSUME NEW u \in Threads, NEW c \in Classes, flush(u, c) PROVE FALSE
  BY <1>4 DEF flush
<1>5. ASSUME NEW u \in Threads, allocateLarge(u) PROVE FALSE
  BY <1>5 DEF allocateLarge
<1>6. ASSUME NEW u \in Threads, markAllocated(u) \/ push(u) \/ release(u) PROVE FALSE
  <2>1. call[u].step # "check" /\ call' = [call EXCEPT ![u] = Idle]
    BY <1>6 DEF markAllocated, push, release
  <2> QED BY <2>1 DEF Inv, TypeOK
<1>7. ASSUME NEW u \in Threads, NEW p \in Addresses, NEW e \in Sizes, deallocate(u, p, e) PROVE FALSE
  <2>1. call[u] = Idle /\ \E v : call' = [call EXCEPT ![u] = v]
    BY <1>7 DEF deallocate
  <2> QED BY <1>2, <2>1 DEF Inv, TypeOK
<1>8. ASSUME NEW u \in Threads, validateAndMarkFreed(u) PROVE validateAndMarkFreed(t)
  <2>1. \E v : call' = [call EXCEPT ![u] = v]
    BY <1>8 DEF validateAndMarkFreed
  <2>2. u = t
    BY <2>1 DEF Inv, TypeOK
  <2> QED BY <1>8, <2>2
<1>9. CASE UNCHANGED vars
  BY <1>9 DEF vars
<1> QED BY <1>3, <1>4, <1>5, <1>6, <1>7, <1>8, <1>9 DEF Next, Sizes

(* A free is let through exactly when the program holds the block and      *)
(* names no other size.                                                    *)
THEOREM JudgedRightlyCorrect == ASSUME ~ WrongKind PROVE Spec => JudgedRightly
<1>1. ASSUME Inv, [Next]_vars, NEW t \in Threads, call[t].step = "check", call'[t] # call[t]
      PROVE  (call'[t].step # "idle") =
               (call[t].ptr \in live /\ RightSize(call[t].ptr, call[t].size))
  <2> DEFINE p == call[t].ptr
             e == call[t].size
  <2>1. validateAndMarkFreed(t)
    BY <1>1, OnlyCheckMoves
  <2>2. p \in Addresses /\ e \in Sizes /\ MayName(p, e)
    BY <1>1, CallParts DEF Inv, CallsExact
  <2>3. Validated(p, e) <=> p \in live /\ RightSize(p, e)
    BY <1>1, <2>2, Judged DEF Inv
  <2>4. CASE Validated(p, e)
    <3>1. AfterCheck(p, e) \in {"push", "release"}
      BY <1>1, <2>2, <2>4, Passed DEF Inv
    <3>2. call'[t] = [step |-> AfterCheck(p, e), ptr |-> p, size |-> e]
      BY <1>1, <2>1, <2>4 DEF validateAndMarkFreed, Inv, TypeOK
    <3>3. call'[t].step # "idle"
      BY <3>1, <3>2
    <3> QED BY <2>3, <2>4, <3>3
  <2>5. CASE ~ Validated(p, e)
    <3>1. call'[t] = Idle
      BY <1>1, <2>1, <2>5 DEF validateAndMarkFreed, Inv, TypeOK
    <3>2. call'[t].step = "idle"
      BY <3>1 DEF Idle
    <3> QED BY <2>3, <2>5, <3>2
  <2> QED BY <2>4, <2>5
<1>2. Inv /\ [Next]_vars =>
        [\A t \in Threads :
           call[t].step = "check" /\ call'[t] # call[t] =>
             ((call'[t].step # "idle") =
                (call[t].ptr \in live /\ RightSize(call[t].ptr, call[t].size)))]_vars
  BY <1>1
<1>3. Spec => []Inv
  BY InvHolds
<1> QED BY <1>2, <1>3, PTL DEF Spec, JudgedRightly
=============================================================================
