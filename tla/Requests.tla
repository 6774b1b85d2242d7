------------------------------- MODULE Requests -------------------------------
(***************************************************************************)
(* How the v3 pool turns a request into a block or into pages: the entry   *)
(* points of ThreadCache, the STL allocator's front (Allocator.h), and     *)
(* PageCache::systemAlloc, in the arithmetic of a size_t; and how v1 finds *)
(* the pool of a size (v1/include/MemoryPool.h).                           *)
(*                                                                         *)
(* Once the tables are built, any one request is answered.  Where the      *)
(* memory lies is a free choice: a block is the first or the second of a   *)
(* span that starts at any page, a large object starts at any page.        *)
(***************************************************************************)
EXTENDS SizeClasses

CONSTANTS
  SizeMax,       \* SIZE_MAX, one less than a power of two
  PageSize,      \* systemPageSize()
  Granularity,   \* systemAllocGranularity()
  Sizes,         \* the sizes asked for
  Alignments,    \* the alignments asked for
  Counts,        \* the numbers of objects containers ask for
  Types,         \* <<sizeof, alignof>> of the types the STL allocator serves
  SlotBase,      \* v1: SLOT_BASE_SIZE
  NumPools,      \* v1: MEMORY_POOL_NUM
  MaxSlotSize    \* v1: MAX_SLOT_SIZE

IsPower(a) == \E k \in 0 .. 30 : a = 2 ^ k

ASSUME RequestsAssumption ==
  /\ SizeMax \in Nat /\ MaxBytes < SizeMax
  /\ PageSize \in PageSizes /\ IsPower(PageSize)
  /\ Granularity \in Nat \ {0} /\ IsPower(Granularity)
  /\ Sizes \cup Alignments \cup Counts \subseteq 0 .. SizeMax
  /\ Types \subseteq (1 .. SizeMax) \X (1 .. SizeMax)
  /\ SlotBase \in Nat \ {0} /\ NumPools \in Nat /\ MaxSlotSize = NumPools * SlotBase

VARIABLE answer     \* the request and what came of it

requestVars == <<stage, align, size, sizes, count, at, index, smallMap, unitMap, answer>>

Word(x) == x % (SizeMax + 1)
RoundTo(x, a) == (x \div a) * a      \* x & ~(a - 1) when a is a power of two

None     == [kind |-> "none"]
Refused  == [kind |-> "refused"]
NoMemory == [kind |-> "no memory"]

-----------------------------------------------------------------------------
TooManyPages(n) == n > SizeMax \div PageSize

(* PageCache::systemAlloc: the bytes mapped, or 0 if refused.              *)
systemAlloc(numPages) ==
  LET bytes == Word(numPages * PageSize)
  IN  IF TooManyPages(numPages) \/ bytes > SizeMax - (Granularity - 1) THEN 0
      ELSE RoundTo(Word(bytes + Granularity - 1), Granularity)

NoRoomToRound(bytes, unit) == bytes > SizeMax - (unit - 1)

(* A request above MAX_BYTES gets a cached span of exactly its pages or a  *)
(* fresh mapping.                                                          *)
allocateLarge(bytes) ==
  LET numPages == Word(bytes + PageSize - 1) \div PageSize
      mapped   == systemAlloc(numPages)
  IN  IF NoRoomToRound(bytes, PageSize) \/ mapped = 0 THEN {Refused}
      ELSE {NoMemory} \cup
           {[kind |-> "pages", bytes |-> n, class |-> count, addr |-> p * PageSize] :
              n \in {numPages * PageSize, mapped}, p \in 1 .. 2}

allocateBlock(class) ==
  {NoMemory} \cup
  {[kind |-> "block", bytes |-> getSize(class), class |-> class,
    addr |-> p * PageSize + i * getSize(class)] : p \in 1 .. 2, i \in 0 .. 1}

NonZero(bytes) == IF bytes = 0 THEN Alignment ELSE bytes

allocate(bytes) ==
  IF bytes > MaxBytes THEN allocateLarge(bytes) ELSE allocateBlock(getIndex(NonZero(bytes)))

(* A variant that does not round the size up to the alignment.             *)
NeedUnrounded(bytes, alignment) == bytes

Need(bytes, alignment) == RoundTo(Word(bytes + alignment - 1), alignment)

allocateAligned(bytes, alignment) ==
  IF ~ IsPower(alignment)                 THEN {Refused}
  ELSE IF alignment <= Alignment          THEN allocate(bytes)
  ELSE IF NoRoomToRound(bytes, alignment) THEN {Refused}
  ELSE allocate(Need(bytes, alignment))

(* The class the sized deallocate puts an object of this size in; `count'  *)
(* when it goes by the object's span.                                      *)
freeClass(bytes) ==
  IF NonZero(bytes) > MaxBytes THEN count ELSE getIndex(roundUp(NonZero(bytes)))

-----------------------------------------------------------------------------
(* v1: the pool of a size, counted from zero, and the bytes of its slots.   *)

(* A variant that rounds the size down to a unit.                          *)
poolIndexDown(bytes) == IF bytes < SlotBase THEN 0 ELSE bytes \div SlotBase - 1

poolIndex(bytes) == (bytes + SlotBase - 1) \div SlotBase - 1

slotBytes(pool) == (pool + 1) * SlotBase

useMemory(bytes) ==
  IF bytes > MaxSlotSize THEN {[kind |-> "operator new"]}
  ELSE {[kind |-> "slot", bytes |-> slotBytes(poolIndex(bytes)), class |-> poolIndex(bytes)]}

(* A variant that takes the pool of the next unit at a whole number of them. *)
freePoolIndexPast(bytes) == bytes \div SlotBase

freePoolIndex(bytes) == (bytes + SlotBase - 1) \div SlotBase - 1

-----------------------------------------------------------------------------
(* The program runs and asks once.                                         *)
Answer(bytes, alignment, results) ==
  /\ stage = "ready"
  /\ stage' = "running"
  /\ \E result \in results :
       answer' = [kind |-> result.kind, size |-> bytes, alignment |-> alignment, result |-> result]
  /\ UNCHANGED <<at, index, smallMap, unitMap>>
  /\ UNCHANGED tableVars

Ask(bytes, alignment) == Answer(bytes, alignment, allocateAligned(bytes, alignment))

TooMany(n, sizeof) == n > SizeMax \div sizeof

(* Allocator<T>::allocate(n): for no object nothing is allocated.          *)
AskObjects(n, sizeof, alignof) ==
  /\ n # 0
  /\ Answer(n * sizeof, alignof,
            IF TooMany(n, sizeof) THEN {Refused} ELSE allocateAligned(Word(n * sizeof), alignof))

newElement(bytes) == bytes # 0 /\ Answer(bytes, 1, useMemory(bytes))

RequestInit == BuildInit /\ answer = None

RequestNext ==
  \/ BuildNext /\ UNCHANGED answer
  \/ \E bytes \in Sizes, alignment \in Alignments : Ask(bytes, alignment)
  \/ \E n \in Counts, t \in Types : AskObjects(n, t[1], t[2])
  \/ \E bytes \in Sizes : newElement(bytes)

RequestSpec == RequestInit /\ [][RequestNext]_requestVars

-----------------------------------------------------------------------------
Served == answer.kind \in {"block", "pages", "slot"}

(* What is handed out holds what was asked for: no sum or product on the   *)
(* way wraps around, and no table or division gives a class too small.     *)
BigEnough == Served => answer.size <= answer.result.bytes

(* An object of some bytes lies at a multiple of the alignment asked for,  *)
(* up to the size of a page.                                               *)
AlignedWithinPage ==
  /\ AlignmentKept
  /\ answer.kind \in {"block", "pages"} /\ answer.size > 0 /\ answer.alignment <= PageSize =>
       answer.result.addr % answer.alignment = 0

(* Freeing by the size that was asked for finds the class of the block, in *)
(* v3 (Allocator.h does so only for types of small alignment) and in v1.   *)
SizedFreeMatches ==
  Served /\ answer.alignment <= Alignment =>
    answer.result.class =
      IF answer.kind = "slot" THEN freePoolIndex(answer.size) ELSE freeClass(answer.size)
=============================================================================
