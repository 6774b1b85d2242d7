----------------------------- MODULE SizeClasses -----------------------------
(***************************************************************************)
(* The size classes of the v3 pool (v3/src/Common.h): a table of block     *)
(* sizes and two maps from request sizes to classes, which the compiler    *)
(* builds with three loops and then checks with static assertions.  v2     *)
(* builds the table and the small map with the same loops.                 *)
(*                                                                         *)
(* A step is an iteration of a loop; `stage' says which one is running.    *)
(* "rejected" is a build that a static assertion stops, "ready" one that    *)
(* passes; "running" is a program that uses the tables.                    *)
(***************************************************************************)
EXTENDS Integers

CONSTANTS
  Alignment,    \* ALIGNMENT
  MaxBytes,     \* MAX_BYTES
  MaxClasses,   \* kMaxSizeClasses
  SmallLimit,   \* the largest size in kSmallIndexMap
  PageSizes     \* what systemPageSize() may return

ASSUME SizeClassesAssumption ==
  /\ Alignment \in Nat \ {0}
  /\ MaxBytes \in Nat
  /\ MaxClasses \in 1 .. 256
  /\ SmallLimit \in 0 .. MaxBytes
  /\ PageSizes \subseteq Nat \ {0}

VARIABLES
  stage,             \* the loop that is running
  align, size,       \* locals of makeSizeClassTable
  sizes, count,      \* kSizeClassTable
  at, index,         \* locals of makeSmallIndexMap and makeIndexMap
  smallMap, unitMap  \* kSmallIndexMap, kIndexMap

buildVars == <<stage, align, size, sizes, count, at, index, smallMap, unitMap>>

tableVars == <<align, size, sizes, count>>

LastUnit == MaxBytes \div Alignment    \* kIndexMapEntries - 1

-----------------------------------------------------------------------------
(* makeSizeClassTable.                                                     *)

NextAlign(s, a) == IF s >= a * 8 THEN a * 2 ELSE a

MoreSizes == count < MaxClasses /\ size + align <= MaxBytes

AddSize ==
  /\ stage = "sizes"
  /\ MoreSizes
  /\ size' = size + align
  /\ sizes' = [sizes EXCEPT ![count] = size + align]
  /\ count' = count + 1
  /\ align' = NextAlign(size + align, align)
  /\ UNCHANGED <<stage, at, index, smallMap, unitMap>>

-----------------------------------------------------------------------------
(* makeSmallIndexMap and makeIndexMap.                                     *)

LastAt == IF stage = "small" THEN SmallLimit ELSE LastUnit

(* The size an entry stands for.                                           *)
Bytes(n) ==
  IF n = 0 THEN Alignment ELSE IF stage = "small" THEN n ELSE n * Alignment

(* A variant that never gives out the last class.                          *)
TooSmallShort(bytes) == index + 2 < count /\ sizes[index] < bytes

TooSmall(bytes) == index + 1 < count /\ sizes[index] < bytes

Filling == stage \in {"small", "units"} /\ at <= LastAt

NextClass ==
  /\ Filling
  /\ TooSmall(Bytes(at))
  /\ index' = index + 1
  /\ UNCHANGED <<stage, at, smallMap, unitMap>>
  /\ UNCHANGED tableVars

Record ==
  /\ Filling
  /\ ~ TooSmall(Bytes(at))
  /\ at' = at + 1
  /\ IF stage = "small"
     THEN /\ smallMap' = [smallMap EXCEPT ![at] = index % 256]
          /\ UNCHANGED unitMap
     ELSE /\ unitMap' = [unitMap EXCEPT ![at] = index % 256]
          /\ UNCHANGED smallMap
  /\ UNCHANGED <<stage, index>>
  /\ UNCHANGED tableVars

-----------------------------------------------------------------------------
StartLoop(next) ==
  /\ stage' = next
  /\ at' = 0
  /\ index' = 0
  /\ UNCHANGED <<smallMap, unitMap>>
  /\ UNCHANGED tableVars

(* The static assertions on the table.                                     *)
Accepted ==
  /\ count > 0
  /\ sizes[0] = Alignment
  /\ sizes[count - 1] = MaxBytes

Proceed ==
  \/ stage = "sizes" /\ ~ MoreSizes /\ StartLoop("small")
  \/ stage = "small" /\ ~ Filling /\ StartLoop("units")
  \/ stage = "units" /\ ~ Filling /\ StartLoop(IF Accepted THEN "ready" ELSE "rejected")

BuildInit ==
  /\ stage = "sizes"
  /\ align = Alignment
  /\ size = 0
  /\ sizes = [i \in 0 .. (MaxClasses - 1) |-> 0]
  /\ count = 0
  /\ at = 0
  /\ index = 0
  /\ smallMap = [n \in 0 .. SmallLimit |-> 0]
  /\ unitMap = [u \in 0 .. LastUnit |-> 0]

BuildNext ==
  \/ AddSize
  \/ NextClass
  \/ Record
  \/ Proceed

BuildSpec == BuildInit /\ [][BuildNext]_buildVars

-----------------------------------------------------------------------------
(* The functions of class SizeClass.                                       *)

UnitsUp(bytes) == (bytes + Alignment - 1) \div Alignment

getIndex(bytes) ==
  IF bytes <= SmallLimit THEN smallMap[bytes]
  ELSE IF bytes > MaxBytes THEN count
  ELSE unitMap[UnitsUp(bytes)]

getSize(i) == sizes[i]

(* v2 has no second map and searches the table for sizes above 256 bytes.  *)
Search(bytes) ==
  LET from[r \in (0 .. count) \X (0 .. count)] ==
        LET lo  == r[1]
            hi  == r[2]
            mid == (lo + hi) \div 2
        IN  IF lo >= hi THEN lo
            ELSE IF sizes[mid] < bytes THEN from[<<mid + 1, hi>>] ELSE from[<<lo, mid>>]
  IN  from[<<0, count>>]

getIndexV2(bytes) == IF bytes <= SmallLimit THEN smallMap[bytes] ELSE Search(bytes)

roundUp(bytes) == IF bytes > MaxBytes THEN UnitsUp(bytes) * Alignment ELSE getSize(getIndex(bytes))

-----------------------------------------------------------------------------
(* What ThreadCache and CentralCache derive from the size of a class.      *)

Least(a, b)    == IF a <= b THEN a ELSE b
Greatest(a, b) == IF a >= b THEN a ELSE b

maxCachedBlocks(bytes) ==
  IF      bytes <= 32   THEN 4096
  ELSE IF bytes <= 64   THEN 2048
  ELSE IF bytes <= 256  THEN 1024
  ELSE IF bytes <= 1024 THEN 256
  ELSE IF bytes <= 4096 THEN 512
  ELSE Least(Greatest(1, 262144 \div Greatest(bytes, Alignment)), 128)

(* A variant with a budget of bytes no batch of large blocks fits.          *)
BatchBytesLarge == 4 * 1024 * 1024

BatchBytes == 64 * 1024

getBatchNum(bytes) ==
  LET n    == Greatest(1, BatchBytes \div Greatest(bytes, Alignment))
      most == IF      bytes <= 32   THEN 512
              ELSE IF bytes <= 64   THEN 256
              ELSE IF bytes <= 256  THEN 128
              ELSE IF bytes <= 1024 THEN 32
              ELSE 16
  IN  Greatest(1, Least(n, most))

targetBytes(bytes) ==
  IF      bytes <= 256  THEN 32 * 1024
  ELSE IF bytes <= 1024 THEN 128 * 1024
  ELSE IF bytes <= 4096 THEN 512 * 1024
  ELSE 2 * 1024 * 1024

(* The pages createSpan asks for when a page has ps bytes.                 *)
spanPages(bytes, ps) ==
  LET target == Greatest(ps, targetBytes(bytes))
      needed == IF bytes > target THEN ((bytes + ps - 1) \div ps) * ps ELSE target
  IN  Greatest(1, needed \div ps)

-----------------------------------------------------------------------------
LeastClass(n, i) == i < count /\ n <= getSize(i) /\ (i > 0 => getSize(i - 1) < n)

(* The table ascends, and getIndex names the smallest class that holds the *)
(* request, for every size up to MAX_BYTES, whichever of the two maps      *)
(* serves it.  The binary search of v2 names the same class, for requests  *)
(* above MAX_BYTES too.                                                    *)
MapsAgree ==
  stage = "ready" =>
    /\ \A i \in 1 .. (count - 1) : getSize(i - 1) < getSize(i)
    /\ \A n \in 0 .. MaxBytes : LeastClass(n, getIndex(n))
    /\ \A n \in 0 .. (MaxBytes + 1) : getIndexV2(n) = getIndex(n)

(* The table passes its static assertions, and the maps agree with it.     *)
IndexLeast == stage # "rejected" /\ MapsAgree

(* Whatever the page size, a span of a class holds at least one of its     *)
(* blocks, so createSpan's branch for none is dead, and a batch fits on a  *)
(* thread's list, so a refill never has to be sent back at once.           *)
PoliciesFit ==
  stage = "ready" =>
    \A c \in 0 .. (count - 1) :
      /\ getBatchNum(getSize(c)) \in 1 .. maxCachedBlocks(getSize(c))
      /\ \A ps \in PageSizes : getSize(c) <= spanPages(getSize(c), ps) * ps

(* The powers of two a size can be rounded to, from ALIGNMENT up.          *)
Powers == {2 ^ k : k \in 3 .. 18}

(* Rounding a multiple of a power of two up to its class gives a multiple  *)
(* of that power again, so blocks cut from a page keep the alignment that  *)
(* allocateAligned has rounded the request to.                             *)
AlignmentKept ==
  stage = "ready" =>
    \A a \in Powers : \A k \in 1 .. (MaxBytes \div a) : roundUp(k * a) % a = 0
=============================================================================
