--------------------------- MODULE RequestsProofs ---------------------------
(***************************************************************************)
(* Proofs about SizeClasses and Requests, and about MemoryPoolV1, one of   *)
(* the pools of v1 among which a request chooses.                          *)
(*                                                                         *)
(* That the maps name the smallest class holds for any constants under     *)
(* which the build passes its static assertions.  That it passes them, and *)
(* what depends on how the sizes are spaced, is proved for the constants   *)
(* of the library.                                                         *)
(***************************************************************************)
EXTENDS Requests, MemoryPoolV1, TLAPS

Orders == INSTANCE WellFoundedInduction

(* kAlignment, kMaxBytes, kMaxSizeClasses and the length of kSmallIndexMap. *)
Library == Alignment = 8 /\ MaxBytes = 262144 /\ MaxClasses = 64 /\ SmallLimit = 256

(* The classes there are so far.                                           *)
Classes == 0 .. (count - 1)

(* The types; the maps hold bytes.                                         *)
TypeOK ==
  /\ stage \in {"sizes", "small", "units", "ready", "rejected", "running"}
  /\ align \in Nat \ {0} /\ size \in 0 .. MaxBytes
  /\ count \in 0 .. MaxClasses
  /\ sizes \in [0 .. (MaxClasses - 1) -> 0 .. MaxBytes]
  /\ at \in Nat /\ index \in Nat
  /\ smallMap \in [0 .. SmallLimit -> 0 .. 255]
  /\ unitMap \in [0 .. LastUnit -> 0 .. 255]

(* x is a multiple of d.                                                   *)
IsMultiple(x, d) == \E q \in Nat : x = q * d

(* The table ascends in multiples of ALIGNMENT.                            *)
TableSound ==
  /\ IsMultiple(align, Alignment)
  /\ IF count = 0 THEN size = 0 /\ align = Alignment
     ELSE size = sizes[count - 1] /\ sizes[0] = Alignment
  /\ \A i \in Classes : sizes[i] > 0 /\ IsMultiple(sizes[i], Alignment)
  /\ \A i, j \in Classes : i < j => sizes[i] < sizes[j]

(* The size an entry of each map stands for.                               *)
SmallBytes(n) == IF n = 0 THEN Alignment ELSE n
UnitBytes(u)  == IF u = 0 THEN Alignment ELSE u * Alignment

(* A class before i is too small, and only the last class may be so too.   *)
Fits(i, bytes) ==
  /\ i = 0 \/ i \in Classes
  /\ i > 0 => sizes[i - 1] < bytes
  /\ i + 1 < count => bytes <= sizes[i]

(* Where the loop over a map stands.                                       *)
LoopSound ==
  stage \in {"small", "units"} =>
    /\ at <= LastAt + 1
    /\ index = 0 \/ index \in Classes
    /\ index > 0 => at > 0 /\ sizes[index - 1] < Bytes(at)

(* The maps are complete.                                                  *)
Finished == stage \in {"ready", "rejected", "running"}

(* What either map holds of the entries filled so far.                     *)
MapsSound ==
  /\ \A n \in 0 .. SmallLimit :
       Finished \/ stage = "units" \/ (stage = "small" /\ n < at) =>
         Fits(smallMap[n], SmallBytes(n))
  /\ \A u \in 0 .. LastUnit :
       Finished \/ (stage = "units" /\ u < at) => Fits(unitMap[u], UnitBytes(u))

(* A program that runs has passed the static assertions.                   *)
Asserted == stage \in {"ready", "running"} => Accepted

(* The inductive invariant of the tables.                                  *)
Tables == TypeOK /\ TableSound /\ LoopSound /\ MapsSound /\ Asserted

-----------------------------------------------------------------------------
(* Multiples add up, and are apart by at least what they are multiples of. *)
LEMMA SumMultiple ==
  ASSUME NEW d \in Nat, NEW x, NEW y, IsMultiple(x, d), IsMultiple(y, d)
  PROVE  IsMultiple(x + y, d) /\ IsMultiple(x, d)
<1>1. PICK i \in Nat, j \in Nat : x = i * d /\ y = j * d
  BY DEF IsMultiple
<1>2. x + y = (i + j) * d /\ i + j \in Nat
  BY <1>1
<1> QED BY <1>2 DEF IsMultiple

(* What is assumed of the constants.                                       *)
LEMMA LastUnitFacts ==
  /\ Alignment \in Nat \ {0} /\ MaxBytes \in Nat /\ SmallLimit \in Nat /\ SmallLimit <= MaxBytes
  /\ MaxClasses \in Nat /\ 1 <= MaxClasses /\ MaxClasses <= 256
  /\ LastUnit \in Nat
BY SizeClassesAssumption DEF LastUnit

(* The loops start with an empty table.                                    *)
LEMMA InitTables == BuildInit => Tables
<1> SUFFICES ASSUME BuildInit PROVE Tables
  OBVIOUS
<1>1. TypeOK
  BY LastUnitFacts DEF BuildInit, TypeOK
<1>2. TableSound
  <2>1. Alignment = 1 * Alignment
    BY LastUnitFacts
  <2>2. IsMultiple(align, Alignment)
    BY <2>1 DEF BuildInit, IsMultiple
  <2> QED BY <2>2 DEF BuildInit, TableSound, Classes
<1>3. LoopSound /\ MapsSound /\ Asserted
  BY DEF BuildInit, LoopSound, MapsSound, Asserted, Finished
<1> QED BY <1>1, <1>2, <1>3 DEF Tables

(* The map loops and their entries depend on the table only.               *)
LEMMA AddSizeTables ==
  ASSUME Tables, AddSize
  PROVE  Tables'
<1> USE LastUnitFacts DEF Tables
<1>1. /\ stage = "sizes" /\ stage' = "sizes" /\ count < MaxClasses /\ size + align <= MaxBytes
      /\ size' = size + align /\ count' = count + 1 /\ align' = NextAlign(size + align, align)
      /\ sizes' = [sizes EXCEPT ![count] = size + align]
      /\ UNCHANGED <<at, index, smallMap, unitMap>>
  BY DEF AddSize, MoreSizes
<1>2. /\ count \in Nat /\ count \in 0 .. (MaxClasses - 1) /\ size \in Nat /\ align \in Nat
      /\ align > 0 /\ size + align \in 0 .. MaxBytes /\ align' \in {align, align * 2}
  BY <1>1 DEF TypeOK, NextAlign
<1>3. /\ sizes' \in [0 .. (MaxClasses - 1) -> 0 .. MaxBytes]
      /\ sizes'[count] = size + align
      /\ \A i \in Classes : sizes'[i] = sizes[i] /\ sizes[i] \in Nat
  BY <1>1, <1>2 DEF TypeOK, Classes
<1>4. TypeOK'
  <2>1. align' \in Nat \ {0} /\ size' \in 0 .. MaxBytes /\ count' \in 0 .. MaxClasses
    BY <1>1, <1>2
  <2> QED BY <1>1, <1>3, <2>1 DEF TypeOK, LastUnit
<1>5. TableSound'
  <2>1. IsMultiple(align, Alignment) /\ IsMultiple(align + align, Alignment)
    BY SumMultiple DEF TableSound
  <2>2. IsMultiple(align', Alignment)
    BY <1>2, <2>1
  <2>3. IsMultiple(size, Alignment)
    <3>1. CASE count = 0
      <4>1. 0 = 0 * Alignment
        OBVIOUS
      <4> QED BY <3>1, <4>1 DEF TableSound, IsMultiple
    <3>2. CASE count # 0
      BY <1>2, <3>2 DEF TableSound, Classes
    <3> QED BY <3>1, <3>2
  <2>4. IsMultiple(size + align, Alignment)
    BY <2>1, <2>3, SumMultiple
  <2>5. \A i \in Classes : sizes[i] <= size
    <3> SUFFICES ASSUME NEW i \in Classes PROVE sizes[i] <= size
      OBVIOUS
    <3>1. count # 0 /\ count - 1 \in Classes /\ size = sizes[count - 1]
      BY <1>2 DEF TableSound, Classes
    <3>2. i = count - 1 \/ i < count - 1
      BY <1>2 DEF Classes
    <3>3. i < count - 1 => sizes[i] < sizes[count - 1]
      BY <3>1 DEF TableSound
    <3> QED BY <1>2, <1>3, <3>1, <3>2, <3>3
  <2>6. Classes' = Classes \cup {count} /\ count \notin Classes
    BY <1>1, <1>2 DEF Classes
  <2>7. sizes'[0] = Alignment
    <3>1. CASE count = 0
      BY <1>2, <1>3, <3>1 DEF TableSound
    <3>2. CASE count # 0
      BY <1>2, <1>3, <3>2 DEF TableSound, Classes
    <3> QED BY <3>1, <3>2
  <2>8. count' # 0 /\ size' = sizes'[count' - 1]
    BY <1>1, <1>2, <1>3
  <2>9. \A i \in Classes' : sizes'[i] > 0 /\ IsMultiple(sizes'[i], Alignment)
    BY <1>2, <1>3, <2>4, <2>6 DEF TableSound
  <2>10. \A i, j \in Classes' : i < j => sizes'[i] < sizes'[j]
    <3> SUFFICES ASSUME NEW i \in Classes', NEW j \in Classes', i < j PROVE sizes'[i] < sizes'[j]
      OBVIOUS
    <3>1. i \in Classes
      BY <1>2, <2>6 DEF Classes
    <3>2. CASE j = count
      BY <1>2, <1>3, <2>5, <3>1, <3>2
    <3>3. CASE j # count
      BY <1>3, <2>6, <3>1, <3>3 DEF TableSound
    <3> QED BY <3>2, <3>3
  <2> QED BY <2>2, <2>7, <2>8, <2>9, <2>10 DEF TableSound, IsMultiple
<1>6. LoopSound' /\ MapsSound' /\ Asserted'
  BY <1>1 DEF LoopSound, MapsSound, Asserted, Finished
<1> QED BY <1>4, <1>5, <1>6

(* The class in hand is too small for the entry.                           *)
LEMMA NextClassTables ==
  ASSUME Tables, NextClass
  PROVE  Tables'
<1> USE LastUnitFacts DEF Tables
<1>1. /\ stage \in {"small", "units"} /\ at <= LastAt /\ index + 1 < count
      /\ sizes[index] < Bytes(at) /\ index' = index + 1
      /\ UNCHANGED <<stage, align, size, sizes, count, at, smallMap, unitMap>>
  BY DEF NextClass, Filling, TooSmall, tableVars
<1>2. TypeOK' /\ TableSound' /\ MapsSound' /\ Asserted'
  <2>1. TypeOK'
    <3>1. index' \in Nat
      BY <1>1 DEF TypeOK
    <3> QED BY <1>1, <3>1 DEF TypeOK
  <2>2. TableSound'
    BY <1>1 DEF TableSound, Classes
  <2>3. MapsSound'
    BY <1>1 DEF MapsSound, Finished, Fits, Classes
  <2>4. Asserted'
    BY <1>1 DEF Asserted
  <2> QED BY <2>1, <2>2, <2>3, <2>4
<1>3. at > 0
  <2>1. CASE index > 0
    BY <1>1, <2>1 DEF LoopSound
  <2>2. CASE at = 0 /\ index = 0
    BY <1>1, <2>2 DEF TableSound, Bytes, TypeOK
  <2> QED BY <2>1, <2>2 DEF TypeOK
<1>4. LoopSound'
  BY <1>1, <1>3 DEF LoopSound, LastAt, Bytes, Classes, TypeOK
<1> QED BY <1>2, <1>4

(* The class found is recorded.                                            *)
LEMMA RecordTables ==
  ASSUME Tables, Record
  PROVE  Tables'
<1> USE LastUnitFacts DEF Tables
<1>1. /\ stage \in {"small", "units"} /\ at <= LastAt /\ ~ TooSmall(Bytes(at)) /\ at' = at + 1
      /\ UNCHANGED <<stage, align, size, sizes, count, index>>
  BY DEF Record, Filling, tableVars
<1>2. index = 0 \/ index \in Classes
  BY <1>1 DEF LoopSound
<1>3. index % 256 = index /\ index \in 0 .. 255
  <2>1. count \in Nat /\ count <= 256 /\ index \in Nat
    BY DEF TypeOK
  <2>2. index \in 0 .. 255
    BY <1>2, <2>1 DEF Classes
  <2> QED BY <2>2
<1>4. at \in Nat /\ at \in 0 .. LastAt
  BY <1>1 DEF TypeOK
<1>5. Fits(index, Bytes(at))
  <2>1. index + 1 < count => Bytes(at) <= sizes[index]
    <3>1. Bytes(at) \in Nat
      BY <1>4 DEF Bytes
    <3>2. index + 1 < count => sizes[index] \in Nat
      BY <1>3 DEF TypeOK
    <3> QED BY <1>1, <3>1, <3>2 DEF TooSmall
  <2> QED BY <1>1, <1>2, <2>1 DEF Fits, LoopSound
<1>6. \A i, bytes : Fits(i, bytes)' <=> Fits(i, bytes)
  BY <1>1 DEF Fits, Classes
<1>7. LoopSound'
  <2>1. at' <= LastAt' + 1
    BY <1>1, <1>4 DEF LastAt
  <2>2. at > 0 => Bytes(at) < Bytes(at + 1) /\ Bytes(at) \in Nat /\ Bytes(at + 1) \in Nat
    <3>1. (at + 1) * Alignment = at * Alignment + Alignment /\ at * Alignment \in Nat
      BY <1>4
    <3> QED BY <1>4, <3>1 DEF Bytes
  <2>3. index > 0 => index - 1 \in 0 .. (MaxClasses - 1) /\ sizes[index - 1] \in Nat
    BY <1>2, <1>3 DEF TypeOK, Classes
  <2>4. index > 0 => at' > 0 /\ sizes[index - 1] < Bytes(at + 1)
    BY <1>1, <1>4, <2>2, <2>3 DEF LoopSound
  <2> QED BY <1>1, <1>2, <2>1, <2>4 DEF LoopSound, Classes, Bytes
<1>8. TableSound' /\ Asserted'
  BY <1>1 DEF TableSound, Asserted, Accepted, Classes
<1>9. CASE stage = "small"
  <2>1. smallMap' = [smallMap EXCEPT ![at] = index] /\ unitMap' = unitMap /\ at \in 0 .. SmallLimit
    BY <1>3, <1>4, <1>9 DEF Record, LastAt
  <2>2. TypeOK'
    <3>1. smallMap' \in [0 .. SmallLimit -> 0 .. 255]
      BY <1>3, <2>1 DEF TypeOK
    <3>2. at' \in Nat
      BY <1>1 DEF TypeOK
    <3> QED BY <1>1, <2>1, <3>1, <3>2 DEF TypeOK, LastUnit
  <2>3. Bytes(at) = SmallBytes(at)
    BY <1>9 DEF Bytes, SmallBytes
  <2>4. MapsSound'
    <3>1. \A n \in 0 .. SmallLimit : n < at' => Fits(smallMap'[n], SmallBytes(n))
      <4> SUFFICES ASSUME NEW n \in 0 .. SmallLimit, n < at'
                   PROVE  Fits(smallMap'[n], SmallBytes(n))
        OBVIOUS
      <4>1. CASE n = at
        BY <1>5, <2>1, <2>3, <4>1 DEF TypeOK
      <4>2. CASE n # at
        <5>1. n < at /\ smallMap'[n] = smallMap[n]
          BY <1>1, <1>4, <2>1, <4>2 DEF TypeOK
        <5> QED BY <1>9, <5>1 DEF MapsSound
      <4> QED BY <4>1, <4>2
    <3> QED BY <1>1, <1>6, <1>9, <3>1 DEF MapsSound, SmallBytes, Finished
  <2> QED BY <1>7, <1>8, <2>2, <2>4
<1>10. CASE stage = "units"
  <2>1. unitMap' = [unitMap EXCEPT ![at] = index] /\ smallMap' = smallMap /\ at \in 0 .. LastUnit
    BY <1>3, <1>4, <1>10 DEF Record, LastAt
  <2>2. TypeOK'
    <3>1. unitMap' \in [0 .. LastUnit -> 0 .. 255]
      BY <1>3, <2>1 DEF TypeOK
    <3>2. at' \in Nat
      BY <1>1 DEF TypeOK
    <3> QED BY <1>1, <2>1, <3>1, <3>2 DEF TypeOK, LastUnit
  <2>3. Bytes(at) = UnitBytes(at)
    BY <1>10 DEF Bytes, UnitBytes
  <2>4. MapsSound'
    <3>1. \A u \in 0 .. LastUnit : u < at' => Fits(unitMap'[u], UnitBytes(u))
      <4> SUFFICES ASSUME NEW u \in 0 .. LastUnit, u < at'
                   PROVE  Fits(unitMap'[u], UnitBytes(u))
        OBVIOUS
      <4>1. CASE u = at
        BY <1>5, <2>1, <2>3, <4>1 DEF TypeOK
      <4>2. CASE u # at
        <5>1. u < at /\ unitMap'[u] = unitMap[u]
          BY <1>1, <1>4, <2>1, <4>2 DEF TypeOK
        <5> QED BY <1>10, <5>1 DEF MapsSound
      <4> QED BY <4>1, <4>2
    <3>2. \A n \in 0 .. SmallLimit : Fits(smallMap[n], SmallBytes(n))
      BY <1>10 DEF MapsSound
    <3> QED BY <1>1, <1>6, <1>10, <2>1, <3>1, <3>2 DEF MapsSound, SmallBytes, UnitBytes, LastUnit, Finished
  <2> QED BY <1>7, <1>8, <2>2, <2>4
<1> QED BY <1>1, <1>9, <1>10

(* A loop starts when the one before has gone over its whole range.        *)
LEMMA ProceedTables ==
  ASSUME Tables, Proceed
  PROVE  Tables'
<1> USE LastUnitFacts DEF Tables
<1>1. /\ at' = 0 /\ index' = 0
      /\ UNCHANGED <<align, size, sizes, count, smallMap, unitMap>>
  BY DEF Proceed, StartLoop, tableVars
<1>2. \A i, bytes : Fits(i, bytes)' <=> Fits(i, bytes)
  BY <1>1 DEF Fits, Classes
<1>3. \/ stage = "sizes" /\ stage' = "small"
      \/ stage = "small" /\ stage' = "units" /\ ~ Filling
      \/ stage = "units" /\ stage' = "ready" /\ ~ Filling /\ Accepted
      \/ stage = "units" /\ stage' = "rejected" /\ ~ Filling
  BY DEF Proceed, StartLoop
<1>4. TypeOK'
  BY <1>1, <1>3 DEF TypeOK
<1>5. TableSound' /\ Asserted'
  BY <1>1, <1>3 DEF TableSound, Asserted, Accepted, Classes
<1>6. LoopSound'
  BY <1>1, <1>3 DEF LoopSound, LastAt
<1>7. MapsSound'
  <2>1. stage = "small" /\ ~ Filling => \A n \in 0 .. SmallLimit : n < at
    BY DEF Filling, LastAt, TypeOK
  <2>2. stage = "units" /\ ~ Filling => \A u \in 0 .. LastUnit : u < at
    BY DEF Filling, LastAt, TypeOK
  <2>3. stage # "sizes" => \A n \in 0 .. SmallLimit : Fits(smallMap[n], SmallBytes(n))
    BY <1>3, <2>1 DEF MapsSound
  <2>4. stage = "units" => \A u \in 0 .. LastUnit : Fits(unitMap[u], UnitBytes(u))
    BY <1>3, <2>2 DEF MapsSound
  <2>5. \A n \in 0 .. SmallLimit : stage' \in {"units", "ready", "rejected"} => Fits(smallMap[n], SmallBytes(n))'
    BY <1>1, <1>2, <1>3, <2>3 DEF SmallBytes
  <2>6. \A u \in 0 .. LastUnit : stage' \in {"ready", "rejected"} => Fits(unitMap[u], UnitBytes(u))'
    BY <1>1, <1>2, <1>3, <2>4 DEF UnitBytes
  <2> QED BY <1>1, <1>3, <2>5, <2>6 DEF MapsSound, Finished, LastUnit
<1> QED BY <1>4, <1>5, <1>6, <1>7

(* The loops keep the invariant.                                           *)
LEMMA NextTables == Tables /\ [BuildNext]_buildVars => Tables'
<1> SUFFICES ASSUME Tables, [BuildNext]_buildVars PROVE Tables'
  OBVIOUS
<1>1. CASE BuildNext
  BY <1>1, AddSizeTables, NextClassTables, RecordTables, ProceedTables DEF BuildNext
<1>2. CASE UNCHANGED buildVars
  BY <1>2 DEF buildVars, Tables, TypeOK, TableSound, LoopSound, MapsSound, Asserted, Accepted, Fits,
              Finished, Classes, LastAt, Bytes
<1> QED BY <1>1, <1>2

-----------------------------------------------------------------------------
(* What the invariant says of finished tables.                             *)
Ready == Tables /\ stage \in {"ready", "running"}

(* It has a class, the first of ALIGNMENT bytes and the last of MAX_BYTES. *)
LEMMA TableFacts ==
  ASSUME Ready
  PROVE  /\ count \in Nat \ {0} /\ 0 \in Classes /\ count - 1 \in Classes /\ Classes \subseteq Nat
         /\ \A i \in Classes : sizes[i] \in Nat /\ 0 < sizes[i] /\ sizes[i] <= MaxBytes
         /\ \A i \in Classes : IsMultiple(sizes[i], Alignment)
         /\ \A i, j \in Classes : i < j => sizes[i] < sizes[j]
         /\ sizes[0] = Alignment /\ sizes[count - 1] = MaxBytes
         /\ Alignment <= MaxBytes
<1>1. Accepted /\ TypeOK /\ TableSound
  BY DEF Ready, Tables, Asserted
<1>2. count \in Nat \ {0} /\ count <= MaxClasses
  BY <1>1, LastUnitFacts DEF TypeOK, Accepted
<1>3. 0 \in Classes /\ count - 1 \in Classes /\ Classes \subseteq 0 .. (MaxClasses - 1)
  BY <1>2, LastUnitFacts DEF Classes
<1>4. \A i \in Classes : sizes[i] \in 0 .. MaxBytes
  BY <1>1, <1>3 DEF TypeOK
<1>5. sizes[0] = Alignment /\ sizes[count - 1] = MaxBytes
  BY <1>1 DEF Accepted
<1> QED BY <1>1, <1>2, <1>3, <1>4, <1>5, LastUnitFacts DEF TableSound

(* Sizes up to MAX_BYTES find their class in the table.                    *)
LEMMA FitsLeast ==
  ASSUME Ready, NEW n \in 1 .. MaxBytes, NEW i, Fits(i, n)
  PROVE  i \in Classes /\ LeastClass(n, i)
<1> USE LastUnitFacts, TableFacts
<1>1. i \in Classes /\ i \in Nat
  BY DEF Fits
<1>2. n <= sizes[i]
  <2>1. CASE i + 1 < count
    BY <2>1 DEF Fits
  <2>2. CASE ~ (i + 1 < count)
    <3>1. i = count - 1
      BY <1>1, <2>2 DEF Classes
    <3> QED BY <3>1
  <2> QED BY <2>1, <2>2
<1>3. i < count
  BY <1>1 DEF Classes
<1> QED BY <1>1, <1>2, <1>3 DEF LeastClass, Fits, getSize

(* No two classes are the smallest.                                        *)
LEMMA LeastUnique ==
  ASSUME Ready, NEW n \in Nat, NEW i \in Nat, NEW j \in Nat, LeastClass(n, i), LeastClass(n, j)
  PROVE  i = j
<1>1. \A k, l \in Nat : LeastClass(n, k) /\ LeastClass(n, l) => ~ (k < l)
  <2> SUFFICES ASSUME NEW k \in Nat, NEW l \in Nat, LeastClass(n, k), LeastClass(n, l), k < l
               PROVE  FALSE
    OBVIOUS
  <2>1. k \in Classes /\ l - 1 \in Classes /\ k <= l - 1
    BY TableFacts DEF LeastClass, Classes
  <2>2. n <= sizes[k] /\ sizes[l - 1] < n
    BY DEF LeastClass, getSize
  <2>3. sizes[k] <= sizes[l - 1] /\ sizes[k] \in Nat /\ sizes[l - 1] \in Nat
    <3>1. CASE k = l - 1
      BY <2>1, <3>1, TableFacts
    <3>2. CASE k # l - 1
      BY <2>1, <3>2, TableFacts
    <3> QED BY <3>1, <3>2
  <2> QED BY <2>2, <2>3
<1> QED BY <1>1

-----------------------------------------------------------------------------
(* Division.                                                               *)
LEMMA DivBounds ==
  ASSUME NEW x \in Nat, NEW d \in Nat \ {0}
  PROVE  x \div d \in Nat /\ (x \div d) * d <= x /\ x < (x \div d) * d + d
OBVIOUS

(* Multiples keep the order of their factors.                              *)
LEMMA ProductOrder ==
  ASSUME NEW i \in Nat, NEW j \in Nat, NEW d \in Nat, i < j
  PROVE  i * d + d <= j * d
<1>1. j * d = i * d + d + (j - i - 1) * d /\ (j - i - 1) * d \in Nat
  OBVIOUS
<1> QED BY <1>1

(* The next multiple is at least one whole step away.                      *)
LEMMA MultiplesApart ==
  ASSUME NEW x \in Nat, NEW y \in Nat, NEW d \in Nat, IsMultiple(x, d), IsMultiple(y, d), x < y
  PROVE  x + d <= y
<1>1. PICK i \in Nat, j \in Nat : x = i * d /\ y = j * d
  BY DEF IsMultiple
<1>2. i < j
  <2>1. j < i => j * d + d <= i * d
    BY ProductOrder
  <2> QED BY <1>1, <2>1
<1> QED BY <1>1, <1>2, ProductOrder

(* The next multiple, rounded up.                                          *)
LEMMA RoundUpBounds ==
  ASSUME NEW x \in Nat, NEW d \in Nat \ {0}
  PROVE  LET q == (x + d - 1) \div d
         IN  q \in Nat /\ x <= q * d /\ q * d <= x + d - 1 /\ (x > 0 => q > 0)
<1>1. PICK y \in Nat : y = x + d - 1
  OBVIOUS
<1>2. PICK q \in Nat : q = y \div d /\ q * d <= y /\ y < q * d + d
  BY DivBounds
<1>3. q * d \in Nat
  OBVIOUS
<1>4. x <= q * d
  BY <1>1, <1>2, <1>3
<1>5. q = 0 => q * d = 0
  OBVIOUS
<1>6. x > 0 => q > 0
  BY <1>4, <1>5
<1> QED BY <1>1, <1>2, <1>4, <1>6

(* The unit map covers the sizes up to MAX_BYTES.                          *)
LEMMA UnitFacts ==
  ASSUME Ready, NEW n \in 1 .. MaxBytes
  PROVE  /\ UnitsUp(n) \in 1 .. LastUnit
         /\ n <= UnitsUp(n) * Alignment /\ UnitsUp(n) * Alignment < n + Alignment
         /\ UnitsUp(n) * Alignment \in 1 .. MaxBytes
<1> USE LastUnitFacts
<1>1. PICK q \in Nat : MaxBytes = q * Alignment
  BY TableFacts DEF IsMultiple
<1>2. PICK u \in Nat : u = UnitsUp(n) /\ n <= u * Alignment /\ u * Alignment <= n + Alignment - 1 /\ u > 0
  BY RoundUpBounds DEF UnitsUp
<1>3. u * Alignment \in Nat /\ q * Alignment \in Nat
  OBVIOUS
<1>4. u <= q
  <2>1. q < u => q * Alignment + Alignment <= u * Alignment
    BY ProductOrder
  <2> QED BY <1>1, <1>2, <1>3, <2>1
<1>5. LastUnit = q
  <2>1. PICK l \in Nat : l = LastUnit /\ l * Alignment <= MaxBytes /\ MaxBytes < l * Alignment + Alignment
    BY DivBounds DEF LastUnit
  <2>2. l * Alignment \in Nat
    OBVIOUS
  <2>3. l < q => l * Alignment + Alignment <= q * Alignment
    BY ProductOrder
  <2>4. q < l => q * Alignment + Alignment <= l * Alignment
    BY ProductOrder
  <2> QED BY <1>1, <1>3, <2>1, <2>2, <2>3, <2>4
<1>6. u * Alignment <= MaxBytes
  <2>1. u < q => u * Alignment + Alignment <= q * Alignment
    BY ProductOrder
  <2> QED BY <1>1, <1>3, <1>4, <2>1
<1> QED BY <1>2, <1>3, <1>4, <1>5, <1>6

(* getIndex names the smallest class that holds the request.               *)
LEMMA IndexFacts ==
  ASSUME Ready, NEW n \in 0 .. MaxBytes
  PROVE  getIndex(n) \in Classes /\ LeastClass(n, getIndex(n))
<1> USE LastUnitFacts
<1>1. /\ \A k \in 0 .. SmallLimit : Fits(smallMap[k], SmallBytes(k))
      /\ \A u \in 0 .. LastUnit : Fits(unitMap[u], UnitBytes(u))
  BY DEF Ready, Tables, MapsSound, Finished
<1>2. CASE n = 0
  <2>1. getIndex(n) = smallMap[0] /\ Fits(smallMap[0], Alignment)
    BY <1>1, <1>2 DEF getIndex, SmallBytes
  <2>2. PICK i : i = smallMap[0] /\ Fits(i, Alignment)
    BY <2>1
  <2>3. i \in Classes /\ i \in Nat
    BY <2>2, TableFacts DEF Fits
  <2>4. i = 0
    <3>1. CASE i > 0
      <4>1. i - 1 \in Classes /\ sizes[i - 1] < Alignment
        BY <2>2, <2>3, <3>1, TableFacts DEF Fits, Classes
      <4>2. i - 1 > 0 => sizes[0] < sizes[i - 1]
        BY <4>1, TableFacts
      <4> QED BY <2>3, <3>1, <4>1, <4>2, TableFacts
    <3> QED BY <2>3, <3>1
  <2> QED BY <1>2, <2>1, <2>2, <2>3, <2>4, TableFacts DEF LeastClass, getSize
<1>3. CASE n > 0 /\ n <= SmallLimit
  <2>1. getIndex(n) = smallMap[n] /\ Fits(smallMap[n], n)
    BY <1>1, <1>3 DEF getIndex, SmallBytes
  <2> QED BY <1>3, <2>1, FitsLeast
<1>4. CASE n > 0 /\ n > SmallLimit
  <2>1. PICK u \in 1 .. LastUnit : /\ u = UnitsUp(n) /\ n <= u * Alignment
                                   /\ u * Alignment < n + Alignment /\ u * Alignment \in 1 .. MaxBytes
    BY <1>4, UnitFacts
  <2>2. PICK i : i = unitMap[u] /\ i = getIndex(n) /\ Fits(i, u * Alignment)
    BY <1>1, <1>4, <2>1 DEF getIndex, UnitBytes
  <2>3. i \in Classes /\ LeastClass(u * Alignment, i)
    BY <2>1, <2>2, FitsLeast
  <2>4. n <= sizes[i]
    BY <2>1, <2>3, TableFacts DEF LeastClass, getSize
  <2>5. i > 0 => sizes[i - 1] < n
    <3> SUFFICES ASSUME i > 0 PROVE sizes[i - 1] < n
      OBVIOUS
    <3>1. i - 1 \in Classes
      BY <2>3, TableFacts DEF Classes
    <3>2. sizes[i - 1] \in Nat /\ IsMultiple(sizes[i - 1], Alignment) /\ sizes[i - 1] < u * Alignment
      BY <2>3, <3>1, TableFacts DEF LeastClass, getSize
    <3>3. sizes[i - 1] + Alignment <= u * Alignment
      <4>1. IsMultiple(u * Alignment, Alignment) /\ u * Alignment \in Nat
        BY <2>1 DEF IsMultiple
      <4> QED BY <3>2, <4>1, MultiplesApart
    <3> QED BY <2>1, <3>2, <3>3
  <2> QED BY <2>2, <2>3, <2>4, <2>5 DEF LeastClass, getSize
<1> QED BY <1>2, <1>3, <1>4

-----------------------------------------------------------------------------
(* The binary search of v2.                                                *)

(* What the search says of a part of the table.                            *)
Found(i, lo, hi, n) ==
  /\ i \in lo .. hi
  /\ i < hi => n <= sizes[i]
  /\ i > lo => sizes[i - 1] < n

(* The equation of the recursion in Search.                                *)
Halving(f, n) ==
  [r \in (0 .. count) \X (0 .. count) |->
     LET lo  == r[1]
         hi  == r[2]
         mid == (lo + hi) \div 2
     IN  IF lo >= hi THEN lo
         ELSE IF sizes[mid] < n THEN f[<<mid + 1, hi>>] ELSE f[<<lo, mid>>]]

(* A set of numbers has a least one.                                       *)
LEMMA LeastNumber ==
  ASSUME NEW S \in SUBSET Nat, S # {}
  PROVE  \E m \in S : \A k \in S : m <= k
<1> DEFINE R == Orders!OpToRel(<, Nat)
<1>1. PICK m \in S : \A k \in S : ~ (<<k, m>> \in R)
  <2>1. Orders!IsWellFoundedOn(R, Nat)
    BY Orders!NatLessThanWellFounded, Zenon
  <2>2. PICK x : x \in S
    OBVIOUS
  <2> HIDE DEF R
  <2> QED BY <2>1, <2>2, Orders!WFMin
<1>2. \A k \in S : ~ (k < m)
  BY <1>1, Zenon DEF Orders!OpToRel
<1> QED BY <1>2

(* A part of the table holds an answer.                                    *)
LEMMA FoundExists ==
  ASSUME Ready, NEW n \in Nat, NEW lo \in 0 .. count, NEW hi \in lo .. count
  PROVE  \E i : Found(i, lo, hi, n)
<1> DEFINE T == {i \in lo .. hi : i = hi \/ n <= sizes[i]}
<1> USE TableFacts
<1>1. T \in SUBSET Nat /\ hi \in T
  OBVIOUS
<1>2. PICK m \in T : \A k \in T : m <= k
  <2> HIDE DEF T
  <2> QED BY <1>1, LeastNumber
<1>3. m \in lo .. hi /\ m \in Nat
  BY <1>1
<1>4. m < hi => n <= sizes[m]
  BY <1>3
<1>5. m > lo => sizes[m - 1] < n
  <2> SUFFICES ASSUME m > lo PROVE sizes[m - 1] < n
    OBVIOUS
  <2>1. m - 1 \in lo .. hi /\ m - 1 # hi /\ ~ (m <= m - 1)
    BY <1>3
  <2>2. m - 1 \notin T
    BY <1>2, <2>1
  <2>3. m - 1 \in Classes
    BY <1>3, <2>1 DEF Classes
  <2> QED BY <2>1, <2>2, <2>3
<1> QED BY <1>3, <1>4, <1>5 DEF Found

(* And no more than one.                                                   *)
LEMMA FoundUnique ==
  ASSUME Ready, NEW n \in Nat, NEW lo \in 0 .. count, NEW hi \in lo .. count,
         NEW i, NEW j, Found(i, lo, hi, n), Found(j, lo, hi, n)
  PROVE  i = j
<1> USE TableFacts
<1>1. \A k, l : Found(k, lo, hi, n) /\ Found(l, lo, hi, n) => ~ (k < l)
  <2> SUFFICES ASSUME NEW k, NEW l, Found(k, lo, hi, n), Found(l, lo, hi, n), k < l PROVE FALSE
    OBVIOUS
  <2>1. k \in lo .. hi /\ l \in lo .. hi /\ k \in Nat /\ l \in Nat
    BY DEF Found
  <2>2. k \in Classes /\ l - 1 \in Classes /\ n <= sizes[k] /\ sizes[l - 1] < n
    BY <2>1 DEF Found, Classes
  <2>3. k = l - 1 \/ k < l - 1
    BY <2>1
  <2>4. sizes[k] <= sizes[l - 1]
    BY <2>2, <2>3
  <2> QED BY <2>2, <2>4
<1>2. i \in Nat /\ j \in Nat
  BY DEF Found
<1>3. ~ (i < j) /\ ~ (j < i)
  BY <1>1
<1> QED BY <1>2, <1>3

(* What the halves say, the whole says.                                    *)
LEMMA HalfFound ==
  ASSUME Ready, NEW n \in Nat, NEW lo \in 0 .. count, NEW hi \in 0 .. count, lo < hi
  PROVE  LET mid == (lo + hi) \div 2
         IN  /\ mid \in lo .. (hi - 1) /\ mid + 1 \in 0 .. count /\ mid \in 0 .. count
             /\ \A i : IF sizes[mid] < n THEN Found(i, mid + 1, hi, n) => Found(i, lo, hi, n)
                                         ELSE Found(i, lo, mid, n) => Found(i, lo, hi, n)
<1> USE TableFacts
<1>1. PICK mid \in Nat : mid = (lo + hi) \div 2 /\ mid \in lo .. (hi - 1)
  OBVIOUS
<1>2. sizes[mid] \in Nat /\ mid + 1 \in 0 .. count /\ mid \in 0 .. count
  BY <1>1 DEF Classes
<1>3. ASSUME NEW i, sizes[mid] < n, Found(i, mid + 1, hi, n) PROVE Found(i, lo, hi, n)
  <2>1. i \in (mid + 1) .. hi
    BY <1>3 DEF Found
  <2>2. i = mid + 1 \/ i > mid + 1
    BY <1>1, <2>1
  <2>3. sizes[i - 1] < n
    BY <1>1, <1>3, <2>1, <2>2 DEF Found
  <2> QED BY <1>1, <1>3, <2>1, <2>3 DEF Found
<1>4. ASSUME NEW i, ~ (sizes[mid] < n), Found(i, lo, mid, n) PROVE Found(i, lo, hi, n)
  <2>1. i \in lo .. mid
    BY <1>4 DEF Found
  <2>2. n <= sizes[i]
    <3>1. CASE i = mid
      BY <1>2, <1>4, <3>1
    <3>2. CASE i # mid
      BY <1>1, <1>4, <2>1, <3>2 DEF Found
    <3> QED BY <3>1, <3>2
  <2> QED BY <1>1, <1>4, <2>1, <2>2 DEF Found
<1> QED BY <1>1, <1>2, <1>3, <1>4

(* The equation has a solution.                                            *)
LEMMA HalvingSolved ==
  ASSUME Ready, NEW n \in Nat
  PROVE  \E f : f = Halving(f, n)
<1> USE TableFacts
<1> DEFINE G(lo, hi) == IF lo >= hi THEN lo ELSE CHOOSE i : Found(i, lo, hi, n)
           w == [r \in (0 .. count) \X (0 .. count) |-> G(r[1], r[2])]
<1>1. \A lo, hi \in 0 .. count : w[<<lo, hi>>] = G(lo, hi)
  <2> HIDE DEF G
  <2> QED OBVIOUS
<1>2. \A lo, hi \in 0 .. count : lo < hi => Found(G(lo, hi), lo, hi, n)
  <2> SUFFICES ASSUME NEW lo \in 0 .. count, NEW hi \in 0 .. count, lo < hi
               PROVE  Found(G(lo, hi), lo, hi, n)
    OBVIOUS
  <2>1. hi \in lo .. count /\ ~ (lo >= hi)
    OBVIOUS
  <2>2. \E i : Found(i, lo, hi, n)
    BY <2>1, FoundExists
  <2>3. Found(CHOOSE i : Found(i, lo, hi, n), lo, hi, n)
    BY <2>2, Zenon
  <2> QED BY <2>1, <2>3
<1>3. \A lo, hi \in 0 .. count : lo <= hi => Found(G(lo, hi), lo, hi, n)
  <2>1. \A lo \in 0 .. count : Found(G(lo, lo), lo, lo, n)
    BY DEF Found
  <2>2. \A lo, hi \in 0 .. count : lo <= hi => lo = hi \/ lo < hi
    OBVIOUS
  <2> HIDE DEF G
  <2> QED BY <1>2, <2>1, <2>2
<1>4. \A lo, hi \in 0 .. count :
        G(lo, hi) = LET mid == (lo + hi) \div 2
                    IN  IF lo >= hi THEN lo
                        ELSE IF sizes[mid] < n THEN w[<<mid + 1, hi>>] ELSE w[<<lo, mid>>]
  <2> SUFFICES ASSUME NEW lo \in 0 .. count, NEW hi \in 0 .. count
               PROVE  G(lo, hi) = LET mid == (lo + hi) \div 2
                                  IN  IF lo >= hi THEN lo
                                      ELSE IF sizes[mid] < n THEN w[<<mid + 1, hi>>] ELSE w[<<lo, mid>>]
    OBVIOUS
  <2>1. CASE lo >= hi
    BY <2>1
  <2>2. CASE lo < hi
    <3>1. PICK mid : /\ mid = (lo + hi) \div 2
                     /\ mid \in lo .. (hi - 1) /\ mid + 1 \in 0 .. count /\ mid \in 0 .. count
                     /\ \A i : IF sizes[mid] < n THEN Found(i, mid + 1, hi, n) => Found(i, lo, hi, n)
                                                 ELSE Found(i, lo, mid, n) => Found(i, lo, hi, n)
      BY <2>2, HalfFound
    <3>2. mid + 1 <= hi /\ lo <= mid /\ ~ (lo >= hi) /\ hi \in lo .. count
      BY <2>2, <3>1
    <3>3. Found(G(lo, hi), lo, hi, n) /\ Found(G(mid + 1, hi), mid + 1, hi, n) /\ Found(G(lo, mid), lo, mid, n)
      BY <1>3, <2>2, <3>1, <3>2
    <3> HIDE DEF G, w
    <3>4. w[<<mid + 1, hi>>] = G(mid + 1, hi) /\ w[<<lo, mid>>] = G(lo, mid)
      BY <1>1, <3>1
    <3>5. G(lo, hi) = IF sizes[mid] < n THEN G(mid + 1, hi) ELSE G(lo, mid)
      BY <3>1, <3>2, <3>3, FoundUnique
    <3> QED BY <3>1, <3>2, <3>4, <3>5
  <2> QED BY <2>1, <2>2
<1>5. w = Halving(w, n)
  <2>1. w = [r \in (0 .. count) \X (0 .. count) |-> G(r[1], r[2])]
    OBVIOUS
  <2> HIDE DEF G, w
  <2>2. \A r \in (0 .. count) \X (0 .. count) :
          /\ r[1] \in 0 .. count /\ r[2] \in 0 .. count
          /\ Halving(w, n)[r] = LET mid == (r[1] + r[2]) \div 2
                                IN  IF r[1] >= r[2] THEN r[1]
                                    ELSE IF sizes[mid] < n THEN w[<<mid + 1, r[2]>>] ELSE w[<<r[1], mid>>]
    BY DEF Halving
  <2>3. \A r \in (0 .. count) \X (0 .. count) : w[r] = Halving(w, n)[r]
    <3> SUFFICES ASSUME NEW r \in (0 .. count) \X (0 .. count) PROVE w[r] = Halving(w, n)[r]
      OBVIOUS
    <3>1. w[r] = G(r[1], r[2])
      BY <2>1, Zenon
    <3>2. r[1] \in 0 .. count /\ r[2] \in 0 .. count
      BY <2>2
    <3> QED BY <1>4, <2>2, <3>1, <3>2, Zenon
  <2>4. Halving(w, n) = [r \in (0 .. count) \X (0 .. count) |-> Halving(w, n)[r]]
    BY DEF Halving
  <2> QED BY <2>1, <2>3, <2>4, Zenon
<1> QED BY <1>5

(* Any solution finds what it should, in the smallest parts first.         *)
LEMMA HalvingFinds ==
  ASSUME Ready, NEW n \in Nat, NEW f, f = Halving(f, n), NEW lo \in 0 .. count, NEW hi \in lo .. count
  PROVE  Found(f[<<lo, hi>>], lo, hi, n)
<1> USE TableFacts
<1> DEFINE Bad == {d \in 0 .. count : \E l, h \in 0 .. count : h = l + d /\ ~ Found(f[<<l, h>>], l, h, n)}
<1>1. \A l, h \in 0 .. count :
        f[<<l, h>>] = LET mid == (l + h) \div 2
                      IN  IF l >= h THEN l
                          ELSE IF sizes[mid] < n THEN f[<<mid + 1, h>>] ELSE f[<<l, mid>>]
  BY DEF Halving
<1>2. Bad = {}
  <2> SUFFICES ASSUME Bad # {} PROVE FALSE
    OBVIOUS
  <2>1. Bad \in SUBSET Nat
    OBVIOUS
  <2>2. PICK d \in Bad : \A k \in Bad : d <= k
    <3> HIDE DEF Bad
    <3> QED BY <2>1, LeastNumber
  <2>3. PICK l \in 0 .. count, h \in 0 .. count : h = l + d /\ ~ Found(f[<<l, h>>], l, h, n)
    BY <2>2
  <2>4. d \in Nat
    BY <2>1
  <2>5. CASE d = 0
    <3>1. h = l /\ l >= h
      BY <2>3, <2>5
    <3>2. f[<<l, h>>] = l
      BY <1>1, <2>3, <3>1, Zenon
    <3> QED BY <2>3, <3>1, <3>2 DEF Found
  <2>6. CASE d > 0
    <3>1. l < h
      BY <2>3, <2>4, <2>6
    <3>2. PICK mid : /\ mid = (l + h) \div 2
                     /\ mid \in l .. (h - 1) /\ mid + 1 \in 0 .. count /\ mid \in 0 .. count
                     /\ \A i : IF sizes[mid] < n THEN Found(i, mid + 1, h, n) => Found(i, l, h, n)
                                                 ELSE Found(i, l, mid, n) => Found(i, l, h, n)
      BY <3>1, HalfFound
    <3>3. ~ (l >= h) /\ f[<<l, h>>] = IF sizes[mid] < n THEN f[<<mid + 1, h>>] ELSE f[<<l, mid>>]
      BY <1>1, <3>1, <3>2
    <3>4. /\ h - (mid + 1) \in 0 .. count /\ h = (mid + 1) + (h - (mid + 1)) /\ h - (mid + 1) < d
          /\ mid - l \in 0 .. count /\ mid = l + (mid - l) /\ mid - l < d
      BY <2>3, <2>4, <3>1, <3>2
    <3>5. h - (mid + 1) \notin Bad /\ mid - l \notin Bad
      <4> HIDE DEF Bad
      <4>1. ~ (d <= h - (mid + 1)) /\ ~ (d <= mid - l)
        BY <2>4, <3>4
      <4> QED BY <2>2, <4>1
    <3>6. Found(f[<<mid + 1, h>>], mid + 1, h, n) /\ Found(f[<<l, mid>>], l, mid, n)
      BY <3>2, <3>4, <3>5
    <3> QED BY <2>3, <3>2, <3>3, <3>6
  <2> QED BY <2>4, <2>5, <2>6
<1>3. hi - lo \in 0 .. count /\ hi = lo + (hi - lo) /\ hi \in 0 .. count
  OBVIOUS
<1> QED BY <1>2, <1>3

(* Search(n) is the first class that holds n bytes, or the end.            *)
LEMMA SearchFinds ==
  ASSUME Ready, NEW n \in Nat
  PROVE  Found(Search(n), 0, count, n)
<1>1. Search(n) = (CHOOSE f : f = Halving(f, n))[<<0, count>>]
  BY DEF Search, Halving
<1>2. PICK f : f = Halving(f, n) /\ Search(n) = f[<<0, count>>]
  BY <1>1, HalvingSolved, Zenon
<1>3. 0 \in 0 .. count /\ count \in 0 .. count
  BY TableFacts
<1> QED BY <1>2, <1>3, HalvingFinds

-----------------------------------------------------------------------------
(* Powers of two.                                                          *)
PowersOfTwo ==
  {1, 2, 4, 8, 16, 32, 64, 128, 256, 512, 1024, 2048, 4096, 8192, 16384, 32768, 65536, 131072,
   262144, 524288, 1048576, 2097152, 4194304, 8388608, 16777216, 33554432, 67108864,
   134217728, 268435456, 536870912, 1073741824}

(* A name for them that the provers leave alone.                           *)
Power(k) == 2 ^ k

(* Those are all up to 2 ^ 30.                                             *)
LEMMA PowerValues ==
  ASSUME NEW k \in 0 .. 30
  PROVE  Power(k) \in PowersOfTwo /\ (k < 30 => Power(k + 1) = 2 * Power(k))
<1>1. /\ Power(0) = 1 /\ Power(1) = 2 /\ Power(2) = 4 /\ Power(3) = 8 /\ Power(4) = 16 /\ Power(5) = 32
      /\ Power(6) = 64 /\ Power(7) = 128 /\ Power(8) = 256 /\ Power(9) = 512 /\ Power(10) = 1024
      /\ Power(11) = 2048 /\ Power(12) = 4096 /\ Power(13) = 8192 /\ Power(14) = 16384
      /\ Power(15) = 32768 /\ Power(16) = 65536 /\ Power(17) = 131072 /\ Power(18) = 262144
      /\ Power(19) = 524288 /\ Power(20) = 1048576 /\ Power(21) = 2097152
      /\ Power(22) = 4194304 /\ Power(23) = 8388608 /\ Power(24) = 16777216
      /\ Power(25) = 33554432 /\ Power(26) = 67108864 /\ Power(27) = 134217728
      /\ Power(28) = 268435456 /\ Power(29) = 536870912 /\ Power(30) = 1073741824
  BY DEF Power
<1>2. Power(k) \in PowersOfTwo
  BY <1>1 DEF PowersOfTwo
<1>3. k < 30 => Power(k + 1) = 2 * Power(k)
  BY <1>1
<1> QED BY <1>2, <1>3

(* Of two of them, the smaller divides the greater.                        *)
LEMMA PowersDivide ==
  ASSUME NEW a \in PowersOfTwo, NEW b \in PowersOfTwo, a <= b
  PROVE  a \in Nat \ {0} /\ b \in Nat \ {0} /\ IsMultiple(b, a)
<1>1. \E q \in PowersOfTwo : b = q * a
  BY DEF PowersOfTwo
<1> QED BY <1>1 DEF PowersOfTwo, IsMultiple

-----------------------------------------------------------------------------
(* The table of the library.                                               *)

(* The step doubles every four classes from the eighth on.                 *)
Octaves ==
  \E j \in 0 .. 13 :
    LET taken == count - 4 * j
    IN  /\ align = 8 * Power(j) /\ size = taken * align
        /\ taken \in (IF j = 0 THEN 0 ELSE 4) .. 7

(* A class is a multiple of its distance from the one before.              *)
Spaced ==
  \A i \in Classes : \E d \in PowersOfTwo :
    /\ IsMultiple(sizes[i], d)
    /\ sizes[i] = d + (IF i = 0 THEN 0 ELSE sizes[i - 1])

(* The inductive invariant of the library's tables.                        *)
LibraryTables ==
  /\ Octaves
  /\ Spaced
  /\ stage # "sizes" => ~ MoreSizes
  /\ stage # "rejected"

(* The first octave starts empty.                                          *)
LEMMA InitLibrary ==
  ASSUME Library, BuildInit
  PROVE  LibraryTables
<1>1. 8 * Power(0) = 8
  BY DEF Power
<1>2. 0 \in 0 .. 13 /\ align = 8 /\ size = 0 /\ count = 0
  BY DEF BuildInit, Library
<1>3. count - 4 * 0 = 0 /\ size = 0 * align /\ 0 \in (IF 0 = 0 THEN 0 ELSE 4) .. 7
  BY <1>2
<1>4. Octaves
  BY <1>1, <1>2, <1>3 DEF Octaves
<1> QED BY <1>2, <1>4 DEF BuildInit, LibraryTables, Spaced, Classes

(* The sizes of the library's types.                                       *)
LEMMA LibraryFacts ==
  ASSUME Library, TypeOK
  PROVE  /\ align \in Nat /\ size \in Nat /\ size <= 262144
         /\ count \in Nat /\ count <= 64
<1>1. align \in Nat /\ size \in Nat /\ size <= MaxBytes /\ count \in Nat /\ count <= MaxClasses
  BY LastUnitFacts DEF TypeOK
<1> QED BY <1>1 DEF Library

(* The octaves end with MAX_BYTES.                                         *)
LEMMA OctaveFacts ==
  ASSUME Library, TypeOK, Octaves
  PROVE  /\ count < 60 /\ align \in PowersOfTwo
         /\ ~ MoreSizes => size = MaxBytes
         /\ MoreSizes => \E j \in 0 .. 12 :
              LET taken == count - 4 * j
              IN  /\ align = 8 * Power(j) /\ size = taken * align
                  /\ taken \in (IF j = 0 THEN 0 ELSE 4) .. 7
<1>1. PICK j \in 0 .. 13 : LET taken == count - 4 * j
                           IN  /\ align = 8 * Power(j) /\ size = taken * align
                               /\ taken \in (IF j = 0 THEN 0 ELSE 4) .. 7
  BY DEF Octaves
<1>2. PICK c \in 0 .. 7 : c = count - 4 * j /\ size = c * align /\ (j > 0 => c >= 4)
  BY <1>1
<1>3. PICK p \in PowersOfTwo : p = Power(j) /\ align = 8 * p
  BY <1>1, PowerValues
<1>4. p \in Nat /\ (j <= 12 => p <= 4096) /\ (j = 13 => p = 8192)
  <2>1. /\ Power(0) = 1 /\ Power(1) = 2 /\ Power(2) = 4 /\ Power(3) = 8 /\ Power(4) = 16 /\ Power(5) = 32 /\ Power(6) = 64
        /\ Power(7) = 128 /\ Power(8) = 256 /\ Power(9) = 512 /\ Power(10) = 1024 /\ Power(11) = 2048 /\ Power(12) = 4096
        /\ Power(13) = 8192
    BY DEF Power
  <2> QED BY <1>3, <2>1
<1>5. count \in Nat /\ count < 60
  BY <1>2, LibraryFacts
<1>6. align \in PowersOfTwo
  BY <1>3, <1>4 DEF PowersOfTwo
<1>7. align \in Nat /\ size \in Nat /\ size <= 262144
  BY LibraryFacts
<1>8. ASSUME ~ MoreSizes PROVE size = 262144
  <2>1. 262144 < size + align
    BY <1>5, <1>7, <1>8 DEF MoreSizes, Library
  <2>2. (c + 1) * align = size + align
    BY <1>2, <1>7
  <2>3. CASE j <= 12
    <3>1. align <= 32768
      BY <1>3, <1>4, <2>3
    <3> QED BY <1>2, <1>7, <2>1, <3>1
  <2>4. CASE j = 13
    <3>1. align = 65536 /\ c >= 4
      BY <1>2, <1>3, <1>4, <2>4
    <3> QED BY <1>2, <1>7, <3>1
  <2> QED BY <2>3, <2>4
<1>9. ASSUME MoreSizes PROVE j \in 0 .. 12
  <2>1. size + align <= 262144
    BY <1>9 DEF MoreSizes, Library
  <2>2. j # 13
    <3> SUFFICES ASSUME j = 13 PROVE FALSE
      OBVIOUS
    <3>1. align = 65536 /\ c >= 4
      BY <1>2, <1>3, <1>4
    <3> QED BY <1>2, <2>1, <3>1
  <2> QED BY <2>2
<1>10. MoreSizes => \E k \in 0 .. 12 : LET taken == count - 4 * k
                                      IN  /\ align = 8 * Power(k) /\ size = taken * align
                                          /\ taken \in (IF k = 0 THEN 0 ELSE 4) .. 7
  BY <1>1, <1>9
<1> QED BY <1>5, <1>6, <1>8, <1>10 DEF Library

(* A class added ends an octave or not.                                    *)
LEMMA AddSizeLibrary ==
  ASSUME Library, Tables, LibraryTables, AddSize
  PROVE  LibraryTables'
<1>1. /\ stage = "sizes" /\ stage' = "sizes" /\ MoreSizes
      /\ size' = size + align /\ count' = count + 1 /\ align' = NextAlign(size + align, align)
      /\ sizes' = [sizes EXCEPT ![count] = size + align]
  BY DEF AddSize
<1>2. TypeOK /\ TableSound /\ Octaves /\ Spaced
  BY DEF Tables, LibraryTables
<1>3. /\ count \in Nat /\ count \in 0 .. (MaxClasses - 1) /\ size \in Nat /\ align \in Nat
      /\ align \in PowersOfTwo
  BY <1>1, <1>2, OctaveFacts, LibraryFacts, LastUnitFacts DEF MoreSizes
<1>4. PICK j \in 0 .. 12 : LET taken == count - 4 * j
                           IN  /\ align = 8 * Power(j) /\ size = taken * align
                               /\ taken \in (IF j = 0 THEN 0 ELSE 4) .. 7
  BY <1>1, <1>2, OctaveFacts
<1>5. PICK c \in 0 .. 7 : c = count - 4 * j /\ size = c * align /\ (j > 0 => c >= 4)
  BY <1>4
<1>6. size' = (c + 1) * align
  BY <1>1, <1>3, <1>5
<1>7. Octaves'
  <2>1. CASE c < 7
    <3>1. align' = align
      <4>1. (c + 1) * align < align * 8
        BY <1>3, <2>1 DEF PowersOfTwo
      <4> QED BY <1>1, <1>3, <1>6, <4>1 DEF NextAlign
    <3>2. count' - 4 * j = c + 1
      BY <1>1, <1>3, <1>5
    <3>3. c + 1 \in (IF j = 0 THEN 0 ELSE 4) .. 7
      BY <1>5, <2>1
    <3>4. j \in 0 .. 13
      OBVIOUS
    <3> QED BY <1>4, <1>6, <3>1, <3>2, <3>3, <3>4 DEF Octaves
  <2>2. CASE c = 7
    <3>1. align' = align * 2 /\ size' = 4 * (align * 2)
      BY <1>1, <1>3, <1>6, <2>2 DEF NextAlign
    <3>2. count' - 4 * (j + 1) = 4 /\ j + 1 \in 0 .. 13 /\ 4 \in (IF j + 1 = 0 THEN 0 ELSE 4) .. 7
      BY <1>1, <1>3, <1>5, <2>2
    <3>3. align' = 8 * Power(j + 1)
      <4>1. PICK p, q : p = Power(j) /\ q = Power(j + 1)
        OBVIOUS
      <4>2. q = 2 * p /\ p \in Nat
        BY <4>1, PowerValues DEF PowersOfTwo
      <4> QED BY <1>4, <3>1, <4>1, <4>2
    <3> QED BY <3>1, <3>2, <3>3 DEF Octaves
  <2> QED BY <2>1, <2>2
<1>8. Spaced'
  <2>1. sizes'[count] = size + align /\ \A i \in 0 .. (MaxClasses - 1) : i # count => sizes'[i] = sizes[i]
    BY <1>1, <1>2, <1>3 DEF TypeOK
  <2> SUFFICES ASSUME NEW i \in Classes'
               PROVE  \E d \in PowersOfTwo :
                        /\ IsMultiple(sizes'[i], d)
                        /\ sizes'[i] = d + (IF i = 0 THEN 0 ELSE sizes'[i - 1])
    BY DEF Spaced, IsMultiple
  <2>2. i \in 0 .. count
    BY <1>1, <1>3 DEF Classes
  <2>3. CASE i = count
    <3>1. IsMultiple(sizes'[i], align)
      BY <1>1, <1>6, <2>1, <2>3 DEF IsMultiple
    <3>2. size = IF i = 0 THEN 0 ELSE sizes[i - 1]
      BY <1>2, <2>3 DEF TableSound
    <3>3. i # 0 => sizes'[i - 1] = sizes[i - 1]
      <4>1. i # 0 => i - 1 \in 0 .. (MaxClasses - 1) /\ i - 1 # count
        BY <1>3, <2>3, LastUnitFacts
      <4> QED BY <2>1, <4>1
    <3>4. sizes'[i] = align + (IF i = 0 THEN 0 ELSE sizes'[i - 1])
      BY <1>3, <2>1, <2>3, <3>2, <3>3
    <3> QED BY <1>3, <3>1, <3>4
  <2>4. CASE i # count
    <3>1. i \in Classes /\ sizes'[i] = sizes[i] /\ (i # 0 => sizes'[i - 1] = sizes[i - 1])
      <4>1. /\ i \in 0 .. (count - 1) /\ i \in 0 .. (MaxClasses - 1)
            /\ i # 0 => i - 1 \in 0 .. (MaxClasses - 1) /\ i - 1 # count
        BY <1>3, <2>2, <2>4, LastUnitFacts
      <4> QED BY <2>1, <2>4, <4>1 DEF Classes
    <3> QED BY <1>2, <3>1 DEF Spaced
  <2> QED BY <2>3, <2>4
<1> QED BY <1>1, <1>7, <1>8 DEF LibraryTables

(* The loops keep the shape of the library's table.                        *)
LEMMA NextLibrary == Library /\ Tables /\ LibraryTables /\ [BuildNext]_buildVars => LibraryTables'
<1> SUFFICES ASSUME Library, Tables, LibraryTables, [BuildNext]_buildVars PROVE LibraryTables'
  OBVIOUS
<1>1. ASSUME UNCHANGED tableVars PROVE Octaves' /\ Spaced' /\ (MoreSizes' <=> MoreSizes)
  BY <1>1 DEF tableVars, LibraryTables, Octaves, Spaced, MoreSizes, Classes, IsMultiple
<1>2. CASE AddSize
  BY <1>2, AddSizeLibrary
<1>3. CASE NextClass \/ Record \/ UNCHANGED buildVars
  BY <1>1, <1>3 DEF NextClass, Record, buildVars, tableVars, LibraryTables
<1>4. CASE Proceed
  <2>1. UNCHANGED tableVars /\ (stage' = "rejected" => ~ Accepted /\ stage = "units")
        /\ (stage = "sizes" => ~ MoreSizes)
    BY <1>4 DEF Proceed, StartLoop
  <2>2. stage = "units" => Accepted
    <3> SUFFICES ASSUME stage = "units" PROVE Accepted
      OBVIOUS
    <3>1. size = 262144 /\ count \in Nat
      <4>1. size = MaxBytes
        BY OctaveFacts DEF Tables, LibraryTables
      <4> QED BY <4>1, LibraryFacts DEF Tables, Library
    <3>2. TableSound
      BY DEF Tables
    <3> QED BY <3>1, <3>2 DEF TableSound, Accepted, Library
  <2> QED BY <1>1, <2>1, <2>2 DEF LibraryTables
<1> QED BY <1>2, <1>3, <1>4 DEF BuildNext

-----------------------------------------------------------------------------
(* The properties of the tables.                                           *)

(* Both maps and the search name the same class.                           *)
LEMMA ReadyAgrees ==
  ASSUME Ready
  PROVE  MapsAgree
<1> USE TableFacts, LastUnitFacts
<1>1. \A i \in 1 .. (count - 1) : getSize(i - 1) < getSize(i)
  <2>1. \A i \in 1 .. (count - 1) : i \in Classes /\ i - 1 \in Classes /\ i - 1 < i
    BY DEF Classes
  <2> QED BY <2>1 DEF getSize
<1>2. \A n \in 0 .. MaxBytes : LeastClass(n, getIndex(n))
  BY IndexFacts
<1>3. ASSUME NEW n \in 0 .. (MaxBytes + 1), n > SmallLimit PROVE Search(n) = getIndex(n)
  <2>1. PICK i : i = Search(n) /\ i \in 0 .. count /\ (i < count => n <= sizes[i])
                 /\ (i > 0 => sizes[i - 1] < n)
    BY SearchFinds DEF Found
  <2>2. CASE n <= MaxBytes
    <3>1. i # count
      BY <2>1, <2>2
    <3>2. LeastClass(n, i)
      BY <2>1, <3>1 DEF LeastClass, getSize
    <3>3. getIndex(n) \in Nat /\ LeastClass(n, getIndex(n))
      BY <2>2, IndexFacts
    <3> QED BY <2>1, <3>2, <3>3, LeastUnique
  <2>3. CASE n > MaxBytes
    <3>1. i = count
      <4>1. i # count => i \in Classes /\ n <= sizes[i]
        BY <2>1 DEF Classes
      <4> QED BY <2>3, <4>1
    <3>2. getIndex(n) = count
      BY <2>3 DEF getIndex
    <3> QED BY <2>1, <3>1, <3>2
  <2> QED BY <2>2, <2>3
<1>4. \A n \in 0 .. (MaxBytes + 1) : getIndexV2(n) = getIndex(n)
  <2> SUFFICES ASSUME NEW n \in 0 .. (MaxBytes + 1) PROVE getIndexV2(n) = getIndex(n)
    OBVIOUS
  <2>1. CASE n <= SmallLimit
    BY <2>1 DEF getIndexV2, getIndex
  <2>2. CASE n > SmallLimit
    BY <1>3, <2>2 DEF getIndexV2
  <2> QED BY <2>1, <2>2
<1> QED BY <1>1, <1>2, <1>4 DEF MapsAgree

(* A batch fits on a thread's list.                                        *)
LEMMA BatchFits ==
  ASSUME NEW b \in Nat
  PROVE  getBatchNum(b) \in 1 .. maxCachedBlocks(b)
<1>1. PICK g \in Nat \ {0} : g = Greatest(b, Alignment)
  BY LastUnitFacts DEF Greatest
<1>2. PICK x \in Nat, y \in Nat :
        /\ x = 65536 \div g /\ x * g <= 65536
        /\ y = 262144 \div g /\ 262144 < y * g + g
  BY DivBounds
<1>3. x <= y
  <2>1. y < x => y * g + g <= x * g
    BY ProductOrder
  <2>2. x * g \in Nat /\ y * g \in Nat
    OBVIOUS
  <2> QED BY <1>2, <2>1, <2>2
<1>4. BatchBytes = 65536
  BY DEF BatchBytes
<1>5. PICK most \in {512, 256, 128, 32, 16} :
        /\ getBatchNum(b) = Greatest(1, Least(Greatest(1, x), most))
        /\ \/ maxCachedBlocks(b) \in {4096, 2048, 1024, 256, 512} /\ most <= maxCachedBlocks(b)
           \/ most = 16 /\ maxCachedBlocks(b) = Least(Greatest(1, y), 128)
  BY <1>1, <1>2, <1>4 DEF getBatchNum, maxCachedBlocks
<1>6. getBatchNum(b) \in 1 .. most /\ getBatchNum(b) <= Greatest(1, x)
  BY <1>5 DEF Least, Greatest
<1> QED BY <1>3, <1>5, <1>6 DEF Least, Greatest

(* A span holds a block.                                                   *)
LEMMA SpanFits ==
  ASSUME NEW b \in Nat, b <= 262144, NEW ps \in Nat \ {0}
  PROVE  b <= spanPages(b, ps) * ps
<1>1. PICK t \in Nat : t = targetBytes(b) /\ b + b <= t
  BY DEF targetBytes
<1>2. PICK target \in Nat : target = Greatest(ps, t) /\ ps <= target /\ t <= target
  BY DEF Greatest
<1>3. PICK q \in Nat : q = target \div ps /\ target < q * ps + ps
  BY DivBounds
<1>4. PICK r \in Nat : r = Greatest(1, q) /\ r >= 1 /\ r >= q
  BY DEF Greatest
<1>5. spanPages(b, ps) = r
  BY <1>1, <1>2, <1>3, <1>4 DEF spanPages
<1>6. r * ps \in Nat /\ q * ps \in Nat /\ ps <= r * ps /\ q * ps <= r * ps
  <2>1. r * ps = ps + (r - 1) * ps /\ (r - 1) * ps \in Nat
    BY <1>4
  <2>2. r * ps = q * ps + (r - q) * ps /\ (r - q) * ps \in Nat /\ q * ps \in Nat
    BY <1>4
  <2> QED BY <2>1, <2>2
<1>7. b <= r * ps
  BY <1>1, <1>2, <1>3, <1>6
<1> QED BY <1>5, <1>7

(* Both for every class of the table.                                      *)
LEMMA ReadyFits ==
  ASSUME Library, Ready
  PROVE  PoliciesFit
<1> SUFFICES ASSUME NEW c \in Classes
             PROVE  /\ getBatchNum(getSize(c)) \in 1 .. maxCachedBlocks(getSize(c))
                    /\ \A ps \in PageSizes : getSize(c) <= spanPages(getSize(c), ps) * ps
  BY DEF PoliciesFit, Classes
<1>1. getSize(c) \in Nat /\ getSize(c) <= 262144
  BY TableFacts DEF getSize, Library
<1>2. PageSizes \subseteq Nat \ {0}
  BY SizeClassesAssumption
<1> QED BY <1>1, <1>2, BatchFits, SpanFits

(* A multiple of a power of two is rounded up to one: either the classes   *)
(* there are as far apart, or it is itself the size of a class.            *)
LEMMA RoundUpAligned ==
  ASSUME Ready, Spaced, NEW a \in PowersOfTwo, NEW n \in 1 .. MaxBytes, IsMultiple(n, a)
  PROVE  IsMultiple(roundUp(n), a)
<1> USE TableFacts, LastUnitFacts
<1>1. PICK i \in Classes : i = getIndex(n) /\ LeastClass(n, i)
  BY IndexFacts
<1>2. roundUp(n) = sizes[i] /\ n <= sizes[i] /\ (i > 0 => sizes[i - 1] < n)
  BY <1>1 DEF roundUp, LeastClass, getSize
<1>3. PICK d \in PowersOfTwo : IsMultiple(sizes[i], d) /\ sizes[i] = d + (IF i = 0 THEN 0 ELSE sizes[i - 1])
  BY DEF Spaced
<1>4. a \in Nat \ {0} /\ d \in Nat \ {0} /\ sizes[i] \in Nat
  BY PowersDivide DEF PowersOfTwo
<1>5. CASE a <= d
  <2>1. PICK p \in Nat, q \in Nat : d = p * a /\ sizes[i] = q * d
    BY <1>3, <1>5, PowersDivide DEF IsMultiple
  <2>2. sizes[i] = (q * p) * a /\ q * p \in Nat
    BY <1>4, <2>1
  <2> QED BY <1>2, <2>2 DEF IsMultiple
<1>6. CASE d < a
  <2>0. IsMultiple(a, d) /\ IsMultiple(n, a) /\ IsMultiple(sizes[i], d)
    <3>1. d <= a
      BY <1>4, <1>6
    <3> QED BY <1>3, <3>1, PowersDivide
  <2>1. PICK p \in Nat, k \in Nat, q \in Nat : a = p * d /\ n = k * a /\ sizes[i] = q * d
    BY <2>0, Zenon DEF IsMultiple
  <2>2. n = (k * p) * d /\ k * p \in Nat
    BY <1>4, <2>1
  <2>3. sizes[i] <= n
    <3>1. sizes[i] < n + d
      <4>1. CASE i = 0
        BY <1>3, <1>4, <4>1
      <4>2. CASE i # 0
        <5>1. i > 0 /\ i - 1 \in Classes
          BY <4>2 DEF Classes
        <5> QED BY <1>2, <1>3, <1>4, <4>2, <5>1
      <4> QED BY <4>1, <4>2
    <3>2. IsMultiple(n, d)
      BY <2>2 DEF IsMultiple
    <3>3. n < sizes[i] => n + d <= sizes[i]
      BY <1>3, <1>4, <3>2, MultiplesApart
    <3> QED BY <1>4, <3>1, <3>3
  <2> QED BY <1>2, <1>4, <2>3
<1> QED BY <1>4, <1>5, <1>6

(* A multiple leaves no remainder.                                         *)
LEMMA MultipleMod ==
  ASSUME NEW x \in Nat, NEW d \in Nat \ {0}
  PROVE  IsMultiple(x, d) => x % d = 0
BY DEF IsMultiple

(* Every power of two allocateAligned rounds to is kept.                   *)
LEMMA ReadyAligned ==
  ASSUME Ready, Spaced
  PROVE  AlignmentKept
<1> SUFFICES ASSUME NEW a \in Powers, NEW k \in 1 .. (MaxBytes \div a)
             PROVE  roundUp(k * a) % a = 0
  BY DEF AlignmentKept
<1>1. a \in PowersOfTwo
  <2>1. PICK e \in 3 .. 18 : a = 2 ^ e
    BY DEF Powers
  <2>2. e \in 0 .. 30 /\ a = Power(e)
    BY <2>1 DEF Power
  <2> QED BY <2>2, PowerValues
<1>2. a \in Nat \ {0}
  BY <1>1 DEF PowersOfTwo
<1>3. k * a \in 1 .. MaxBytes
  <2>1. PICK q \in Nat : q = MaxBytes \div a /\ q * a <= MaxBytes
    BY <1>2, DivBounds, LastUnitFacts
  <2>2. k \in Nat /\ k >= 1 /\ k <= q
    BY <2>1
  <2>3. q * a = k * a + (q - k) * a /\ (q - k) * a \in Nat /\ k * a = a + (k - 1) * a /\ (k - 1) * a \in Nat
    BY <1>2, <2>2
  <2> QED BY <1>2, <2>1, <2>3, LastUnitFacts
<1>4. IsMultiple(k * a, a)
  BY DEF IsMultiple
<1>5. IsMultiple(roundUp(k * a), a)
  BY <1>1, <1>3, <1>4, RoundUpAligned
<1>6. roundUp(k * a) \in Nat
  BY <1>3, IndexFacts, TableFacts, LastUnitFacts DEF roundUp, getSize
<1> QED BY <1>2, <1>5, <1>6, MultipleMod

-----------------------------------------------------------------------------
(* What a request gets.                                                    *)
LEMMA RequestConstants ==
  /\ SizeMax \in Nat /\ MaxBytes < SizeMax /\ Alignment \in Nat \ {0} /\ MaxBytes \in Nat
  /\ PageSize \in Nat \ {0} /\ PageSize \in PowersOfTwo /\ Granularity \in Nat \ {0}
  /\ SlotBase \in Nat \ {0} /\ NumPools \in Nat
<1>1. \A a : IsPower(a) => a \in PowersOfTwo
  BY PowerValues DEF IsPower, Power
<1> QED BY <1>1, RequestsAssumption, SizeClassesAssumption

(* What fits in a size_t does not wrap.                                    *)
LEMMA WordSame ==
  ASSUME NEW x \in Nat, x <= SizeMax
  PROVE  Word(x) = x
<1>1. PICK m \in Nat : m = SizeMax + 1 /\ x < m
  BY RequestConstants
<1>2. x % m = x
  BY <1>1
<1> QED BY <1>1, <1>2 DEF Word

(* What is left of a product is what was rounded up.                       *)
LEMMA RoundToUp ==
  ASSUME NEW x \in Nat, NEW d \in Nat \ {0}, x <= SizeMax - (d - 1)
  PROVE  LET y == RoundTo(Word(x + d - 1), d)
         IN  y \in Nat /\ x <= y /\ y <= SizeMax /\ IsMultiple(y, d)
<1>1. x + d - 1 \in Nat /\ x + d - 1 <= SizeMax
  BY RequestConstants
<1>2. Word(x + d - 1) = x + d - 1
  BY <1>1, WordSame
<1>3. PICK q \in Nat : q = (x + d - 1) \div d /\ x <= q * d /\ q * d <= x + d - 1
  BY RoundUpBounds
<1>4. RoundTo(Word(x + d - 1), d) = q * d /\ q * d \in Nat
  BY <1>2, <1>3 DEF RoundTo
<1>5. IsMultiple(q * d, d)
  BY DEF IsMultiple
<1> QED BY <1>1, <1>3, <1>4, <1>5, RequestConstants

(* What systemAlloc maps is no less than what it was asked for.            *)
LEMMA SystemAllocFacts ==
  ASSUME NEW n \in Nat, n * PageSize <= SizeMax, systemAlloc(n) # 0
  PROVE  systemAlloc(n) \in Nat /\ n * PageSize <= systemAlloc(n)
<1>1. n * PageSize \in Nat /\ Word(n * PageSize) = n * PageSize
  BY RequestConstants, WordSame
<1>2. n * PageSize <= SizeMax - (Granularity - 1)
  BY <1>1, RequestConstants DEF systemAlloc
<1>3. systemAlloc(n) = RoundTo(Word(n * PageSize + Granularity - 1), Granularity)
  BY <1>1 DEF systemAlloc
<1> QED BY <1>1, <1>2, <1>3, RoundToUp, RequestConstants

(* What a caller gets instead of memory.                                   *)
NotServed(r) == r.kind \in {"refused", "no memory"}

(* They are no memory.                                                     *)
LEMMA Denials == NotServed(Refused) /\ NotServed(NoMemory)
BY DEF NotServed, Refused, NoMemory

(* A large object has its pages, the last one in part perhaps.             *)
LEMMA LargeFacts ==
  ASSUME NEW bytes \in 0 .. SizeMax, NEW r \in allocateLarge(bytes)
  PROVE  \/ NotServed(r)
         \/ /\ r.kind = "pages" /\ r.bytes \in Nat /\ bytes <= r.bytes /\ r.class = count
            /\ \E p \in 1 .. 2 : r.addr = p * PageSize
<1> DEFINE numPages == Word(bytes + PageSize - 1) \div PageSize
           mapped   == systemAlloc(numPages)
<1>1. CASE NoRoomToRound(bytes, PageSize) \/ mapped = 0
  <2>1. r = Refused
    BY <1>1 DEF allocateLarge
  <2> QED BY <2>1, Denials
<1>2. CASE ~ NoRoomToRound(bytes, PageSize) /\ mapped # 0
  <2>1. bytes <= SizeMax - (PageSize - 1)
    BY <1>2, RequestConstants DEF NoRoomToRound
  <2>2. numPages * PageSize \in Nat /\ bytes <= numPages * PageSize /\ numPages * PageSize <= SizeMax
    BY <2>1, RoundToUp, RequestConstants DEF RoundTo
  <2>3. numPages \in Nat
    <3>1. bytes + PageSize - 1 \in Nat /\ bytes + PageSize - 1 <= SizeMax
      BY <2>1, RequestConstants
    <3>2. Word(bytes + PageSize - 1) = bytes + PageSize - 1
      BY <3>1, WordSame
    <3> QED BY <3>1, <3>2, DivBounds, RequestConstants
  <2>4. mapped \in Nat /\ bytes <= mapped
    BY <1>2, <2>2, <2>3, SystemAllocFacts
  <2>5. \/ r = NoMemory
        \/ \E n \in {numPages * PageSize, mapped}, p \in 1 .. 2 :
             r = [kind |-> "pages", bytes |-> n, class |-> count, addr |-> p * PageSize]
    BY <1>2 DEF allocateLarge
  <2> HIDE DEF numPages, mapped
  <2>6. CASE r = NoMemory
    BY <2>6, Denials
  <2>7. ASSUME NEW n \in {numPages * PageSize, mapped}, NEW p \in 1 .. 2,
               r = [kind |-> "pages", bytes |-> n, class |-> count, addr |-> p * PageSize]
        PROVE  /\ r.kind = "pages" /\ r.bytes \in Nat /\ bytes <= r.bytes /\ r.class = count
               /\ r.addr = p * PageSize
    BY <2>2, <2>4, <2>7
  <2> QED BY <2>5, <2>6, <2>7
<1> QED BY <1>1, <1>2

(* A block has the size of its class.                                      *)
LEMMA BlockFacts ==
  ASSUME NEW c, NEW r \in allocateBlock(c)
  PROVE  \/ NotServed(r)
         \/ /\ r.kind = "block" /\ r.bytes = getSize(c) /\ r.class = c
            /\ \E p \in 1 .. 2, i \in 0 .. 1 : r.addr = p * PageSize + i * getSize(c)
<1>1. \/ r = NoMemory
      \/ \E p \in 1 .. 2, i \in 0 .. 1 :
           r = [kind |-> "block", bytes |-> getSize(c), class |-> c, addr |-> p * PageSize + i * getSize(c)]
  BY DEF allocateBlock
<1>2. CASE r = NoMemory
  BY <1>2, Denials
<1>3. ASSUME NEW p \in 1 .. 2, NEW i \in 0 .. 1,
             r = [kind |-> "block", bytes |-> getSize(c), class |-> c, addr |-> p * PageSize + i * getSize(c)]
      PROVE  /\ r.kind = "block" /\ r.bytes = getSize(c) /\ r.class = c
             /\ r.addr = p * PageSize + i * getSize(c)
  BY <1>3
<1> QED BY <1>1, <1>2, <1>3

(* Which of the two a request gets.                                        *)
LEMMA AllocateFacts ==
  ASSUME NEW bytes \in 0 .. SizeMax, NEW r \in allocate(bytes)
  PROVE  \/ NotServed(r)
         \/ /\ bytes > MaxBytes /\ r.kind = "pages" /\ r.bytes \in Nat /\ bytes <= r.bytes /\ r.class = count
            /\ \E p \in 1 .. 2 : r.addr = p * PageSize
         \/ /\ bytes <= MaxBytes /\ r.kind = "block" /\ r.class = getIndex(NonZero(bytes))
            /\ r.bytes = getSize(r.class)
            /\ \E p \in 1 .. 2, i \in 0 .. 1 : r.addr = p * PageSize + i * getSize(r.class)
<1>1. CASE bytes > MaxBytes
  BY <1>1, LargeFacts DEF allocate
<1>2. CASE ~ (bytes > MaxBytes)
  <2>1. r \in allocateBlock(getIndex(NonZero(bytes)))
    BY <1>2 DEF allocate
  <2> QED BY <1>2, <2>1, BlockFacts, RequestConstants
<1> QED BY <1>1, <1>2

(* Above ALIGNMENT the request is rounded up to its alignment.             *)
LEMMA AlignedFacts ==
  ASSUME NEW bytes \in 0 .. SizeMax, NEW a \in Nat, NEW r \in allocateAligned(bytes, a)
  PROVE  \/ NotServed(r)
         \/ a \in PowersOfTwo /\ a <= Alignment /\ r \in allocate(bytes)
         \/ /\ a \in PowersOfTwo /\ a > Alignment
            /\ \E need \in 0 .. SizeMax :
                 bytes <= need /\ IsMultiple(need, a) /\ r \in allocate(need)
<1>1. CASE r = Refused
  BY <1>1 DEF Refused, NotServed
<1>2. CASE IsPower(a) /\ a <= Alignment /\ r \in allocate(bytes)
  BY <1>2, PowerValues DEF IsPower, Power
<1>3. CASE IsPower(a) /\ a > Alignment /\ ~ NoRoomToRound(bytes, a) /\ r \in allocate(Need(bytes, a))
  <2>1. a \in PowersOfTwo
    BY <1>3, PowerValues DEF IsPower, Power
  <2>2. bytes <= SizeMax - (a - 1)
    BY <1>3, RequestConstants DEF NoRoomToRound
  <2>3. PICK need \in Nat : need = Need(bytes, a) /\ bytes <= need /\ need <= SizeMax /\ IsMultiple(need, a)
    <3>1. a \in Nat \ {0}
      BY <1>3, RequestConstants
    <3> QED BY <2>2, <3>1, RoundToUp DEF Need
  <2> QED BY <1>3, <2>1, <2>3, RequestConstants
<1> QED BY <1>1, <1>2, <1>3, RequestConstants DEF allocateAligned

-----------------------------------------------------------------------------
(* What the three properties say of one result.                            *)
Holds(r, n) == ~ NotServed(r) => r.bytes \in Nat /\ n <= r.bytes

Placed(r, n, a) == ~ NotServed(r) /\ n > 0 /\ a <= PageSize => r.addr % a = 0

Matches(r, n, a) == ~ NotServed(r) /\ a <= Alignment => r.class = freeClass(n)

(* A size and the size of its class have the same class.                   *)
LEMMA RoundUpClass ==
  ASSUME Ready, NEW n \in 0 .. MaxBytes
  PROVE  getIndex(roundUp(n)) = getIndex(n)
<1> USE TableFacts, LastUnitFacts
<1>1. PICK i \in Classes : i = getIndex(n) /\ LeastClass(n, i)
  BY IndexFacts
<1>2. roundUp(n) = sizes[i] /\ sizes[i] \in 0 .. MaxBytes /\ sizes[i] \in Nat
  BY <1>1 DEF roundUp, getSize
<1>3. LeastClass(sizes[i], i)
  <2>1. i > 0 => i - 1 \in Classes /\ sizes[i - 1] < sizes[i]
    BY DEF Classes
  <2> QED BY <1>1, <1>2, <2>1 DEF LeastClass, getSize
<1>4. getIndex(sizes[i]) \in Classes /\ LeastClass(sizes[i], getIndex(sizes[i]))
  BY <1>2, IndexFacts
<1> QED BY <1>1, <1>2, <1>3, <1>4, LeastUnique

(* The class freed to is the class taken from.                             *)
LEMMA BlockMatches ==
  ASSUME Ready, NEW n \in 0 .. MaxBytes
  PROVE  /\ freeClass(n) = getIndex(NonZero(n))
         /\ getIndex(NonZero(n)) \in Classes
         /\ getSize(getIndex(NonZero(n))) \in Nat /\ n <= getSize(getIndex(NonZero(n)))
<1>1. NonZero(n) \in 0 .. MaxBytes /\ n <= NonZero(n)
  BY TableFacts, LastUnitFacts DEF NonZero
<1>2. freeClass(n) = getIndex(NonZero(n))
  BY <1>1, RoundUpClass, LastUnitFacts DEF freeClass
<1>3. getIndex(NonZero(n)) \in Classes /\ NonZero(n) <= getSize(getIndex(NonZero(n)))
  BY <1>1, IndexFacts DEF LeastClass
<1>4. getSize(getIndex(NonZero(n))) \in Nat
  BY <1>3, TableFacts DEF getSize
<1> QED BY <1>1, <1>2, <1>3, <1>4

(* A request with no more than the alignment of every block.               *)
LEMMA AllocateSound ==
  ASSUME Ready, NEW n \in 0 .. SizeMax, NEW r \in allocate(n)
  PROVE  Holds(r, n) /\ (~ NotServed(r) => r.class = freeClass(n))
<1> USE RequestConstants
<1>1. CASE NotServed(r)
  BY <1>1 DEF Holds
<1>2. CASE n > MaxBytes /\ r.bytes \in Nat /\ n <= r.bytes /\ r.class = count
  <2>1. freeClass(n) = count
    BY <1>2 DEF freeClass, NonZero
  <2> QED BY <1>2, <2>1 DEF Holds
<1>3. CASE n <= MaxBytes /\ r.class = getIndex(NonZero(n)) /\ r.bytes = getSize(r.class)
  <2>1. n \in 0 .. MaxBytes
    BY <1>3
  <2> QED BY <1>3, <2>1, BlockMatches DEF Holds
<1> QED BY <1>1, <1>2, <1>3, AllocateFacts

(* Where it lies.                                                          *)
LEMMA AllocatePlaced ==
  ASSUME Ready, NEW n \in 0 .. SizeMax, NEW r \in allocate(n), NEW a \in PowersOfTwo, a <= PageSize,
         n <= MaxBytes => IsMultiple(getSize(getIndex(NonZero(n))), a)
  PROVE  NotServed(r) \/ r.addr % a = 0
<1> USE RequestConstants
<1>1. a \in Nat \ {0} /\ IsMultiple(PageSize, a)
  BY PowersDivide
<1>2. ASSUME NEW p \in 1 .. 2 PROVE IsMultiple(p * PageSize, a) /\ p * PageSize \in Nat
  <2>1. p = 1 \/ p = 2
    OBVIOUS
  <2>2. 1 * PageSize = PageSize /\ 2 * PageSize = PageSize + PageSize
    OBVIOUS
  <2>3. IsMultiple(PageSize + PageSize, a)
    BY <1>1, SumMultiple
  <2> QED BY <1>1, <2>1, <2>2, <2>3
<1>3. ASSUME NEW p \in 1 .. 2, r.addr = p * PageSize PROVE r.addr % a = 0
  BY <1>1, <1>2, <1>3, MultipleMod
<1>4. ASSUME n <= MaxBytes, NEW p \in 1 .. 2, NEW i \in 0 .. 1,
             r.addr = p * PageSize + i * getSize(getIndex(NonZero(n)))
      PROVE  r.addr % a = 0
  <2>1. PICK s \in Nat : s = getSize(getIndex(NonZero(n))) /\ IsMultiple(s, a)
    <3>1. n \in 0 .. MaxBytes
      BY <1>4
    <3> QED BY <1>4, <3>1, BlockMatches
  <2>2. IsMultiple(p * PageSize + s, a)
    BY <1>1, <1>2, <2>1, SumMultiple
  <2>3. r.addr = p * PageSize \/ r.addr = p * PageSize + s
    <3>1. i = 0 \/ i = 1
      OBVIOUS
    <3> QED BY <1>2, <1>4, <2>1, <3>1
  <2>4. p * PageSize + s \in Nat
    BY <1>2, <2>1
  <2> QED BY <1>1, <1>2, <2>2, <2>3, <2>4, MultipleMod
<1> QED BY <1>3, <1>4, AllocateFacts

(* All three, for allocateAligned.                                         *)
LEMMA AlignedSound ==
  ASSUME Ready, NEW n \in 0 .. SizeMax, NEW a \in Nat, NEW r \in allocateAligned(n, a)
  PROVE  /\ Holds(r, n) /\ Matches(r, n, a)
         /\ Alignment \in PowersOfTwo /\ Spaced => Placed(r, n, a)
<1> USE RequestConstants
<1>1. CASE NotServed(r)
  BY <1>1 DEF Holds, Matches, Placed
<1>2. CASE a \in PowersOfTwo /\ a <= Alignment /\ r \in allocate(n)
  <2>1. Holds(r, n) /\ Matches(r, n, a)
    BY <1>2, AllocateSound DEF Matches
  <2>2. ASSUME Alignment \in PowersOfTwo, a <= PageSize PROVE NotServed(r) \/ r.addr % a = 0
    <3>1. n <= MaxBytes => IsMultiple(getSize(getIndex(NonZero(n))), a)
      <4> SUFFICES ASSUME n <= MaxBytes PROVE IsMultiple(getSize(getIndex(NonZero(n))), a)
        OBVIOUS
      <4>1. n \in 0 .. MaxBytes
        OBVIOUS
      <4>2. PICK i \in Classes : i = getIndex(NonZero(n)) /\ IsMultiple(sizes[i], Alignment)
        BY <4>1, BlockMatches, TableFacts
      <4>3. IsMultiple(Alignment, a) /\ a \in Nat
        BY <1>2, <2>2, PowersDivide
      <4>4. PICK p \in Nat, q \in Nat : Alignment = p * a /\ sizes[i] = q * Alignment
        BY <4>2, <4>3, Zenon DEF IsMultiple
      <4>5. sizes[i] = (q * p) * a /\ q * p \in Nat
        BY <4>3, <4>4
      <4> QED BY <4>2, <4>5 DEF IsMultiple, getSize
    <3> QED BY <1>2, <2>2, <3>1, AllocatePlaced
  <2> QED BY <2>1, <2>2 DEF Placed
<1>3. CASE /\ a \in PowersOfTwo /\ a > Alignment
           /\ \E need \in 0 .. SizeMax : n <= need /\ IsMultiple(need, a) /\ r \in allocate(need)
  <2>1. PICK need \in 0 .. SizeMax : n <= need /\ IsMultiple(need, a) /\ r \in allocate(need)
    BY <1>3
  <2>2. Holds(r, n)
    BY <2>1, AllocateSound DEF Holds
  <2>3. Matches(r, n, a)
    BY <1>3 DEF Matches
  <2>4. ASSUME Spaced, n > 0, a <= PageSize PROVE NotServed(r) \/ r.addr % a = 0
    <3>1. need <= MaxBytes => IsMultiple(getSize(getIndex(NonZero(need))), a)
      <4> SUFFICES ASSUME need <= MaxBytes PROVE IsMultiple(getSize(getIndex(NonZero(need))), a)
        OBVIOUS
      <4>1. need \in 1 .. MaxBytes /\ NonZero(need) = need
        BY <2>1, <2>4 DEF NonZero
      <4>2. IsMultiple(roundUp(need), a)
        BY <1>3, <2>1, <2>4, <4>1, RoundUpAligned
      <4> QED BY <4>1, <4>2 DEF roundUp
    <3> QED BY <1>3, <2>1, <2>4, <3>1, AllocatePlaced
  <2> QED BY <2>2, <2>3, <2>4 DEF Placed
<1> QED BY <1>1, <1>2, <1>3, AlignedFacts


-----------------------------------------------------------------------------
(* What an answer says of the request.                                     *)
Sound(r, n, a) ==
  r.kind \in {"block", "pages", "slot"} =>
    /\ n <= r.bytes
    /\ a <= Alignment => r.class = IF r.kind = "slot" THEN freePoolIndex(n) ELSE freeClass(n)

Lies(r, n, a) ==
  r.kind \in {"block", "pages"} /\ n > 0 /\ a <= PageSize => r.addr % a = 0

(* v3 answers with a block, with pages or not at all.                      *)
LEMMA AlignedAnswers ==
  ASSUME Ready, NEW n \in 0 .. SizeMax, NEW a \in Nat, NEW r \in allocateAligned(n, a)
  PROVE  Sound(r, n, a) /\ (Alignment \in PowersOfTwo /\ Spaced => Lies(r, n, a))
<1>1. ASSUME NEW m \in 0 .. SizeMax, r \in allocate(m) PROVE NotServed(r) \/ r.kind \in {"block", "pages"}
  BY <1>1, AllocateFacts
<1>2. NotServed(r) \/ r.kind \in {"block", "pages"}
  BY <1>1, AlignedFacts
<1>3. CASE NotServed(r)
  BY <1>3 DEF NotServed, Sound, Lies
<1>4. CASE ~ NotServed(r) /\ r.kind \in {"block", "pages"}
  BY <1>4, AlignedSound DEF Sound, Lies, Holds, Matches, Placed
<1> QED BY <1>2, <1>3, <1>4

(* A refusal says nothing.                                                 *)
LEMMA RefusedAnswers ==
  ASSUME NEW n, NEW a
  PROVE  Sound(Refused, n, a) /\ Lies(Refused, n, a)
BY DEF Sound, Lies, Refused

(* v1 answers with a slot of the next whole number of units.               *)
LEMMA SlotAnswers ==
  ASSUME NEW n \in Nat, NEW a, NEW r \in useMemory(n)
  PROVE  Sound(r, n, a) /\ Lies(r, n, a)
<1>1. CASE r = [kind |-> "operator new"]
  BY <1>1 DEF Sound, Lies
<1>2. CASE r = [kind |-> "slot", bytes |-> slotBytes(poolIndex(n)), class |-> poolIndex(n)]
  <2>1. PICK q \in Nat : q = (n + SlotBase - 1) \div SlotBase /\ n <= q * SlotBase
    BY RoundUpBounds, RequestConstants
  <2>2. slotBytes(poolIndex(n)) = q * SlotBase /\ poolIndex(n) = freePoolIndex(n)
    BY <2>1, RequestConstants DEF slotBytes, poolIndex, freePoolIndex
  <2>3. r.kind = "slot" /\ n <= r.bytes /\ r.class = freePoolIndex(n)
    BY <1>2, <2>1, <2>2
  <2> QED BY <2>3 DEF Sound, Lies
<1> QED BY <1>1, <1>2 DEF useMemory

(* A product is asked for only when it does not wrap.                      *)
LEMMA ProductAnswers ==
  ASSUME Ready, NEW n \in 0 .. SizeMax, NEW s \in 1 .. SizeMax, NEW a \in Nat,
         NEW r \in IF TooMany(n, s) THEN {Refused} ELSE allocateAligned(Word(n * s), a)
  PROVE  Sound(r, n * s, a) /\ (Alignment \in PowersOfTwo /\ Spaced => Lies(r, n * s, a))
<1>1. CASE TooMany(n, s)
  BY <1>1, RefusedAnswers
<1>2. CASE ~ TooMany(n, s)
  <2>1. PICK q \in Nat : q = SizeMax \div s /\ q * s <= SizeMax
    BY DivBounds, RequestConstants
  <2>2. n <= q
    BY <1>2, <2>1, RequestConstants DEF TooMany
  <2>3. q * s = n * s + (q - n) * s /\ (q - n) * s \in Nat /\ n * s \in Nat
    BY <2>2, RequestConstants
  <2>4. n * s \in 0 .. SizeMax /\ Word(n * s) = n * s
    <3>1. n * s \in Nat /\ n * s <= SizeMax
      BY <2>1, <2>3, RequestConstants
    <3> QED BY <3>1, WordSame, RequestConstants
  <2> QED BY <1>2, <2>4, AlignedAnswers
<1> QED BY <1>1, <1>2

-----------------------------------------------------------------------------
(* The inductive invariant of the requests: what was answered is sound.    *)
Waiting == answer = None

Answered ==
  answer = [kind |-> answer.result.kind, size |-> answer.size, alignment |-> answer.alignment,
            result |-> answer.result]
    /\ Sound(answer.result, answer.size, answer.alignment)

Located == Waiting \/ Lies(answer.result, answer.size, answer.alignment)

Inv == Tables /\ (stage # "running" => Waiting) /\ (Waiting \/ Answered)

LibraryInv == Library => LibraryTables /\ Located

(* An answer given.                                                        *)
LEMMA AnswerStep ==
  ASSUME Tables, NEW n, NEW a, NEW results, Answer(n, a, results),
         \A r \in results : Ready => Sound(r, n, a)
  PROVE  /\ Inv' /\ stage = "ready" /\ stage' = "running" /\ UNCHANGED tableVars
         /\ (\A r \in results : Lies(r, n, a)) => Located'
<1>1. PICK r \in results :
        /\ answer' = [kind |-> r.kind, size |-> n, alignment |-> a, result |-> r]
        /\ stage = "ready" /\ stage' = "running" /\ UNCHANGED <<at, index, smallMap, unitMap>>
        /\ UNCHANGED tableVars
  BY DEF Answer
<1>2. answer'.result = r /\ answer'.size = n /\ answer'.alignment = a
  BY <1>1
<1>3. Tables'
  BY <1>1 DEF tableVars, Tables, TypeOK, TableSound, LoopSound, MapsSound, Asserted, Accepted, Fits,
              Finished, Classes
<1>4. Sound(r, n, a)
  BY <1>1 DEF Ready
<1>5. UNCHANGED freeClass(n)
  BY <1>1 DEF tableVars, freeClass, roundUp, getIndex, getSize
<1>6. Answered'
  BY <1>1, <1>2, <1>4, <1>5 DEF Answered, Sound
<1>7. (\A x \in results : Lies(x, n, a)) => Located'
  BY <1>1, <1>2 DEF Located, Lies
<1> QED BY <1>1, <1>3, <1>6, <1>7 DEF Inv

(* A loop goes on before anything is asked.                                *)
LEMMA LoopStep ==
  ASSUME Inv, BuildNext, UNCHANGED answer
  PROVE  Inv' /\ Waiting /\ Waiting'
<1>1. stage \in {"sizes", "small", "units"} /\ stage' \in {"sizes", "small", "units", "ready", "rejected"}
  BY DEF BuildNext, AddSize, NextClass, Record, Proceed, Filling, StartLoop
<1>2. Waiting /\ Waiting'
  BY <1>1 DEF Inv, Waiting
<1>3. Tables'
  BY NextTables DEF Inv
<1> QED BY <1>2, <1>3 DEF Inv

(* Nothing changes.                                                        *)
LEMMA StutterStep ==
  ASSUME Inv, UNCHANGED requestVars
  PROVE  Inv' /\ (Located => Located')
<1>1. UNCHANGED buildVars /\ UNCHANGED answer
  BY DEF requestVars, buildVars
<1>2. Tables'
  BY <1>1, NextTables DEF Inv
<1>3. \A n : UNCHANGED freeClass(n)
  BY <1>1 DEF buildVars, freeClass, roundUp, getIndex, getSize
<1>4. UNCHANGED stage /\ UNCHANGED Waiting /\ (Answered => Answered') /\ (Located => Located')
  BY <1>1, <1>3 DEF buildVars, Waiting, Answered, Sound, Located, Lies
<1> QED BY <1>2, <1>4 DEF Inv

(* The requests are within a size_t.                                       *)
LEMMA RequestBounds ==
  /\ Sizes \subseteq 0 .. SizeMax /\ Alignments \subseteq 0 .. SizeMax /\ Counts \subseteq 0 .. SizeMax
  /\ \A t \in Types : t[1] \in 1 .. SizeMax /\ t[2] \in 1 .. SizeMax
  /\ \A x \in 0 .. SizeMax : x \in Nat
BY RequestsAssumption

(* Every step keeps the invariant, and under the library's constants also  *)
(* what depends on its table.                                              *)
LEMMA NextInv == Inv /\ LibraryInv /\ [RequestNext]_requestVars => Inv' /\ LibraryInv'
<1> SUFFICES ASSUME Inv, LibraryInv, [RequestNext]_requestVars PROVE Inv' /\ LibraryInv'
  OBVIOUS
<1>1. ASSUME NEW n, NEW a, NEW results, Answer(n, a, results),
             \A r \in results : Ready => /\ Sound(r, n, a)
                                         /\ Alignment \in PowersOfTwo /\ Spaced => Lies(r, n, a)
      PROVE  Inv' /\ LibraryInv'
  <2>1. Tables
    BY DEF Inv
  <2>2. /\ Inv' /\ stage = "ready" /\ stage' = "running" /\ UNCHANGED tableVars
        /\ (\A r \in results : Lies(r, n, a)) => Located'
    BY <1>1, <2>1, AnswerStep
  <2>3. ASSUME Library PROVE LibraryTables' /\ Located'
    <3>1. LibraryTables
      BY <2>3 DEF LibraryInv
    <3>2. LibraryTables'
      BY <2>2, <3>1 DEF tableVars, LibraryTables, Octaves, Spaced, MoreSizes, Classes, IsMultiple
    <3>3. Ready /\ Spaced /\ Alignment \in PowersOfTwo
      BY <2>1, <2>2, <2>3, <3>1 DEF Ready, LibraryTables, Library, PowersOfTwo
    <3> QED BY <1>1, <2>2, <3>2, <3>3
  <2> QED BY <2>2, <2>3 DEF LibraryInv
<1>2. CASE BuildNext /\ UNCHANGED answer
  <2>1. Inv' /\ Waiting'
    BY <1>2, LoopStep
  <2>2. Library => LibraryTables'
    BY <1>2, NextLibrary DEF Inv, LibraryInv
  <2> QED BY <2>1, <2>2 DEF LibraryInv, Located
<1>3. ASSUME NEW n \in Sizes, NEW a \in Alignments, Ask(n, a) PROVE Inv' /\ LibraryInv'
  <2>1. n \in 0 .. SizeMax /\ a \in Nat
    BY RequestBounds
  <2> QED BY <1>1, <1>3, <2>1, AlignedAnswers DEF Ask
<1>4. ASSUME NEW n \in Counts, NEW t \in Types, AskObjects(n, t[1], t[2]) PROVE Inv' /\ LibraryInv'
  <2>1. n \in 0 .. SizeMax /\ t[1] \in 1 .. SizeMax /\ t[2] \in Nat
    BY RequestBounds, RequestConstants
  <2> DEFINE results == IF TooMany(n, t[1]) THEN {Refused} ELSE allocateAligned(Word(n * t[1]), t[2])
  <2>2. Answer(n * t[1], t[2], results)
    BY <1>4 DEF AskObjects
  <2>3. \A r \in results : Ready => /\ Sound(r, n * t[1], t[2])
                                    /\ Alignment \in PowersOfTwo /\ Spaced => Lies(r, n * t[1], t[2])
    BY <2>1, ProductAnswers
  <2> HIDE DEF results
  <2> QED BY <1>1, <2>2, <2>3
<1>5. ASSUME NEW n \in Sizes, newElement(n) PROVE Inv' /\ LibraryInv'
  <2>1. n \in Nat
    BY RequestBounds
  <2>2. Answer(n, 1, useMemory(n))
    BY <1>5 DEF newElement
  <2> QED BY <1>1, <2>1, <2>2, SlotAnswers
<1>6. CASE UNCHANGED requestVars
  <2>1. Inv' /\ (Located => Located')
    BY <1>6, StutterStep
  <2>2. UNCHANGED buildVars
    BY <1>6 DEF requestVars, buildVars
  <2>3. Library => LibraryTables'
    BY <2>2, NextLibrary DEF Inv, LibraryInv
  <2> QED BY <2>1, <2>3 DEF LibraryInv
<1> QED BY <1>2, <1>3, <1>4, <1>5, <1>6 DEF RequestNext

(* The loops start with an empty table, and nothing was asked.             *)
LEMMA InitInv == RequestInit => Inv /\ LibraryInv
BY InitTables, InitLibrary DEF RequestInit, Inv, LibraryInv, Waiting, Located

(* The invariant holds.                                                    *)
THEOREM InvHolds == RequestSpec => [](Inv /\ LibraryInv)
BY InitInv, NextInv, PTL DEF RequestSpec

-----------------------------------------------------------------------------
(* For any constants: whatever is handed out by the thread caches, through *)
(* the STL allocator or by a pool of v1, is as big as what was asked for,  *)
(* although the sums and products on the way are those of a size_t.        *)
THEOREM HandedOutBigEnough == RequestSpec => []BigEnough
<1>1. Inv => BigEnough
  BY DEF Inv, Waiting, Answered, Sound, BigEnough, Served, None
<1> QED BY <1>1, InvHolds, PTL

(* For any constants: a free that goes by the size asked for finds the     *)
(* class the block was taken from, in v3 and in v1.                        *)
THEOREM SizedFreesMatch == RequestSpec => []SizedFreeMatches
<1>1. Inv => SizedFreeMatches
  BY DEF Inv, Waiting, Answered, Sound, SizedFreeMatches, Served, None
<1> QED BY <1>1, InvHolds, PTL

(* For any constants: tables that pass the static assertions name the      *)
(* smallest class that holds the request, for each size up to MAX_BYTES,   *)
(* in v3's two maps as in v2's binary search.                              *)
THEOREM TablesAgree == RequestSpec => []MapsAgree
<1>1. Inv => MapsAgree
  <2> SUFFICES ASSUME Inv PROVE MapsAgree
    OBVIOUS
  <2>1. CASE stage = "ready"
    BY <2>1, ReadyAgrees DEF Inv, Ready
  <2>2. CASE stage # "ready"
    BY <2>2 DEF MapsAgree
  <2> QED BY <2>1, <2>2
<1> QED BY <1>1, InvHolds, PTL

(* With the constants of the library the tables pass their assertions, and *)
(* agree.                                                                  *)
THEOREM LibraryIndexLeast == Library => (RequestSpec => []IndexLeast)
<1> SUFFICES ASSUME Library PROVE RequestSpec => []IndexLeast
  OBVIOUS
<1>1. LibraryInv => stage # "rejected"
  BY DEF LibraryInv, LibraryTables
<1>2. MapsAgree /\ stage # "rejected" => IndexLeast
  BY DEF IndexLeast
<1> QED BY <1>1, <1>2, InvHolds, TablesAgree, PTL

(* With those constants, and pages of any size: a span of a class holds a  *)
(* block, and a batch fits on a thread's list.                             *)
THEOREM LibraryPoliciesFit == Library => (RequestSpec => []PoliciesFit)
<1> SUFFICES ASSUME Library PROVE RequestSpec => []PoliciesFit
  OBVIOUS
<1>1. Inv => PoliciesFit
  <2> SUFFICES ASSUME Inv PROVE PoliciesFit
    OBVIOUS
  <2>1. CASE stage = "ready"
    BY <2>1, ReadyFits DEF Inv, Ready
  <2>2. CASE stage # "ready"
    BY <2>2 DEF PoliciesFit
  <2> QED BY <2>1, <2>2
<1> QED BY <1>1, InvHolds, PTL

(* With those constants: an object lies at a multiple of the alignment     *)
(* asked for, up to the size of a page, which may be any power of two.     *)
THEOREM LibraryAligned == Library => (RequestSpec => []AlignedWithinPage)
<1> SUFFICES ASSUME Library PROVE RequestSpec => []AlignedWithinPage
  OBVIOUS
<1>1. Inv /\ LibraryInv => AlignedWithinPage
  <2> SUFFICES ASSUME Inv, LibraryInv PROVE AlignedWithinPage
    OBVIOUS
  <2>1. AlignmentKept
    <3>1. CASE stage = "ready"
      BY <3>1, ReadyAligned DEF Inv, Ready, LibraryInv, LibraryTables
    <3>2. CASE stage # "ready"
      BY <3>2 DEF AlignmentKept
    <3> QED BY <3>1, <3>2
  <2>2. ASSUME answer.kind \in {"block", "pages"}, answer.size > 0, answer.alignment <= PageSize
        PROVE  answer.result.addr % answer.alignment = 0
    <3>1. Located /\ ~ Waiting /\ answer.kind = answer.result.kind
      BY <2>2 DEF Inv, LibraryInv, Waiting, None, Answered
    <3> QED BY <2>2, <3>1 DEF Located, Lies
  <2> QED BY <2>1, <2>2 DEF AlignedWithinPage
<1> QED BY <1>1, InvHolds, PTL
-----------------------------------------------------------------------------
(* The pool of v1.                                                         *)
(*                                                                         *)
(* SlotsInv is inductive.  That a slot is popped once although others      *)
(* may have popped and pushed it again between load and exchange rests on  *)
(* the tag: it never falls, so a head that is what it was has not changed, *)
(* and neither has the link of the slot it leads to.                       *)

Places == {"idle", "popRead", "popCas", "carve", "pushStore", "pushCas"}

OpFields == [at : Places, old : [ptr : Nat, tag : Nat], slot : Nat]

(* The program holds each of its slots once.                               *)
SlotsTyped ==
  /\ blocks \subseteq Words
  /\ curSlot \in Nat /\ lastSlot \in Nat
  /\ freeList \in [ptr : Nat, tag : Nat]
  /\ DOMAIN next \subseteq Nat /\ next \in [DOMAIN next -> Nat]
  /\ op \in [Threads -> OpFields]
  /\ DOMAIN owned \subseteq Nat /\ owned \in [DOMAIN owned -> {1}]
  /\ alive \in BOOLEAN

(* What a thread carries to its exchange: a head no newer than the         *)
(* present one and, if it is the present one, the link behind it; or the   *)
(* slot it pushes, linked to the head it has seen.                         *)
OpExact(o) ==
  /\ o.old.tag <= freeList.tag
  /\ o.at = "popCas" =>
       /\ o.old.ptr # nullptr
       /\ o.old = freeList => o.slot = next[freeList.ptr]
  /\ o.at = "pushCas" => o.slot \in DOMAIN next /\ next[o.slot] = o.old.ptr

OpsExact == alive => \A t \in Threads : OpExact(op[t])

(* Blocks do not overlap, and what is left to carve lies in one of them,   *)
(* behind every slot carved from it.                                       *)
BlocksApart ==
  alive =>
    /\ \A b \in blocks : b + BlockSize - 1 <= NumWords
    /\ \A a, b \in blocks : a # b => WordsOf(a, BlockSize) \cap WordsOf(b, BlockSize) = {}

CarvingExact ==
  alive /\ curSlot < lastSlot =>
    /\ curSlot % SlotSize = 0
    /\ \E b \in blocks :
         /\ lastSlot = lastSlotOf(b) /\ b < curSlot
         /\ \A p \in Known : p \in WordsOf(b, BlockSize) => p < curSlot

(* The inductive invariant.                                                *)
SlotsInv == /\ SlotsTyped /\ FreeListSound /\ SlotsInBlocks
       /\ OpsExact /\ BlocksApart /\ CarvingExact

-----------------------------------------------------------------------------
(* The list.                                                               *)

(* The free slots are the least closed set, if any set is closed.          *)
LEMMA LeastClosed ==
  ASSUME NEW C \in SUBSET DOMAIN next, Closed(C)
  PROVE  FreeSlots \subseteq C
BY DEF FreeSlots

(* A chain is closed.                                                      *)
LEMMA ChainClosed ==
  ASSUME Chain
  PROVE  /\ Closed(FreeSlots) /\ FreeSlots \in SUBSET DOMAIN next
         /\ freeList.ptr # nullptr => freeList.ptr \in FreeSlots
BY DEF Chain, Closed, FreeSlots

(* What is in every closed set is in the list.                             *)
LEMMA InEvery ==
  ASSUME NEW S \in SUBSET DOMAIN next, \A C \in SUBSET DOMAIN next : Closed(C) => S \subseteq C
  PROVE  S \subseteq FreeSlots
BY DEF FreeSlots

(* The same of the list after a step.                                      *)
LeastNext == \A C \in SUBSET DOMAIN next : Closed(C) => FreeSlots \subseteq C
InEveryNext ==
  \A S \in SUBSET DOMAIN next :
    (\A C \in SUBSET DOMAIN next : Closed(C) => S \subseteq C) => S \subseteq FreeSlots

(* LeastClosed and InEvery after a step.                                   *)
LEMMA ListNext == LeastNext' /\ InEveryNext'
<1>1. LeastNext /\ InEveryNext
  BY LeastClosed, InEvery DEF LeastNext, InEveryNext
<1> QED BY <1>1, PTL

(* The list after a step is the set S if S is closed and every closed set  *)
(* holds it.                                                               *)
LEMMA ListIs ==
  ASSUME NEW S, S \subseteq DOMAIN next',
         freeList'.ptr \in S \cup {nullptr},
         \A p \in S : next'[p] \in S \cup {nullptr},
         \A C \in SUBSET DOMAIN next' :
           freeList'.ptr \in C \cup {nullptr} /\ (\A p \in C : next'[p] \in C \cup {nullptr}) => S \subseteq C
  PROVE  FreeSlots' = S
<1>1. /\ Closed(S)'
      /\ \A C \in SUBSET DOMAIN next' : Closed(C)' => S \subseteq C
  BY DEF Closed
<1>2. FreeSlots' \subseteq S
  BY <1>1, ListNext DEF LeastNext
<1>3. S \subseteq FreeSlots'
  BY <1>1, ListNext DEF InEveryNext
<1> QED BY <1>2, <1>3

(* Links outside the list do not matter.                                   *)
LEMMA ListKept ==
  ASSUME Chain, freeList'.ptr = freeList.ptr, FreeSlots \subseteq DOMAIN next',
         \A p \in FreeSlots : next'[p] = next[p]
  PROVE  FreeSlots' = FreeSlots /\ Chain'
<1>1. Closed(FreeSlots) /\ FreeSlots \in SUBSET DOMAIN next
  BY ChainClosed
<1>2. ASSUME NEW C \in SUBSET DOMAIN next',
             freeList'.ptr \in C \cup {nullptr}, \A p \in C : next'[p] \in C \cup {nullptr}
      PROVE  FreeSlots \subseteq C
  <2>1. Closed(C \cap FreeSlots) /\ C \cap FreeSlots \in SUBSET DOMAIN next
    BY <1>1, <1>2 DEF Closed
  <2> QED BY <2>1, LeastClosed
<1>3. FreeSlots' = FreeSlots
  BY <1>1, <1>2, ListIs DEF Closed
<1> QED BY <1>3 DEF Chain

(* The slot at the head goes.                                              *)
LEMMA ListPops ==
  ASSUME Chain, NEW h, h = freeList.ptr, h # nullptr, freeList'.ptr = next[h],
         next' = [p \in DOMAIN next \ {h} |-> next[p]]
  PROVE  FreeSlots' = FreeSlots \ {h} /\ Chain'
<1>1. Closed(FreeSlots) /\ FreeSlots \in SUBSET DOMAIN next /\ h \in FreeSlots
  BY ChainClosed
<1>2. /\ DOMAIN next' = DOMAIN next \ {h}
      /\ \A p \in DOMAIN next \ {h} : next'[p] = next[p]
  OBVIOUS
<1>3. ASSUME NEW C \in SUBSET DOMAIN next',
             freeList'.ptr \in C \cup {nullptr}, \A p \in C : next'[p] \in C \cup {nullptr}
      PROVE  FreeSlots \ {h} \subseteq C
  <2>1. Closed(C \cup {h}) /\ C \cup {h} \in SUBSET DOMAIN next
    BY <1>1, <1>2, <1>3 DEF Closed
  <2> QED BY <2>1, LeastClosed
<1>4. /\ FreeSlots \ {h} \subseteq DOMAIN next'
      /\ freeList'.ptr \in (FreeSlots \ {h}) \cup {nullptr}
      /\ \A p \in FreeSlots \ {h} : next'[p] \in (FreeSlots \ {h}) \cup {nullptr}
  BY <1>1, <1>2 DEF Closed, Chain
<1>5. FreeSlots' = FreeSlots \ {h}
  BY <1>3, <1>4, ListIs
<1>6. {freeList'.ptr} \cup {next'[p] : p \in FreeSlots \ {h}} = (FreeSlots \ {h}) \cup {nullptr}
  <2>1. {freeList'.ptr} \cup {next'[p] : p \in FreeSlots \ {h}} = {next[p] : p \in FreeSlots}
    BY <1>1, <1>2
  <2>2. {h} \cup {next[p] : p \in FreeSlots} = FreeSlots \cup {nullptr}
    BY DEF Chain
  <2>3. h \notin {next[p] : p \in FreeSlots}
    BY DEF Chain
  <2> QED BY <2>1, <2>2, <2>3
<1>7. /\ \A p \in FreeSlots' : next'[p] # freeList'.ptr
      /\ \A p, q \in FreeSlots' : p # q => next'[p] # next'[q]
  BY <1>1, <1>2, <1>5 DEF Chain
<1> QED BY <1>5, <1>6, <1>7 DEF Chain

(* A slot is put before the head.                                          *)
LEMMA ListPushes ==
  ASSUME Chain, NEW s \in DOMAIN next, s \notin FreeSlots, s # nullptr,
         next[s] = freeList.ptr, freeList'.ptr = s, next' = next
  PROVE  FreeSlots' = FreeSlots \cup {s} /\ Chain'
<1>1. Closed(FreeSlots) /\ FreeSlots \in SUBSET DOMAIN next
  BY ChainClosed
<1>2. ASSUME NEW C \in SUBSET DOMAIN next',
             freeList'.ptr \in C \cup {nullptr}, \A p \in C : next'[p] \in C \cup {nullptr}
      PROVE  FreeSlots \cup {s} \subseteq C
  <2>1. s \in C
    BY <1>2
  <2>2. Closed(C) /\ C \in SUBSET DOMAIN next
    BY <1>2, <2>1 DEF Closed
  <2> QED BY <2>1, <2>2, LeastClosed
<1>3. /\ FreeSlots \cup {s} \subseteq DOMAIN next'
      /\ freeList'.ptr \in (FreeSlots \cup {s}) \cup {nullptr}
      /\ \A p \in FreeSlots \cup {s} : next'[p] \in (FreeSlots \cup {s}) \cup {nullptr}
  BY <1>1 DEF Closed
<1>4. FreeSlots' = FreeSlots \cup {s}
  BY <1>2, <1>3, ListIs
<1>5. {freeList'.ptr} \cup {next'[p] : p \in FreeSlots \cup {s}} = (FreeSlots \cup {s}) \cup {nullptr}
  <2>1. {next[p] : p \in FreeSlots \cup {s}} = {freeList.ptr} \cup {next[p] : p \in FreeSlots}
    OBVIOUS
  <2> QED BY <2>1 DEF Chain
<1>6. /\ \A p \in FreeSlots' : next'[p] # freeList'.ptr
      /\ \A p, q \in FreeSlots' : p # q => next'[p] # next'[q]
  BY <1>1, <1>4 DEF Chain, Closed
<1> QED BY <1>4, <1>5, <1>6 DEF Chain

-----------------------------------------------------------------------------
(* Slots and arithmetic.                                                   *)

(* Slots are aligned, so two of them do not overlap.                       *)
LEMMA SlotsSpaced ==
  ASSUME NEW p \in Nat, NEW q \in Nat, NEW d \in Nat \ {0}, p % d = 0, q % d = 0, p < q
  PROVE  p + d <= q
<1>1. p = d * (p \div d) /\ q = d * (q \div d)
  OBVIOUS
<1>2. PICK i \in Nat, j \in Nat : i = p \div d /\ j = q \div d
  OBVIOUS
<1>3. p = d * i /\ q = d * j
  BY <1>1, <1>2
<1>4. i < j
  <2>1. CASE j <= i
    <3>1. d * i = d * j + d * (i - j) /\ d * (i - j) \in Nat
      BY <2>1
    <3>2. d * i \in Nat /\ d * j \in Nat
      OBVIOUS
    <3> QED BY <1>3, <3>1, <3>2
  <2> QED BY <2>1
<1>5. d * j = d * i + d + d * (j - i - 1) /\ d * (j - i - 1) \in Nat
  BY <1>4
<1> QED BY <1>3, <1>5

(* The next multiple.                                                      *)
LEMMA NextMultiple ==
  ASSUME NEW p \in Nat, NEW d \in Nat \ {0}
  PROVE  /\ p % d \in 0 .. (d - 1)
         /\ (p + (d - (p % d))) % d = 0
         /\ p % d = 0 => (p + d) % d = 0
<1>1. PICK q \in Nat, r \in 0 .. (d - 1) : q = p \div d /\ r = p % d /\ p = d * q + r
  OBVIOUS
<1>2. (d * (q + 1)) % d = 0
  OBVIOUS
<1>3. p + (d - r) = d * (q + 1)
  BY <1>1
<1> QED BY <1>1, <1>2, <1>3

(* Where a known slot is.                                                  *)
LEMMA KnownFacts ==
  ASSUME SlotsInv, alive, NEW p \in Known
  PROVE  /\ p \in Nat /\ p # nullptr /\ p % SlotSize = 0
         /\ \E b \in blocks : /\ b \in Nat /\ b >= 1 /\ b + 1 <= p /\ p + SlotSize <= b + BlockSize
                              /\ p \in WordsOf(b, BlockSize)
<1>1. PICK b \in blocks : WordsOf(p, SlotSize) \subseteq WordsOf(b + 1, BlockSize - 1)
  BY DEF SlotsInv, SlotsInBlocks
<1>2. b \in Nat /\ b >= 1 /\ b <= NumWords
  BY MemoryPoolV1Assumption DEF SlotsInv, SlotsTyped, Words
<1>3. SlotSize \in Nat \ {0} /\ BlockSize \in Nat
  BY MemoryPoolV1Assumption
<1>4. p \in Nat
  BY DEF SlotsInv, SlotsTyped, Known, Pushing, OpFields, FreeSlots
<1>5. p \in p .. (p + SlotSize - 1) /\ p + SlotSize - 1 \in p .. (p + SlotSize - 1)
  BY <1>3, <1>4
<1>6. p \in (b + 1) .. (b + BlockSize - 1) /\ p + SlotSize - 1 \in (b + 1) .. (b + BlockSize - 1)
  BY <1>1, <1>2, <1>3, <1>5 DEF WordsOf
<1>7. /\ b + 1 <= p /\ p + SlotSize <= b + BlockSize /\ p # nullptr
      /\ p \in WordsOf(b, BlockSize)
  BY <1>2, <1>3, <1>4, <1>6 DEF nullptr, WordsOf
<1>8. p % SlotSize = 0
  BY DEF SlotsInv, SlotsInBlocks
<1> QED BY <1>2, <1>4, <1>7, <1>8

(* The same slots and the same blocks.                                     *)
LEMMA KnownKept ==
  ASSUME SlotsInv, Known' = Known, UNCHANGED <<blocks, curSlot, lastSlot, alive>>
  PROVE  SlotsInBlocks' /\ BlocksApart' /\ CarvingExact'
BY DEF SlotsInv, SlotsInBlocks, BlocksApart, CarvingExact

(* What a sound list says of two threads.                                  *)
LEMMA PlacesApart ==
  ASSUME SlotsInv, alive
  PROVE  /\ Chain /\ FreeSlots \cap DOMAIN owned = {}
         /\ \A t \in Threads : Pushing(t) \cap (FreeSlots \cup DOMAIN owned) = {}
         /\ \A t, u \in Threads : t # u => Pushing(t) \cap Pushing(u) = {}
BY DEF SlotsInv, FreeListSound

-----------------------------------------------------------------------------
(* The actions.                                                            *)

(* A thread goes on without having changed anything others see.            *)
LEMMA OnlyOp ==
  ASSUME SlotsInv, alive, NEW t \in Threads, NEW new \in OpFields, op' = [op EXCEPT ![t] = new],
         UNCHANGED <<blocks, curSlot, lastSlot, freeList, next, owned, alive>>,
         Pushing(t)' = Pushing(t), OpExact(new)
  PROVE  SlotsInv' /\ Known' = Known
<1>1. /\ op' \in [Threads -> OpFields] /\ op'[t] = new
      /\ \A u \in Threads : u # t => op'[u] = op[u]
  BY DEF SlotsInv, SlotsTyped
<1>2. SlotsTyped'
  BY <1>1 DEF SlotsInv, SlotsTyped
<1>3. FreeSlots' = FreeSlots /\ Chain'
  BY PlacesApart DEF FreeSlots, Closed, Chain
<1>4. \A u \in Threads : Pushing(u)' = Pushing(u)
  BY <1>1 DEF Pushing
<1>5. Known' = Known
  BY <1>3, <1>4 DEF Known
<1>6. FreeListSound'
  BY <1>3, <1>4, PlacesApart DEF FreeListSound
<1>7. OpsExact'
  <2>1. ASSUME NEW u \in Threads
        PROVE  OpExact(op[u])'
    <3>1. OpExact(op'[u])
      BY <1>1 DEF SlotsInv, OpsExact
    <3> QED BY <3>1 DEF OpExact
  <2> QED BY <2>1 DEF OpsExact
<1>8. SlotsInBlocks' /\ BlocksApart' /\ CarvingExact'
  BY <1>5, KnownKept
<1> QED BY <1>2, <1>5, <1>6, <1>7, <1>8 DEF SlotsInv

(* A thread's fields.                                                      *)
LEMMA OpFacts ==
  ASSUME SlotsInv, NEW t \in Threads
  PROVE  /\ op[t] \in OpFields /\ op[t].at \in Places /\ op[t].slot \in Nat
         /\ op[t].old \in [ptr : Nat, tag : Nat]
         /\ op[t].old.ptr \in Nat /\ op[t].old.tag \in Nat
         /\ op[t] = [at |-> op[t].at, old |-> op[t].old, slot |-> op[t].slot]
         /\ freeList \in [ptr : Nat, tag : Nat]
         /\ Idle \in OpFields
BY DEF SlotsInv, SlotsTyped, OpFields, Places, Idle, nullptr

(* The fields of the head.                                                 *)
LEMMA HeadFacts ==
  ASSUME SlotsInv
  PROVE  freeList.ptr \in Nat /\ freeList.tag \in Nat /\ 0 <= freeList.tag
BY DEF SlotsInv, SlotsTyped

(* A thread reads the head.                                                *)
LEMMA PopLoadInv ==
  ASSUME SlotsInv, alive, NEW t \in Threads, PopLoad(t)
  PROVE  SlotsInv' /\ Known' = Known
<1> DEFINE new == [Idle EXCEPT !.at = "popRead", !.old = freeList]
<1>1. /\ op[t] = Idle /\ op' = [op EXCEPT ![t] = new]
      /\ UNCHANGED <<blocks, curSlot, lastSlot, freeList, next, owned, alive>>
  BY DEF PopLoad
<1>2. new \in OpFields /\ new.at = "popRead" /\ new.old = freeList
  BY OpFacts DEF OpFields, Places, Idle
<1> HIDE DEF new
<1>3. op'[t] = new
  BY <1>1 DEF SlotsInv, SlotsTyped
<1>4. Pushing(t)' = Pushing(t)
  BY <1>1, <1>2, <1>3 DEF Pushing, Idle
<1>5. OpExact(new)
  BY <1>2, HeadFacts DEF OpExact
<1> QED BY <1>1, <1>2, <1>4, <1>5, OnlyOp

(* What is read behind the present head is the link of a slot in the list. *)
LEMMA PopReadInv ==
  ASSUME SlotsInv, alive, NEW t \in Threads, PopRead(t)
  PROVE  SlotsInv' /\ Known' = Known
<1>1. /\ op[t].at = "popRead"
      /\ UNCHANGED <<blocks, curSlot, lastSlot, freeList, next, owned, alive>>
  BY DEF PopRead
<1>2. ASSUME NEW new \in OpFields, op' = [op EXCEPT ![t] = new],
             new.at \in {"carve", "popCas"}, new.old.tag <= freeList.tag,
             new.at = "popCas" =>
               /\ new.old.ptr # nullptr
               /\ new.old = freeList => new.slot = next[freeList.ptr]
      PROVE  SlotsInv' /\ Known' = Known
  <2>1. op'[t] = new
    BY <1>2 DEF SlotsInv, SlotsTyped
  <2>2. Pushing(t)' = Pushing(t)
    BY <1>1, <1>2, <2>1 DEF Pushing
  <2>3. OpExact(new)
    BY <1>2 DEF OpExact
  <2> QED BY <1>1, <1>2, <2>2, <2>3, OnlyOp
<1>3. CASE op' = [op EXCEPT ![t] = [Idle EXCEPT !.at = "carve"]]
  <2>1. /\ [Idle EXCEPT !.at = "carve"] \in OpFields /\ [Idle EXCEPT !.at = "carve"].at = "carve"
        /\ [Idle EXCEPT !.at = "carve"].old.tag = 0
    BY DEF OpFields, Places, Idle, nullptr
  <2>2. 0 <= freeList.tag
    BY HeadFacts
  <2> DEFINE new == [Idle EXCEPT !.at = "carve"]
  <2>3. /\ new \in OpFields /\ new.at = "carve" /\ new.old.tag = 0
        /\ op' = [op EXCEPT ![t] = new]
    BY <1>3, <2>1
  <2> HIDE DEF new
  <2> QED BY <1>2, <2>2, <2>3
<1>4. ASSUME NEW p \in LinkOf(op[t].old.ptr), ~ Exhausted(op[t].old),
             op' = [op EXCEPT ![t] = [@ EXCEPT !.at = "popCas", !.slot = p]]
      PROVE  SlotsInv' /\ Known' = Known
  <2> DEFINE new == [op[t] EXCEPT !.at = "popCas", !.slot = p]
  <2>1. p \in Nat
    BY <1>4, MemoryPoolV1Assumption DEF LinkOf, SlotsInv, SlotsTyped
  <2>3. new \in OpFields /\ new.at = "popCas" /\ new.old = op[t].old /\ new.slot = p
    BY <2>1, OpFacts DEF OpFields, Places
  <2>4. new.old.tag <= freeList.tag
    BY <2>3 DEF SlotsInv, OpsExact, OpExact
  <2>5. new.old.ptr # nullptr
    BY <1>4, <2>3 DEF Exhausted
  <2>6. op[t].old = freeList => p = next[freeList.ptr]
    <3>1. freeList.ptr # nullptr => freeList.ptr \in DOMAIN next
      BY PlacesApart, ChainClosed
    <3> QED BY <1>4, <3>1 DEF LinkOf, Exhausted
  <2>7. op' = [op EXCEPT ![t] = new]
    BY <1>4
  <2> HIDE DEF new
  <2> QED BY <1>2, <2>3, <2>4, <2>5, <2>6, <2>7
<1> QED BY <1>3, <1>4 DEF PopRead

(* A popper that failed reads the head again.                              *)
LEMMA PopRetryInv ==
  ASSUME SlotsInv, alive, NEW t \in Threads, PopRetry(t)
  PROVE  SlotsInv' /\ Known' = Known
<1> DEFINE new == [Idle EXCEPT !.at = "popRead", !.old = freeList]
<1>1. /\ op[t].at = "popCas" /\ op' = [op EXCEPT ![t] = new]
      /\ UNCHANGED <<blocks, curSlot, lastSlot, freeList, next, owned, alive>>
  BY DEF PopRetry
<1>2. new \in OpFields /\ new.at = "popRead" /\ new.old = freeList
  BY OpFacts DEF OpFields, Places, Idle
<1> HIDE DEF new
<1>3. op'[t] = new
  BY <1>1 DEF SlotsInv, SlotsTyped
<1>4. Pushing(t)' = Pushing(t)
  BY <1>1, <1>2, <1>3 DEF Pushing
<1>5. OpExact(new)
  BY <1>2, HeadFacts DEF OpExact
<1> QED BY <1>1, <1>2, <1>4, <1>5, OnlyOp

(* No memory.                                                              *)
LEMMA CarveFailsInv ==
  ASSUME SlotsInv, alive, NEW t \in Threads, CarveFails(t)
  PROVE  SlotsInv' /\ Known' = Known
<1>1. /\ op[t].at = "carve" /\ op' = [op EXCEPT ![t] = Idle] /\ Idle \in OpFields
      /\ UNCHANGED <<blocks, curSlot, lastSlot, freeList, next, owned, alive>>
  BY OpFacts DEF CarveFails
<1>2. op'[t] = Idle /\ Idle.at = "idle" /\ Idle.old.tag = 0
  BY <1>1 DEF SlotsInv, SlotsTyped, Idle
<1>3. Pushing(t)' = Pushing(t) /\ OpExact(Idle)
  BY <1>1, <1>2, HeadFacts DEF Pushing, OpExact
<1> QED BY <1>1, <1>3, OnlyOp

(* A pusher that failed will store the link again.                         *)
LEMMA PushRetryInv ==
  ASSUME SlotsInv, alive, NEW t \in Threads, PushRetry(t)
  PROVE  SlotsInv' /\ Known' = Known
<1> DEFINE new == [op[t] EXCEPT !.at = "pushStore", !.old = freeList]
<1>1. /\ op[t].at = "pushCas" /\ op' = [op EXCEPT ![t] = new]
      /\ UNCHANGED <<blocks, curSlot, lastSlot, freeList, next, owned, alive>>
  BY DEF PushRetry
<1>2. /\ new \in OpFields /\ new.at = "pushStore" /\ new.old = freeList
      /\ new.slot = op[t].slot
  BY OpFacts DEF OpFields, Places
<1> HIDE DEF new
<1>3. op'[t] = new
  BY <1>1 DEF SlotsInv, SlotsTyped
<1>4. Pushing(t)' = Pushing(t)
  BY <1>1, <1>2, <1>3 DEF Pushing
<1>5. OpExact(new)
  BY <1>2, HeadFacts DEF OpExact
<1> QED BY <1>1, <1>2, <1>4, <1>5, OnlyOp

(* What the others do stays.                                               *)
LEMMA OpNext ==
  ASSUME SlotsInv, NEW t \in Threads, NEW new \in OpFields, op' = [op EXCEPT ![t] = new]
  PROVE  /\ op' \in [Threads -> OpFields] /\ op'[t] = new
         /\ \A u \in Threads : u # t => op'[u] = op[u] /\ Pushing(u)' = Pushing(u)
BY DEF SlotsInv, SlotsTyped, Pushing

(* The slots of the program after it has got one or given one back.        *)
LEMMA OwnedNext ==
  ASSUME SlotsInv, NEW p
  PROVE  /\ p \notin DOMAIN owned =>
              /\ DOMAIN BagAdd(owned, p) = DOMAIN owned \cup {p}
              /\ BagAdd(owned, p) \in [DOMAIN owned \cup {p} -> {1}]
         /\ p \in DOMAIN owned =>
              /\ DOMAIN BagRemove(owned, p) = DOMAIN owned \ {p}
              /\ BagRemove(owned, p) \in [DOMAIN owned \ {p} -> {1}]
BY DEF SlotsInv, SlotsTyped, BagAdd, BagRemove

(* A head with a higher tag is none that anybody holds.                    *)
LEMMA TagRises ==
  ASSUME SlotsInv, alive, NEW u \in Threads, NEW s, NEW n \in Nat, n = freeList.tag + 1,
         freeList' = [ptr |-> s, tag |-> n]
  PROVE  op[u].old.tag <= freeList'.tag /\ op[u].old # freeList'
<1>1. op[u].old.tag \in Nat /\ op[u].old.tag <= freeList.tag /\ freeList.tag \in Nat
  BY OpFacts, HeadFacts DEF SlotsInv, OpsExact, OpExact
<1>2. freeList'.tag = n
  OBVIOUS
<1> QED BY <1>1, <1>2

(* The link is stored in a slot nobody else sees.                          *)
LEMMA PushStoreInv ==
  ASSUME SlotsInv, alive, NEW t \in Threads, PushStore(t)
  PROVE  SlotsInv' /\ Known' = Known
<1> DEFINE new == [op[t] EXCEPT !.at = "pushCas"]
           s   == op[t].slot
<1>1. /\ op[t].at = "pushStore" /\ op' = [op EXCEPT ![t] = new]
      /\ next' = [p \in DOMAIN next \cup {s} |-> IF p = s THEN op[t].old.ptr ELSE next[p]]
      /\ UNCHANGED <<blocks, curSlot, lastSlot, freeList, owned, alive>>
  BY OpFacts DEF PushStore, LinkTarget, OpFields, SlotsInv, SlotsTyped
<1>2. new \in OpFields /\ new.at = "pushCas" /\ new.old = op[t].old /\ new.slot = s
  BY OpFacts DEF OpFields, Places
<1>3. s \in Nat /\ op[t].old.ptr \in Nat /\ Pushing(t) = {s} /\ s \notin FreeSlots
  BY <1>1, OpFacts, PlacesApart DEF Pushing
<1> HIDE DEF new, s
<1>4. /\ op' \in [Threads -> OpFields] /\ op'[t] = new
      /\ \A u \in Threads : u # t => op'[u] = op[u]
      /\ \A u \in Threads : Pushing(u)' = Pushing(u)
  <2>1. Pushing(t)' = {s}
    BY <1>1, <1>2, OpNext DEF Pushing
  <2> QED BY <1>1, <1>2, <1>3, <2>1, OpNext
<1>5. /\ DOMAIN next' = DOMAIN next \cup {s} /\ next'[s] = op[t].old.ptr
      /\ \A p \in DOMAIN next : p # s => next'[p] = next[p]
  BY <1>1
<1>6. FreeSlots' = FreeSlots /\ Chain'
  <2>1. FreeSlots \subseteq DOMAIN next
    BY DEF FreeSlots
  <2> QED BY <1>1, <1>3, <1>5, <2>1, PlacesApart, ListKept
<1>7. Known' = Known
  BY <1>1, <1>4, <1>6 DEF Known
<1>8. SlotsTyped'
  BY <1>1, <1>3, <1>4, <1>5 DEF SlotsInv, SlotsTyped
<1>9. FreeListSound'
  BY <1>1, <1>4, <1>6, PlacesApart DEF FreeListSound
<1>10. OpsExact'
  <2>1. ASSUME NEW u \in Threads, u # t PROVE OpExact(op[u])'
    <3>1. OpExact(op[u]) /\ op'[u] = op[u] /\ freeList' = freeList
      BY <1>1, <1>4, <2>1 DEF SlotsInv, OpsExact
    <3>2. op[u].at = "popCas" /\ op[u].old = freeList => next'[freeList.ptr] = next[freeList.ptr]
      <4>1. freeList.ptr # nullptr => freeList.ptr \in FreeSlots /\ freeList.ptr \in DOMAIN next
        BY PlacesApart, ChainClosed
      <4> QED BY <1>3, <1>5, <3>1, <4>1 DEF OpExact
    <3>3. op[u].at = "pushCas" => op[u].slot # s
      BY <1>3, <2>1, PlacesApart DEF Pushing
    <3> QED BY <1>5, <3>1, <3>2, <3>3 DEF OpExact
  <2>2. OpExact(op[t])'
    <3>1. OpExact(op[t]) /\ freeList' = freeList
      BY <1>1 DEF SlotsInv, OpsExact
    <3> QED BY <1>2, <1>4, <1>5, <3>1 DEF OpExact
  <2> QED BY <2>1, <2>2 DEF OpsExact
<1>11. SlotsInBlocks' /\ BlocksApart' /\ CarvingExact'
  BY <1>1, <1>7, KnownKept
<1> QED BY <1>7, <1>8, <1>9, <1>10, <1>11 DEF SlotsInv

(* The slot that was popped is the head, and what becomes the head is the  *)
(* slot behind it.                                                         *)
LEMMA PopTakeInv ==
  ASSUME SlotsInv, alive, NEW t \in Threads, PopTake(t)
  PROVE  /\ SlotsInv' /\ Known' = Known
         /\ op[t].old.ptr \in Known \ DOMAIN owned /\ owned' = BagAdd(owned, op[t].old.ptr)
<1> DEFINE h == freeList.ptr
           n == freeList.tag + 1
<1>1. /\ op[t].at = "popCas" /\ op[t].old = freeList /\ op' = [op EXCEPT ![t] = Idle]
      /\ freeList' = [ptr |-> op[t].slot, tag |-> n]
      /\ next' = [p \in DOMAIN next \ {h} |-> next[p]]
      /\ owned' = BagAdd(owned, h)
      /\ UNCHANGED <<blocks, curSlot, lastSlot, alive>>
  BY DEF PopTake, Unchanged
<1>2. h # nullptr /\ op[t].slot = next[h]
  BY <1>1 DEF SlotsInv, OpsExact, OpExact
<1>3. Chain /\ FreeSlots \subseteq DOMAIN next /\ h \in FreeSlots
  BY <1>2, PlacesApart, ChainClosed
<1>4. h \notin DOMAIN owned /\ \A u \in Threads : h \notin Pushing(u)
  BY <1>3, PlacesApart
<1>5. h \in Nat /\ n \in Nat /\ next[h] \in Nat
  BY <1>3, HeadFacts DEF SlotsInv, SlotsTyped
<1>6. freeList'.ptr = next[h]
  BY <1>1, <1>2
<1> HIDE DEF h
<1>7. FreeSlots' = FreeSlots \ {h} /\ Chain'
  BY <1>1, <1>2, <1>3, <1>6, ListPops DEF h
<1>8. DOMAIN owned' = DOMAIN owned \cup {h} /\ owned' \in [DOMAIN owned' -> {1}]
  BY <1>1, <1>4, OwnedNext
<1>9. /\ op' \in [Threads -> OpFields] /\ op'[t] = Idle
      /\ \A u \in Threads : u # t => op'[u] = op[u]
      /\ \A u \in Threads : Pushing(u)' = Pushing(u)
  <2>1. Idle \in OpFields
    BY OpFacts
  <2>2. Pushing(t)' = {} /\ Pushing(t) = {}
    BY <1>1, <2>1, OpNext DEF Pushing, Idle
  <2> QED BY <1>1, <2>1, <2>2, OpNext
<1>10. Known' = Known
  BY <1>3, <1>7, <1>8, <1>9 DEF Known
<1>11. SlotsTyped'
  BY <1>1, <1>2, <1>5, <1>8, <1>9 DEF SlotsInv, SlotsTyped
<1>12. FreeListSound'
  BY <1>4, <1>7, <1>8, <1>9, PlacesApart DEF FreeListSound
<1>13. OpsExact'
  <2>1. ASSUME NEW u \in Threads, u # t PROVE OpExact(op[u])'
    <3>1. OpExact(op[u]) /\ op'[u] = op[u]
      BY <1>9, <2>1 DEF SlotsInv, OpsExact
    <3>2. op[u].old.tag <= freeList'.tag /\ op[u].old # freeList'
      BY <1>1, <1>5, TagRises
    <3>3. op[u].at = "pushCas" => op[u].slot # h
      BY <1>4 DEF Pushing
    <3> QED BY <1>1, <3>1, <3>2, <3>3 DEF OpExact
  <2>2. OpExact(op[t])'
    <3>1. freeList'.tag = n /\ 0 <= n /\ op'[t].at = "idle" /\ op'[t].old.tag = 0
      BY <1>1, <1>5, <1>9 DEF Idle
    <3> QED BY <3>1 DEF OpExact
  <2> QED BY <2>1, <2>2 DEF OpsExact
<1>14. SlotsInBlocks' /\ BlocksApart' /\ CarvingExact'
  BY <1>1, <1>10, KnownKept
<1>15. op[t].old.ptr = h /\ h \in Known \ DOMAIN owned
  BY <1>1, <1>3, <1>4 DEF Known, h
<1> QED BY <1>1, <1>10, <1>11, <1>12, <1>13, <1>14, <1>15 DEF SlotsInv

(* The program gives a slot back: it is the thread's now.                  *)
LEMMA PushLoadInv ==
  ASSUME SlotsInv, alive, NEW t \in Threads, NEW p \in DOMAIN owned, PushLoad(t, p)
  PROVE  SlotsInv' /\ Known' = Known
<1> DEFINE new == [at |-> "pushStore", old |-> freeList, slot |-> p]
<1>1. /\ op[t] = Idle /\ op' = [op EXCEPT ![t] = new] /\ owned' = BagRemove(owned, p)
      /\ UNCHANGED <<blocks, curSlot, lastSlot, freeList, next, alive>>
  BY DEF PushLoad
<1>2. p \in Nat /\ new \in OpFields /\ new.at = "pushStore" /\ new.old = freeList /\ new.slot = p
  BY DEF SlotsInv, SlotsTyped, OpFields, Places
<1> HIDE DEF new
<1>3. DOMAIN owned' = DOMAIN owned \ {p} /\ owned' \in [DOMAIN owned' -> {1}]
  BY <1>1, OwnedNext
<1>4. /\ op' \in [Threads -> OpFields] /\ op'[t] = new
      /\ \A u \in Threads : u # t => op'[u] = op[u] /\ Pushing(u)' = Pushing(u)
      /\ Pushing(t) = {} /\ Pushing(t)' = {p}
  <2>1. Pushing(t) = {}
    BY <1>1 DEF Pushing, Idle
  <2>2. Pushing(t)' = {p}
    BY <1>1, <1>2, OpNext DEF Pushing
  <2> QED BY <1>1, <1>2, <2>1, <2>2, OpNext
<1>5. FreeSlots' = FreeSlots /\ Chain'
  BY <1>1, PlacesApart DEF FreeSlots, Closed, Chain
<1>6. Known' = Known
  <2>1. UNION {Pushing(u)' : u \in Threads} = (UNION {Pushing(u) : u \in Threads}) \cup {p}
    BY <1>4
  <2> QED BY <1>3, <1>5, <2>1 DEF Known
<1>7. SlotsTyped'
  BY <1>1, <1>3, <1>4 DEF SlotsInv, SlotsTyped
<1>8. FreeListSound'
  BY <1>3, <1>4, <1>5, PlacesApart DEF FreeListSound
<1>9. OpsExact'
  <2>1. ASSUME NEW u \in Threads, u # t PROVE OpExact(op[u])'
    <3>1. OpExact(op[u]) /\ op'[u] = op[u] /\ freeList' = freeList /\ next' = next
      BY <1>1, <1>4, <2>1 DEF SlotsInv, OpsExact
    <3> QED BY <3>1 DEF OpExact
  <2>2. OpExact(op[t])'
    <3>1. freeList' = freeList /\ op'[t] = new
      BY <1>1, <1>4
    <3> QED BY <1>2, <3>1, HeadFacts DEF OpExact
  <2> QED BY <2>1, <2>2 DEF OpsExact
<1>10. SlotsInBlocks' /\ BlocksApart' /\ CarvingExact'
  BY <1>1, <1>6, KnownKept
<1> QED BY <1>6, <1>7, <1>8, <1>9, <1>10 DEF SlotsInv

(* The slot published is linked to the head it replaces.                   *)
LEMMA PushPublishInv ==
  ASSUME SlotsInv, alive, NEW t \in Threads, PushPublish(t)
  PROVE  SlotsInv' /\ Known' = Known
<1> DEFINE s == op[t].slot
           n == freeList.tag + 1
<1>1. /\ op[t].at = "pushCas" /\ op[t].old = freeList /\ op' = [op EXCEPT ![t] = Idle]
      /\ freeList' = [ptr |-> s, tag |-> n]
      /\ UNCHANGED <<blocks, curSlot, lastSlot, next, owned, alive>>
  BY DEF PushPublish, Unchanged
<1>2. s \in DOMAIN next /\ next[s] = freeList.ptr /\ s \in Nat /\ n \in Nat
  <2>1. s \in Nat
    BY OpFacts
  <2>2. n \in Nat
    BY HeadFacts
  <2>3. OpExact(op[t])
    BY DEF SlotsInv, OpsExact
  <2> QED BY <1>1, <2>1, <2>2, <2>3 DEF OpExact
<1>3. Pushing(t) = {s} /\ s \notin FreeSlots /\ s \notin DOMAIN owned
  BY <1>1, PlacesApart DEF Pushing
<1>4. s \in Known /\ s # nullptr
  <2>1. s \in Known
    BY <1>3 DEF Known
  <2> QED BY <2>1, KnownFacts
<1> HIDE DEF s
<1>5. FreeSlots' = FreeSlots \cup {s} /\ Chain'
  <2>1. freeList'.ptr = s
    BY <1>1
  <2> QED BY <1>1, <1>2, <1>3, <1>4, <2>1, PlacesApart, ListPushes
<1>6. /\ op' \in [Threads -> OpFields] /\ op'[t] = Idle
      /\ \A u \in Threads : u # t => op'[u] = op[u] /\ Pushing(u)' = Pushing(u)
      /\ Pushing(t)' = {}
  <2>1. Idle \in OpFields
    BY OpFacts
  <2>2. Pushing(t)' = {}
    BY <1>1, <2>1, OpNext DEF Pushing, Idle
  <2> QED BY <1>1, <2>1, <2>2, OpNext
<1>7. Known' = Known
  <2>1. UNION {Pushing(u) : u \in Threads} = (UNION {Pushing(u)' : u \in Threads}) \cup {s}
    BY <1>3, <1>6
  <2> QED BY <1>1, <1>5, <2>1 DEF Known
<1>8. SlotsTyped'
  BY <1>1, <1>2, <1>6 DEF SlotsInv, SlotsTyped
<1>9. FreeListSound'
  BY <1>1, <1>3, <1>5, <1>6, PlacesApart DEF FreeListSound
<1>10. OpsExact'
  <2>1. ASSUME NEW u \in Threads, u # t PROVE OpExact(op[u])'
    <3>1. OpExact(op[u]) /\ op'[u] = op[u] /\ next' = next
      BY <1>1, <1>6, <2>1 DEF SlotsInv, OpsExact
    <3>2. op[u].old.tag <= freeList'.tag /\ op[u].old # freeList'
      BY <1>1, <1>2, TagRises
    <3> QED BY <3>1, <3>2 DEF OpExact
  <2>2. OpExact(op[t])'
    <3>1. freeList'.tag = n /\ 0 <= n /\ op'[t].at = "idle" /\ op'[t].old.tag = 0
      BY <1>1, <1>2, <1>6 DEF Idle
    <3> QED BY <3>1 DEF OpExact
  <2> QED BY <2>1, <2>2 DEF OpsExact
<1>11. SlotsInBlocks' /\ BlocksApart' /\ CarvingExact'
  BY <1>1, <1>7, KnownKept
<1> QED BY <1>7, <1>8, <1>9, <1>10, <1>11 DEF SlotsInv

(* The program gets a slot that was nobody's.                              *)
LEMMA CarveFromInv ==
  ASSUME SlotsInv, alive, NEW t \in Threads, NEW c \in Nat, op[t].at = "carve", CarveFrom(t, c),
         c \notin Known, blocks' \subseteq Words, lastSlot' \in Nat, curSlot' \in Nat
  PROVE  SlotsTyped' /\ FreeListSound' /\ OpsExact' /\ Known' = Known \cup {c}
<1>1. /\ op' = [op EXCEPT ![t] = Idle] /\ owned' = BagAdd(owned, c)
      /\ UNCHANGED <<freeList, next, alive>>
  BY DEF CarveFrom
<1>2. c \notin DOMAIN owned /\ c \notin FreeSlots /\ \A u \in Threads : c \notin Pushing(u)
  BY DEF Known
<1>3. DOMAIN owned' = DOMAIN owned \cup {c} /\ owned' \in [DOMAIN owned' -> {1}]
  BY <1>1, <1>2, OwnedNext
<1>4. /\ op' \in [Threads -> OpFields] /\ op'[t] = Idle
      /\ \A u \in Threads : u # t => op'[u] = op[u]
      /\ \A u \in Threads : Pushing(u)' = Pushing(u)
  <2>1. Idle \in OpFields
    BY OpFacts
  <2>2. Pushing(t)' = {} /\ Pushing(t) = {}
    BY <1>1, <2>1, OpNext DEF Pushing, Idle
  <2> QED BY <1>1, <2>1, <2>2, OpNext
<1>5. FreeSlots' = FreeSlots /\ Chain'
  BY <1>1, PlacesApart DEF FreeSlots, Closed, Chain
<1>6. Known' = Known \cup {c}
  BY <1>3, <1>4, <1>5 DEF Known
<1>7. SlotsTyped'
  BY <1>1, <1>3, <1>4 DEF SlotsInv, SlotsTyped
<1>8. FreeListSound'
  BY <1>2, <1>3, <1>4, <1>5, PlacesApart DEF FreeListSound
<1>9. OpsExact'
  <2>1. ASSUME NEW u \in Threads, u # t PROVE OpExact(op[u])'
    <3>1. OpExact(op[u]) /\ op'[u] = op[u] /\ freeList' = freeList /\ next' = next
      BY <1>1, <1>4, <2>1 DEF SlotsInv, OpsExact
    <3> QED BY <3>1 DEF OpExact
  <2>2. OpExact(op[t])'
    <3>1. freeList' = freeList /\ op'[t].at = "idle" /\ op'[t].old.tag = 0
      BY <1>1, <1>4 DEF Idle
    <3> QED BY <3>1, HeadFacts DEF OpExact
  <2> QED BY <2>1, <2>2 DEF OpsExact
<1> QED BY <1>6, <1>7, <1>8, <1>9

(* What is carved lies behind everything carved from the block before, and *)
(* inside the block.                                                       *)
LEMMA CarveInv ==
  ASSUME SlotsInv, alive, NEW t \in Threads, Carve(t)
  PROVE  /\ SlotsInv' /\ Known' = Known \cup {curSlot} /\ curSlot \notin Known
         /\ owned' = BagAdd(owned, curSlot)
<1> DEFINE c == curSlot
<1>1. /\ op[t].at = "carve" /\ c < lastSlot /\ CarveFrom(t, c)
      /\ owned' = BagAdd(owned, c) /\ curSlot' = c + SlotSize
      /\ UNCHANGED <<blocks, lastSlot, alive>>
  BY DEF Carve, CarveFrom
<1>2. /\ SlotSize \in Nat \ {0} /\ BlockSize \in Nat /\ NumWords \in Nat
      /\ c \in Nat /\ lastSlot \in Nat /\ c % SlotSize = 0
  BY <1>1, MemoryPoolV1Assumption DEF SlotsInv, SlotsTyped, CarvingExact
<1>3. PICK b \in blocks :
        /\ lastSlot = lastSlotOf(b) /\ b < c
        /\ \A p \in Known : p \in WordsOf(b, BlockSize) => p < c
  BY <1>1 DEF SlotsInv, CarvingExact
<1>4. b \in Nat /\ c + SlotSize <= b + BlockSize
  <2>1. b \in Nat
    BY DEF SlotsInv, SlotsTyped, Words
  <2> QED BY <1>1, <1>2, <1>3, <2>1 DEF lastSlotOf
<1>5. c \in WordsOf(b, BlockSize) /\ c \notin Known
  <2>1. c \in WordsOf(b, BlockSize)
    BY <1>2, <1>3, <1>4 DEF WordsOf
  <2> QED BY <1>2, <1>3, <2>1
<1>6. SlotsTyped' /\ FreeListSound' /\ OpsExact' /\ Known' = Known \cup {c}
  <2>1. blocks' \subseteq Words /\ lastSlot' \in Nat /\ curSlot' \in Nat
    BY <1>1, <1>2 DEF SlotsInv, SlotsTyped
  <2> QED BY <1>1, <1>2, <1>5, <2>1, CarveFromInv
<1>7. SlotsInBlocks'
  <2>1. WordsOf(c, SlotSize) \subseteq WordsOf(b + 1, BlockSize - 1)
    BY <1>2, <1>3, <1>4 DEF WordsOf
  <2>2. \A p \in Known :
          p % SlotSize = 0 /\ \E a \in blocks : WordsOf(p, SlotSize) \subseteq WordsOf(a + 1, BlockSize - 1)
    BY DEF SlotsInv, SlotsInBlocks
  <2> QED BY <1>1, <1>2, <1>6, <2>1, <2>2 DEF SlotsInBlocks
<1>8. BlocksApart'
  BY <1>1 DEF SlotsInv, BlocksApart
<1>9. CarvingExact'
  <2>1. curSlot' % SlotSize = 0
    BY <1>1, <1>2, NextMultiple
  <2>2. b < curSlot'
    BY <1>1, <1>2, <1>3, <1>4
  <2>3. ASSUME NEW p \in Known', p \in WordsOf(b, BlockSize) PROVE p < curSlot'
    <3>1. p = c \/ (p \in Known /\ p < c)
      BY <1>3, <1>6, <2>3
    <3>2. p \in Nat
      BY <1>2, <3>1, KnownFacts
    <3> QED BY <1>1, <1>2, <3>1, <3>2
  <2>4. lastSlot' = lastSlotOf(b) /\ b \in blocks'
    BY <1>1, <1>3
  <2> QED BY <2>1, <2>2, <2>3, <2>4 DEF CarvingExact
<1> QED BY <1>1, <1>5, <1>6, <1>7, <1>8, <1>9 DEF SlotsInv

(* The first slot of a new block.                                          *)
LEMMA CarveNewBlockInv ==
  ASSUME SlotsInv, alive, NEW t \in Threads, CarveNewBlock(t)
  PROVE  /\ SlotsInv'
         /\ \E c \in Nat : Known' = Known \cup {c} /\ c \notin Known /\ owned' = BagAdd(owned, c)
<1>1. PICK base \in Words :
        /\ WordsOf(base, BlockSize) \subseteq Words
        /\ \A b \in blocks : WordsOf(b, BlockSize) \cap WordsOf(base, BlockSize) = {}
        /\ blocks' = blocks \cup {base} /\ lastSlot' = lastSlotOf(base)
        /\ CarveFrom(t, base + 1 + padPointer(base + 1))
  BY DEF CarveNewBlock
<1> DEFINE c == base + 1 + padPointer(base + 1)
<1>2. /\ op[t].at = "carve" /\ owned' = BagAdd(owned, c) /\ curSlot' = c + SlotSize /\ alive' = alive
  BY <1>1 DEF CarveNewBlock, CarveFrom
<1>3. /\ SlotSize \in Nat \ {0} /\ BlockSize \in Nat /\ BlockSize > 2 * SlotSize /\ NumWords \in Nat
      /\ base \in Nat /\ base + 1 \in Nat /\ base >= 1
  BY MemoryPoolV1Assumption DEF Words
<1>4. /\ c \in Nat /\ c % SlotSize = 0 /\ base + 2 <= c /\ c + SlotSize <= base + BlockSize
  <2>1. /\ (base + 1) % SlotSize \in 0 .. (SlotSize - 1)
        /\ ((base + 1) + (SlotSize - ((base + 1) % SlotSize))) % SlotSize = 0
    BY <1>3, NextMultiple
  <2>2. c = (base + 1) + (SlotSize - ((base + 1) % SlotSize))
    BY DEF padPointer
  <2>3. PICK r \in 0 .. (SlotSize - 1) : r = (base + 1) % SlotSize
    BY <2>1
  <2>4. c = (base + 1) + (SlotSize - r)
    BY <2>2, <2>3
  <2> QED BY <1>3, <2>1, <2>2, <2>4
<1>5. c \in WordsOf(base, BlockSize) /\ base + BlockSize - 1 <= NumWords
  <2>1. c \in WordsOf(base, BlockSize) /\ base + BlockSize - 1 \in WordsOf(base, BlockSize)
    BY <1>3, <1>4 DEF WordsOf
  <2> QED BY <1>1, <1>3, <2>1 DEF Words
<1> HIDE DEF c
<1>6. \A p \in Known : p \notin WordsOf(base, BlockSize)
  BY <1>1, KnownFacts
<1>7. c \notin Known
  BY <1>5, <1>6
<1>8. SlotsTyped' /\ FreeListSound' /\ OpsExact' /\ Known' = Known \cup {c}
  <2>1. blocks' \subseteq Words /\ lastSlot' \in Nat /\ curSlot' \in Nat
    BY <1>1, <1>2, <1>3, <1>4 DEF SlotsInv, SlotsTyped, lastSlotOf
  <2> QED BY <1>1, <1>2, <1>4, <1>7, <2>1, CarveFromInv DEF c
<1>9. SlotsInBlocks'
  <2>1. WordsOf(c, SlotSize) \subseteq WordsOf(base + 1, BlockSize - 1)
    BY <1>3, <1>4 DEF WordsOf
  <2>2. \A p \in Known :
          p % SlotSize = 0 /\ \E a \in blocks : WordsOf(p, SlotSize) \subseteq WordsOf(a + 1, BlockSize - 1)
    BY DEF SlotsInv, SlotsInBlocks
  <2> QED BY <1>1, <1>4, <1>8, <2>1, <2>2 DEF SlotsInBlocks
<1>10. BlocksApart'
  BY <1>1, <1>2, <1>5 DEF SlotsInv, BlocksApart
<1>11. CarvingExact'
  <2>1. curSlot' % SlotSize = 0
    BY <1>2, <1>3, <1>4, NextMultiple
  <2>2. base < curSlot' /\ c < curSlot'
    BY <1>2, <1>3, <1>4
  <2>3. \A p \in Known' : p \in WordsOf(base, BlockSize) => p < curSlot'
    BY <1>6, <1>8, <2>2
  <2>4. lastSlot' = lastSlotOf(base) /\ base \in blocks'
    BY <1>1
  <2> QED BY <2>1, <2>2, <2>3, <2>4 DEF CarvingExact
<1> QED BY <1>2, <1>4, <1>7, <1>8, <1>9, <1>10, <1>11 DEF SlotsInv

(* Nothing is claimed of a pool that is gone.                              *)
LEMMA DestroyInv ==
  ASSUME SlotsInv, Destroy
  PROVE  SlotsInv'
<1>1. ~ alive' /\ SlotsTyped'
  BY DEF Destroy, SlotsInv, SlotsTyped, EmptyBag, SetToBag
<1> QED BY <1>1 DEF SlotsInv, FreeListSound, SlotsInBlocks, OpsExact, BlocksApart, CarvingExact

(* The pool that has just been made.                                       *)
LEMMA SlotsInitInv == Init => SlotsInv
<1> SUFFICES ASSUME Init PROVE SlotsInv
  OBVIOUS
<1>1. Idle \in OpFields /\ Idle.at = "idle" /\ Idle.old.tag = 0
  BY DEF Idle, OpFields, Places, nullptr
<1>2. /\ freeList = [ptr |-> 0, tag |-> 0] /\ DOMAIN next = {} /\ DOMAIN owned = {} /\ blocks = {}
      /\ curSlot = 0 /\ lastSlot = 0
      /\ op \in [Threads -> OpFields] /\ \A t \in Threads : op[t] = Idle
  BY <1>1 DEF Init, nullptr, EmptyBag, SetToBag
<1>3. SlotsTyped
  BY <1>2 DEF Init, SlotsTyped, EmptyBag, SetToBag
<1>4. FreeSlots = {} /\ \A t \in Threads : Pushing(t) = {}
  BY <1>1, <1>2 DEF FreeSlots, Pushing
<1>5. Known = {}
  BY <1>2, <1>4 DEF Known
<1>6. FreeListSound
  BY <1>2, <1>4 DEF FreeListSound, Chain, nullptr
<1>7. OpsExact
  BY <1>1, <1>2 DEF OpsExact, OpExact
<1>8. SlotsInBlocks /\ BlocksApart /\ CarvingExact
  BY <1>2, <1>5 DEF SlotsInBlocks, BlocksApart, CarvingExact
<1> QED BY <1>3, <1>6, <1>7, <1>8 DEF SlotsInv

-----------------------------------------------------------------------------
(* The theorems.                                                           *)

(* Every step keeps the invariant.                                         *)
LEMMA SlotsNextInv == SlotsInv /\ [Next]_vars => SlotsInv'
<1> SUFFICES ASSUME SlotsInv, [Next]_vars PROVE SlotsInv'
  OBVIOUS
<1>1. ASSUME alive, NEW t \in Threads, Step(t) PROVE SlotsInv'
  BY <1>1, PopLoadInv, PopReadInv, PopTakeInv, PopRetryInv, CarveInv, CarveNewBlockInv,
     CarveFailsInv, PushLoadInv, PushStoreInv, PushPublishInv, PushRetryInv DEF Step
<1>2. CASE UNCHANGED vars
  <2>1. SlotsInv => (UNCHANGED vars => SlotsInv')
    BY SMTT(30) DEF vars, SlotsInv, SlotsTyped, FreeListSound, SlotsInBlocks, OpsExact, OpExact, BlocksApart,
           CarvingExact, Chain, FreeSlots, Closed, Pushing, Known
  <2> QED BY <1>2, <2>1
<1> QED BY <1>1, <1>2, DestroyInv DEF Next

(* The invariant holds for any number of threads and any memory.           *)
THEOREM SlotsInvHolds == Spec => []SlotsInv
<1> QED BY SlotsInitInv, SlotsNextInv, PTL DEF Spec

(* The lock-free list stays a chain of slots that are free, whatever the   *)
(* threads do between the load of the head and the exchange, and no slot   *)
(* in it is held or being pushed.                                          *)
THEOREM FreeListCorrect == Spec => []FreeListSound
<1>1. SlotsInv => FreeListSound
  BY DEF SlotsInv
<1> QED BY <1>1, SlotsInvHolds, PTL

(* Every slot is aligned and inside a block, behind its link.              *)
THEOREM SlotsInBlocksCorrect == Spec => []SlotsInBlocks
<1>1. SlotsInv => SlotsInBlocks
  BY DEF SlotsInv
<1> QED BY <1>1, SlotsInvHolds, PTL

(* No slot is lost by a race of pushes and pops.                           *)
THEOREM SlotsKeptCorrect == Spec => SlotsKept
<1>1. ASSUME SlotsInv, [Next]_vars, alive' PROVE Known \subseteq Known'
  <2>1. ASSUME alive, NEW t \in Threads, Step(t) PROVE Known \subseteq Known'
    BY <1>1, <2>1, PopLoadInv, PopReadInv, PopTakeInv, PopRetryInv, CarveInv, CarveNewBlockInv,
       CarveFailsInv, PushLoadInv, PushStoreInv, PushPublishInv, PushRetryInv DEF Step
  <2>2. CASE UNCHANGED vars
    BY <2>2 DEF vars, Known, FreeSlots, Closed, Pushing
  <2> QED BY <1>1, <2>1, <2>2 DEF Next, Destroy
<1>2. SlotsInv /\ [Next]_vars => [alive' => Known \subseteq Known']_vars
  BY <1>1
<1> QED BY <1>2, SlotsInvHolds, PTL DEF Spec, SlotsKept

(* Where the known slots are, and that they do not overlap.                *)
SlotPlaces ==
  SlotsInv /\ alive =>
    /\ \A p \in Known : p \in 1 .. NumWords /\ p + SlotSize <= NumWords + 1
    /\ \A p, q \in Known : p # q => WordsOf(p, SlotSize) \cap WordsOf(q, SlotSize) = {}

(* The places follow from the invariant.                                   *)
LEMMA SlotPlacesHold == SlotPlaces
<1> SUFFICES ASSUME SlotsInv, alive PROVE SlotPlaces
  BY DEF SlotPlaces
<1>1. SlotSize \in Nat \ {0} /\ BlockSize \in Nat /\ NumWords \in Nat
  BY MemoryPoolV1Assumption
<1>2. ASSUME NEW p \in Known PROVE p \in 1 .. NumWords /\ p + SlotSize <= NumWords + 1
  <2>1. PICK b \in blocks : b \in Nat /\ b >= 1 /\ b + 1 <= p /\ p + SlotSize <= b + BlockSize
    BY KnownFacts
  <2>2. b + BlockSize - 1 <= NumWords /\ p \in Nat
    BY KnownFacts DEF SlotsInv, BlocksApart
  <2> QED BY <1>1, <2>1, <2>2
<1>3. ASSUME NEW p \in Known, NEW q \in Known, p < q
      PROVE  WordsOf(p, SlotSize) \cap WordsOf(q, SlotSize) = {}
  <2>1. p \in Nat /\ q \in Nat /\ p % SlotSize = 0 /\ q % SlotSize = 0
    BY KnownFacts
  <2>2. p + SlotSize <= q
    BY <1>1, <1>3, <2>1, SlotsSpaced
  <2> QED BY <1>1, <2>1, <2>2 DEF WordsOf
<1>4. ASSUME NEW p \in Known, NEW q \in Known, p # q
      PROVE  WordsOf(p, SlotSize) \cap WordsOf(q, SlotSize) = {}
  <2>1. p \in Nat /\ q \in Nat
    BY KnownFacts
  <2>2. p < q \/ q < p
    BY <1>4, <2>1
  <2> QED BY <1>3, <2>2
<1> QED BY <1>2, <1>4 DEF SlotPlaces

(* The same after a step.                                                  *)
LEMMA SlotPlacesNext == SlotPlaces'
BY SlotPlacesHold, PTL

(* A slot that becomes the program's is a run that was free.               *)
LEMMA GetsSlot ==
  ASSUME SlotsInv, SlotsInv', alive, alive', NEW c \in Known', c \notin DOMAIN owned,
         owned' = BagAdd(owned, c), Known \subseteq Known'
  PROVE  Promise!Next
<1> DEFINE live == [p \in DOMAIN owned |-> SlotSize * owned[p]]
<1>1. SlotSize \in Nat \ {0} /\ NumWords \in Nat
  BY MemoryPoolV1Assumption
<1>2. c \in 1 .. NumWords /\ c + SlotSize <= NumWords + 1
  BY SlotPlacesNext DEF SlotPlaces
<1>3. \A p \in DOMAIN owned : live[p] = SlotSize
  BY <1>1 DEF SlotsInv, SlotsTyped
<1>4. live' = [p \in DOMAIN live \cup {c} |-> IF p = c THEN SlotSize ELSE live[p]]
  <2>1. DOMAIN owned' = DOMAIN owned \cup {c} /\ owned' \in [DOMAIN owned \cup {c} -> {1}]
    BY OwnedNext
  <2> QED BY <1>1, <1>3, <2>1
<1>5. \A p \in DOMAIN owned : WordsOf(p, SlotSize) \cap WordsOf(c, SlotSize) = {}
  BY SlotPlacesNext DEF SlotPlaces, Known
<1>6. Promise!Overlapping(c, SlotSize) = {}
  BY <1>3, <1>5 DEF Promise!Overlapping, Promise!Run, WordsOf
<1>7. /\ SlotSize \in SlotSize .. (SlotSize + 0) /\ SlotSize \in Promise!Lengths
      /\ c \in Promise!Units /\ Promise!Run(c, SlotSize) \subseteq Promise!Units
  BY <1>1, <1>2 DEF Promise!Lengths, Promise!Units, Promise!Run
<1>8. Promise!Alloc(SlotSize, c)
  BY <1>4, <1>6, <1>7 DEF Promise!Alloc
<1> QED BY <1>7, <1>8 DEF Promise!Next

(* A slot given back was in use.                                           *)
LEMMA GivesSlot ==
  ASSUME SlotsInv, alive, alive', NEW p \in DOMAIN owned, owned' = BagRemove(owned, p)
  PROVE  Promise!Next
<1> DEFINE live == [q \in DOMAIN owned |-> SlotSize * owned[q]]
<1>1. SlotSize \in Nat \ {0} /\ NumWords \in Nat
  BY MemoryPoolV1Assumption
<1>2. p \in Known
  BY DEF Known
<1>3. p \in Promise!Units
  BY <1>1, <1>2, SlotPlacesHold DEF SlotPlaces, Promise!Units
<1>4. live' = [q \in DOMAIN live \ {p} |-> live[q]]
  <2>1. DOMAIN owned' = DOMAIN owned \ {p} /\ owned' \in [DOMAIN owned \ {p} -> {1}]
    BY OwnedNext
  <2>2. owned \in [DOMAIN owned -> {1}]
    BY DEF SlotsInv, SlotsTyped
  <2> QED BY <2>1, <2>2
<1>5. Promise!Free(p)
  BY <1>4 DEF Promise!Free
<1> QED BY <1>3, <1>5 DEF Promise!Next

(* The pool hands out slots as the allocator of the specification hands    *)
(* out runs: aligned in their blocks, none while it is in use.             *)
THEOREM RefinesRangeAllocator == Spec => ImplementsRangeAllocator
<1>1. Init => Promise!Init
  BY DEF Init, Promise!Init, EmptyBag, SetToBag
<1>2. ASSUME SlotsInv, SlotsInv', [Next]_vars PROVE [Promise!Next]_(Promise!allocatorVars)
  <2>1. ASSUME alive, NEW t \in Threads, Step(t) PROVE [Promise!Next]_(Promise!allocatorVars)
    <3>1. CASE PopTake(t)
      BY <1>2, <2>1, <3>1, PopTakeInv, GetsSlot DEF PopTake
    <3>2. CASE Carve(t)
      <4>1. /\ Known' = Known \cup {curSlot} /\ curSlot \notin Known /\ alive'
            /\ owned' = BagAdd(owned, curSlot)
        BY <1>2, <2>1, <3>2, CarveInv DEF Carve, CarveFrom
      <4> QED BY <1>2, <2>1, <4>1, GetsSlot DEF Known
    <3>3. CASE CarveNewBlock(t)
      <4>1. PICK c \in Nat : Known' = Known \cup {c} /\ c \notin Known /\ owned' = BagAdd(owned, c)
        BY <1>2, <2>1, <3>3, CarveNewBlockInv
      <4>2. alive' /\ c \in Known' /\ c \notin DOMAIN owned
        BY <2>1, <3>3, <4>1 DEF CarveNewBlock, CarveFrom, Known
      <4> QED BY <1>2, <2>1, <4>1, <4>2, GetsSlot
    <3>4. ASSUME NEW p \in DOMAIN owned, PushLoad(t, p) PROVE Promise!Next
      BY <1>2, <2>1, <3>4, GivesSlot DEF PushLoad
    <3>5. CASE PopLoad(t) \/ PopRead(t) \/ PopRetry(t) \/ CarveFails(t)
               \/ PushStore(t) \/ PushPublish(t) \/ PushRetry(t)
      <4>1. UNCHANGED <<owned, alive>>
        BY <3>5 DEF PopLoad, PopRead, PopRetry, CarveFails, PushStore, PushPublish, PushRetry
      <4> QED BY <4>1 DEF Promise!allocatorVars
    <3> QED BY <2>1, <3>1, <3>2, <3>3, <3>4, <3>5 DEF Step
  <2>2. CASE UNCHANGED vars
    BY <2>2 DEF vars, Promise!allocatorVars
  <2>3. CASE Destroy
    <3>1. owned' = EmptyBag /\ alive /\ ~ alive' /\ DOMAIN owned' = {} /\ alive' = FALSE
      BY <2>3 DEF Destroy, EmptyBag, SetToBag
    <3> QED BY <3>1 DEF Promise!Next, Promise!Destroy
  <2> QED BY <1>2, <2>1, <2>2, <2>3 DEF Next
<1> QED BY <1>1, <1>2, SlotsInvHolds, PTL DEF Spec, ImplementsRangeAllocator, Promise!Spec

-----------------------------------------------------------------------------
(* What RangeAllocator promises is kept by every implementation of it.     *)
LEMMA StaysDisjoint ==
  Promise!Disjoint /\ [Promise!Next]_(Promise!allocatorVars) => Promise!Disjoint'
<1> SUFFICES ASSUME Promise!Disjoint, [Promise!Next]_(Promise!allocatorVars) PROVE Promise!Disjoint'
  OBVIOUS
<1>1. ASSUME NEW n \in Promise!Lengths, NEW s \in Promise!Units, Promise!Alloc(n, s)
      PROVE  Promise!Disjoint'
  <2> DEFINE f == [p \in DOMAIN owned |-> SlotSize * owned[p]]
             g == [p \in DOMAIN owned' |-> SlotSize * owned'[p]]
  <2>1. PICK m : /\ \A q \in DOMAIN f : Promise!Run(q, f[q]) \cap Promise!Run(s, m) = {}
                 /\ g = [q \in DOMAIN f \cup {s} |-> IF q = s THEN m ELSE f[q]]
    BY <1>1 DEF Promise!Alloc, Promise!Overlapping
  <2>2. \A p, q \in DOMAIN f : p # q => Promise!Run(p, f[p]) \cap Promise!Run(q, f[q]) = {}
    BY DEF Promise!Disjoint
  <2>3. \A p, q \in DOMAIN g : p # q => Promise!Run(p, g[p]) \cap Promise!Run(q, g[q]) = {}
    <3> HIDE DEF f, g
    <3> QED BY <2>1, <2>2
  <2> QED BY <2>3 DEF Promise!Disjoint
<1>2. ASSUME NEW s \in Promise!Units, Promise!Free(s) PROVE Promise!Disjoint'
  BY <1>2 DEF Promise!Free, Promise!Disjoint
<1>3. CASE Promise!Destroy
  BY <1>3 DEF Promise!Destroy, Promise!Disjoint
<1>4. CASE UNCHANGED Promise!allocatorVars
  BY <1>4 DEF Promise!allocatorVars, Promise!Disjoint
<1> QED BY <1>1, <1>2, <1>3, <1>4 DEF Promise!Next

(* Two slots in use never share a byte.                                    *)
THEOREM SlotsApart == Spec => []Promise!Disjoint
<1>1. Promise!Init => Promise!Disjoint
  BY DEF Promise!Init, Promise!Disjoint
<1> QED BY <1>1, StaysDisjoint, RefinesRangeAllocator, PTL DEF ImplementsRangeAllocator, Promise!Spec
=============================================================================
