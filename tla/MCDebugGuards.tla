--------------------------- MODULE MCDebugGuards ---------------------------
(***************************************************************************)
(* Two threads and two spans of four units, so that a span is reused for   *)
(* another class and as a large one while blocks of the other are out.     *)
(* Class c1 cuts a span into two blocks, c2 into one of three units with a *)
(* tail that belongs to no block.  Addresses range over every unit: the    *)
(* first of a block, its inside and the tail.  A list holds one block      *)
(* before it is halved.  With WrongKind TRUE a sized free may also take a  *)
(* large block for a small one, and the reverse.                           *)
(***************************************************************************)
EXTENDS DebugGuards, TLC

CONSTANTS t1, t2, s1, s2, c1, c2

MCThreads == {t1, t2}
MCSpans   == {s1, s2}
MCClasses == {c1, c2}
MCUnit    == [c \in MCClasses |-> IF c = c1 THEN 2 ELSE 3]

MCSymmetry == Permutations(MCThreads) \cup Permutations(MCSpans)
=============================================================================
