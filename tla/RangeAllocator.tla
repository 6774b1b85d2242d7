--------------------------- MODULE RangeAllocator ---------------------------
(***************************************************************************)
(* What every level of the v3 pool promises the level above it.  A space   *)
(* of units is handed out in runs: a run handed out overlaps no run still  *)
(* in use, has at least the length asked for, and stays as it is until it  *)
(* is given back.  The unit is a page for PageCache and a byte for the     *)
(* objects the program gets.                                               *)
(***************************************************************************)
EXTENDS Integers

CONSTANTS
  Extent,       \* units of the modelled space
  Slack         \* by how much a run may be longer than was asked for

Units   == 0 .. Extent - 1
Lengths == 1 .. Extent

Run(s, n) == s .. (s + n - 1)

VARIABLES
  live,         \* first unit of a run in use |-> its length
  running       \* FALSE once the allocator has been destroyed

allocatorVars == <<live, running>>

Overlapping(s, n) == {t \in DOMAIN live : Run(t, live[t]) \cap Run(s, n) # {}}

(* A run in use starts inside the space and is never empty: what was given *)
(* back is gone.                                                           *)
TypeOK ==
  /\ DOMAIN live \subseteq Units
  /\ live \in [DOMAIN live -> Lengths]
  /\ running \in BOOLEAN

Init ==
  /\ live = [s \in {} |-> 0]
  /\ running = TRUE

Alloc(n, s) ==
  /\ running
  /\ \E m \in n .. (n + Slack) :
       /\ Run(s, m) \subseteq Units
       /\ Overlapping(s, m) = {}
       /\ live' = [t \in DOMAIN live \cup {s} |-> IF t = s THEN m ELSE live[t]]
  /\ running' = TRUE

Free(s) ==
  /\ running
  /\ s \in DOMAIN live
  /\ live' = [t \in DOMAIN live \ {s} |-> live[t]]
  /\ running' = TRUE

(* Destruction ends the life of every run.                                 *)
Destroy ==
  /\ running
  /\ running' = FALSE
  /\ live' = [s \in {} |-> 0]

Next ==
  \/ \E n \in Lengths, s \in Units : Alloc(n, s)
  \/ \E s \in Units : Free(s)
  \/ Destroy

Spec == Init /\ [][Next]_allocatorVars

(* Two runs in use never share a unit.                                     *)
Disjoint ==
  \A s, t \in DOMAIN live :
     s # t => Run(s, live[s]) \cap Run(t, live[t]) = {}
=============================================================================
