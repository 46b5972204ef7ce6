---------------------------- MODULE GridChains ----------------------------
(***************************************************************************)
(* What the two-way grid promises, level by level.                         *)
(*                                                                         *)
(* A chain is a pair <<pos, l>>: the long (or short) line of business that *)
(* opens a unit of position at level l and closes it at the neighbouring   *)
(* level.  A chain is in none of the three sets while it is idle; it is in *)
(* "entry" while the order that opens its position is outstanding, in      *)
(* "exit" while the order that closes it is outstanding, and in "dead"     *)
(* once its order was refused or cancelled, which the grid never repairs.  *)
(* The specification says which moves a grid may make: one order per       *)
(* chain at a time, a closing order only where an opening order stood, and *)
(* a dead chain never comes back to life in the same grid.                 *)
(***************************************************************************)
VARIABLES entry, exit, dead

vars == <<entry, exit, dead>>

Init == entry = {} /\ exit = {} /\ dead = {}

Disjoint ==
  /\ entry \cap exit = {}
  /\ entry \cap dead = {}
  /\ exit \cap dead = {}

\* A new grid opens on an empty board, with opening orders only.
Open ==
  /\ entry = {} /\ exit = {} /\ dead = {}
  /\ exit' = {} /\ dead' = {}

\* Any number of chains move at once, each by one legal move:
\*   idle -> entry, entry -> exit, exit -> entry,
\*   entry -> dead, exit -> dead, exit -> idle (given up after a long wait).
Move ==
  /\ Disjoint'
  /\ exit' \subseteq exit \cup entry
  /\ entry \subseteq entry' \cup exit' \cup dead'
  /\ entry' \cap dead = {}
  /\ dead \subseteq dead'
  /\ dead' \subseteq dead \cup entry \cup exit

\* The grid is closed out, whatever is outstanding.
Close == entry' = {} /\ exit' = {} /\ dead' = {}

Next == Open \/ Move \/ Close

Spec == Init /\ [][Next]_vars
===========================================================================
