-------------------------- MODULE MCGridStrategy --------------------------
(***************************************************************************)
(* An instance of GridStrategy for TLC.  Of GridCounts, 0 is refused, 1    *)
(* gives one level and 2 gives three.  With InitSpan = 0 three levels have *)
(* one on each side of the centre that is armed later.                     *)
(***************************************************************************)
EXTENDS GridStrategy

\* What moves a chain on or kills it.
DecisiveReports == {"Canceled", "Filled"}
===========================================================================
