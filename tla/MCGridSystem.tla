--------------------------- MODULE MCGridSystem ---------------------------
(* Instances of GridSystem for TLC, on a grid of three levels.             *)
EXTENDS GridSystem

\* SetStatus is driven by the threads here.
AllReports == Statuses
===========================================================================
