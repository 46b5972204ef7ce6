------------------------------- MODULE Fifo -------------------------------
(***************************************************************************)
(* What ConcurrentQueueT promises: every value that is accepted is handed  *)
(* to one consumer, once, in the order of acceptance, unless the queue is  *)
(* cleared; a closed queue accepts nothing more but gives out what it has. *)
(***************************************************************************)
EXTENDS Sequences

CONSTANT Values

VARIABLES
  items,   \* accepted and not handed out yet
  closed   \* aborted

Init == items = <<>> /\ closed = FALSE

Accept == ~closed /\ \E v \in Values : items' = Append(items, v) /\ closed' = closed

HandOut == items # <<>> /\ items' = Tail(items) /\ closed' = closed

Clear == items' = <<>> /\ closed' = closed

Close == closed' = TRUE /\ items' = items

Next == Accept \/ HandOut \/ Clear \/ Close

Spec == Init /\ [][Next]_<<items, closed>>
===========================================================================
