------------------------ MODULE MCConcurrentQueue ------------------------
(* Two producers and two consumers on a queue of at most three values.     *)
EXTENDS ConcurrentQueue

===========================================================================
