----------------------------- MODULE Requests -----------------------------
(***************************************************************************)
(* What Channel::sendCmd promises its caller, for every command: it is     *)
(* carried out, then its callback runs, once.  Until then the exchange may *)
(* carry it out again, for all that the channel does; afterwards never.    *)
(***************************************************************************)
EXTENDS Naturals

CONSTANT Cmds

VARIABLES
  stage,   \* stage[c]: "new", "pending", "executed" or "answered"
  runs     \* runs[c]: how often c has been carried out

requests == <<stage, runs>>

Init == stage = [c \in Cmds |-> "new"] /\ runs = [c \in Cmds |-> 0]

Advance(c, from, to) == stage[c] = from /\ stage' = [stage EXCEPT ![c] = to]

HandOver(c) == Advance(c, "new", "pending") /\ UNCHANGED runs

CarryOut(c) ==
  /\ Advance(c, "pending", "executed") \/ (stage[c] = "executed" /\ UNCHANGED stage)
  /\ runs' = [runs EXCEPT ![c] = @ + 1]

CallBack(c) == Advance(c, "executed", "answered") /\ UNCHANGED runs

Next == \E c \in Cmds : HandOver(c) \/ CarryOut(c) \/ CallBack(c)

Spec == Init /\ [][Next]_requests
===========================================================================
