-------------------------- MODULE ConcurrentQueue --------------------------
(***************************************************************************)
(* ConcurrentQueueT (src/src/concurrent_queue.h): a deque under a mutex    *)
(* with one condition variable.  Every region under the mutex is one       *)
(* action; push wakes the waiters after it has released the mutex, and     *)
(* only when it found the deque empty, which is where a wakeup could be    *)
(* lost.  The condition variable wakes spuriously.                         *)
(***************************************************************************)
EXTENDS Sequences, Naturals

CONSTANTS
  Producers,   \* threads that push; the values they push are their names
  Consumers,   \* threads that pop
  MaxLen       \* bound: length of the deque

ASSUME QueueAssumption == Producers \cap Consumers = {} /\ MaxLen \in Nat

VARIABLES
  q,      \* q_
  over,   \* over_
  pc      \* where each thread is: see PCs

vars == <<q, over, pc>>

\* "run" is outside the queue, "notify" between the mutex and notify_all,
\* "wait" and "timed" asleep in wait and wait_for, "awake" and "awaketimed"
\* woken and about to look at the deque again.
ProducerPCs == {"run", "notify"}
ConsumerPCs == {"run", "wait", "timed", "awake", "awaketimed"}

Init ==
  /\ q = <<>>
  /\ over = FALSE
  /\ pc = [t \in Producers \cup Consumers |-> "run"]

Asleep(t) == pc[t] \in {"wait", "timed"}

\* notify_all.
WakeAll(at) ==
  [t \in DOMAIN at |-> CASE at[t] = "wait"  -> "awake"
                         [] at[t] = "timed" -> "awaketimed"
                         [] OTHER           -> at[t]]

\* Mutant: the deque is looked at after the push.
PushLate(p) ==
  /\ pc[p] = "run" /\ ~over /\ Len(q) < MaxLen
  /\ q' = Append(q, p)
  /\ pc' = [pc EXCEPT ![p] = IF q' = <<>> THEN "notify" ELSE "run"]
  /\ UNCHANGED over

\* push on a closed queue drops the value and is left out: it changes nothing.
Push(p) ==
  /\ pc[p] = "run" /\ ~over /\ Len(q) < MaxLen
  /\ q' = Append(q, p)
  /\ pc' = [pc EXCEPT ![p] = IF q = <<>> THEN "notify" ELSE "run"]
  /\ UNCHANGED over

Notify(p) ==
  /\ pc[p] = "notify"
  /\ pc' = [WakeAll(pc) EXCEPT ![p] = "run"]
  /\ UNCHANGED <<q, over>>

\* Mutant: the back is moved out.
TakeBack(c) ==
  /\ q # <<>>
  /\ q' = SubSeq(q, 1, Len(q) - 1)
  /\ pc' = [pc EXCEPT ![c] = "run"]
  /\ UNCHANGED over

\* Mutant: the front is moved from and left where it is.
TakeLeavesFront(c) ==
  /\ q # <<>>
  /\ q' = [q EXCEPT ![1] = "moved"]
  /\ pc' = [pc EXCEPT ![c] = "run"]
  /\ UNCHANGED over

\* The front is moved out.
Take(c) ==
  /\ q # <<>>
  /\ q' = Tail(q)
  /\ pc' = [pc EXCEPT ![c] = "run"]
  /\ UNCHANGED over

\* Mutant: a woken consumer sleeps again on a closed queue.
TurnDeaf(c, asleep) ==
  \/ Take(c)
  \/ /\ q = <<>>
     /\ pc' = [pc EXCEPT ![c] = asleep]
     /\ UNCHANGED <<q, over>>

\* One turn of the loop in pop: give up, sleep (in a timed or an untimed
\* wait), or leave with the front.
Turn(c, asleep) ==
  \/ Take(c)
  \/ /\ q = <<>>
     /\ pc' = [pc EXCEPT ![c] = IF over THEN "run" ELSE asleep]
     /\ UNCHANGED <<q, over>>

Pop(c) == pc[c] \in {"run", "awake"} /\ Turn(c, "wait")

PopFor(c) == pc[c] \in {"run", "awaketimed"} /\ Turn(c, "timed")

\* wait_for has run out of time: an empty deque ends the call.
Timeout(c) ==
  /\ pc[c] = "timed"
  /\ \/ Take(c)
     \/ q = <<>> /\ pc' = [pc EXCEPT ![c] = "run"] /\ UNCHANGED <<q, over>>

TryPop(c) == pc[c] = "run" /\ Take(c)

Spurious(c) ==
  /\ Asleep(c)
  /\ pc' = [pc EXCEPT ![c] = IF @ = "wait" THEN "awake" ELSE "awaketimed"]
  /\ UNCHANGED <<q, over>>

\* clear is called by a consumer.
Clear(c) == pc[c] = "run" /\ q' = <<>> /\ UNCHANGED <<over, pc>>

\* abort sets the flag and wakes everyone under the mutex.
Abort(t) == pc[t] = "run" /\ over' = TRUE /\ pc' = WakeAll(pc) /\ UNCHANGED q

Next ==
  \/ \E p \in Producers : Push(p) \/ Notify(p) \/ Abort(p)
  \/ \E c \in Consumers :
       Pop(c) \/ PopFor(c) \/ Timeout(c) \/ TryPop(c) \/ Spurious(c) \/ Clear(c)

\* The scheduler runs every thread that is inside a call; nobody has to call.
Fairness ==
  /\ \A p \in Producers : WF_vars(Notify(p))
  /\ \A c \in Consumers : WF_vars(pc[c] = "awake" /\ Pop(c)) /\ WF_vars(pc[c] = "awaketimed" /\ PopFor(c))

Spec == Init /\ [][Next]_vars /\ Fairness
---------------------------------------------------------------------------
\* The shape of the state.
TypeOK ==
  /\ q \in Seq(Producers)
  /\ over \in BOOLEAN
  /\ pc \in [Producers \cup Consumers -> ProducerPCs \cup ConsumerPCs]
  /\ \A p \in Producers : pc[p] \in ProducerPCs
  /\ \A c \in Consumers : pc[c] \in ConsumerPCs

\* No wakeup is lost although push skips notify_all on a deque that is not
\* empty (concurrent_queue.h:24): whoever sleeps while there is something to
\* take is about to be woken, and nobody sleeps on a closed queue.
NoLostWakeup ==
  /\ (q # <<>> /\ \E c \in Consumers : Asleep(c)) => \E p \in Producers : pc[p] = "notify"
  /\ over => \A c \in Consumers : ~Asleep(c)

\* A consumer in an untimed pop does not sleep on while values are there.
SleeperServed ==
  \A c \in Consumers : (pc[c] = "wait" /\ q # <<>>) ~> (pc[c] # "wait" \/ q = <<>>)

\* Once the queue is closed every pop that was under way returns.
CloseEndsPop == \A c \in Consumers : over ~> pc[c] = "run"

\* The queue is a first-in first-out queue: see Fifo.
Queue == INSTANCE Fifo WITH Values <- Producers, items <- q, closed <- over
FifoSpec == Queue!Spec
===========================================================================
