---------------------- MODULE ConcurrentQueue_proofs ----------------------
(***************************************************************************)
(* What holds of ConcurrentQueue for any number of producers and consumers *)
(* and any length of the deque.                                            *)
(***************************************************************************)
EXTENDS ConcurrentQueue, TLAPS

\* The inductive invariant.
QueueInv == TypeOK /\ NoLostWakeup

LEMMA InitHolds == Init => QueueInv
  <1> SUFFICES ASSUME Init
               PROVE  QueueInv
    OBVIOUS
  <1>1. TypeOK
    <2>1. <<>> \in Seq(Producers)
      OBVIOUS
    <2>2. \A t \in Producers \cup Consumers : pc[t] = "run"
      BY DEF Init
    <2>3. pc \in [Producers \cup Consumers -> ProducerPCs \cup ConsumerPCs]
      BY DEF Init, ProducerPCs, ConsumerPCs
    <2> QED
      BY <2>1, <2>2, <2>3 DEF Init, TypeOK, ProducerPCs, ConsumerPCs
  <1>2. NoLostWakeup
    BY DEF Init, NoLostWakeup
  <1> QED
    BY <1>1, <1>2 DEF QueueInv

\* After notify_all nobody sleeps, and nobody else has moved.
LEMMA AfterWakeAll ==
  ASSUME TypeOK
  PROVE  /\ WakeAll(pc) \in [Producers \cup Consumers -> ProducerPCs \cup ConsumerPCs]
         /\ \A p \in Producers : WakeAll(pc)[p] = pc[p]
         /\ \A c \in Consumers : WakeAll(pc)[c] \in ConsumerPCs \ {"wait", "timed"}
  BY QueueAssumption DEF TypeOK, WakeAll, ProducerPCs, ConsumerPCs

LEMMA TakeKeeps ==
  ASSUME QueueInv, NEW c \in Consumers, Take(c)
  PROVE  QueueInv'
  <1>1. TypeOK'
    BY QueueAssumption DEF Take, QueueInv, TypeOK, ProducerPCs, ConsumerPCs
  <1>2. NoLostWakeup'
    BY QueueAssumption DEF Take, QueueInv, TypeOK, NoLostWakeup, Asleep, ConsumerPCs
  <1> QED
    BY <1>1, <1>2 DEF QueueInv

LEMMA TurnKeeps ==
  ASSUME QueueInv, NEW c \in Consumers, NEW asleep \in {"wait", "timed"}, Turn(c, asleep)
  PROVE  QueueInv'
  <1>1. CASE Take(c)
    BY <1>1, TakeKeeps
  <1>2. CASE /\ q = <<>>
             /\ pc' = [pc EXCEPT ![c] = IF over THEN "run" ELSE asleep]
             /\ UNCHANGED <<q, over>>
    <2>1. TypeOK'
      BY <1>2, QueueAssumption DEF QueueInv, TypeOK, ProducerPCs, ConsumerPCs
    <2>2. NoLostWakeup'
      BY <1>2 DEF QueueInv, TypeOK, NoLostWakeup, Asleep
    <2> QED
      BY <2>1, <2>2 DEF QueueInv
  <1> QED
    BY <1>1, <1>2 DEF Turn

LEMMA NextKeeps == QueueInv /\ [Next]_vars => QueueInv'
  <1> SUFFICES ASSUME QueueInv, [Next]_vars
               PROVE  QueueInv'
    OBVIOUS
  <1> USE QueueAssumption
  <1>1. ASSUME NEW p \in Producers, Push(p)
        PROVE  QueueInv'
    <2>1. TypeOK'
      BY <1>1 DEF Push, QueueInv, TypeOK, ProducerPCs, ConsumerPCs
    <2>2. NoLostWakeup'
      BY <1>1 DEF Push, QueueInv, TypeOK, NoLostWakeup, Asleep, ProducerPCs, ConsumerPCs
    <2> QED
      BY <2>1, <2>2 DEF QueueInv
  <1>2. ASSUME NEW p \in Producers, Notify(p)
        PROVE  QueueInv'
    <2>1. TypeOK'
      BY <1>2, AfterWakeAll DEF Notify, QueueInv, TypeOK, ProducerPCs, ConsumerPCs
    <2>2. \A c \in Consumers : ~Asleep(c)'
      BY <1>2, AfterWakeAll DEF Notify, QueueInv, TypeOK, Asleep, ConsumerPCs
    <2> QED
      BY <2>1, <2>2 DEF QueueInv, NoLostWakeup
  <1>3. ASSUME NEW p \in Producers, Abort(p)
        PROVE  QueueInv'
    <2>1. TypeOK'
      BY <1>3, AfterWakeAll DEF Abort, QueueInv, TypeOK
    <2>2. \A c \in Consumers : ~Asleep(c)'
      BY <1>3, AfterWakeAll DEF Abort, QueueInv, Asleep
    <2> QED
      BY <2>1, <2>2 DEF QueueInv, NoLostWakeup
  <1>4. ASSUME NEW c \in Consumers, Pop(c) \/ PopFor(c)
        PROVE  QueueInv'
    BY <1>4, TurnKeeps DEF Pop, PopFor
  <1>5. ASSUME NEW c \in Consumers, Timeout(c)
        PROVE  QueueInv'
    <2>1. CASE q = <<>> /\ pc' = [pc EXCEPT ![c] = "run"] /\ UNCHANGED <<q, over>>
      BY <2>1 DEF QueueInv, TypeOK, NoLostWakeup, Asleep, ProducerPCs, ConsumerPCs
    <2> QED
      BY <1>5, <2>1, TakeKeeps DEF Timeout
  <1>6. ASSUME NEW c \in Consumers, TryPop(c)
        PROVE  QueueInv'
    BY <1>6, TakeKeeps DEF TryPop
  <1>7. ASSUME NEW c \in Consumers, Spurious(c)
        PROVE  QueueInv'
    <2>1. TypeOK'
      BY <1>7 DEF Spurious, Asleep, QueueInv, TypeOK, ProducerPCs, ConsumerPCs
    <2>2. NoLostWakeup'
      BY <1>7 DEF Spurious, QueueInv, TypeOK, NoLostWakeup, Asleep, ConsumerPCs
    <2> QED
      BY <2>1, <2>2 DEF QueueInv
  <1>8. ASSUME NEW c \in Consumers, Clear(c)
        PROVE  QueueInv'
    BY <1>8 DEF Clear, QueueInv, TypeOK, NoLostWakeup, Asleep
  <1>9. CASE UNCHANGED vars
    BY <1>9 DEF vars, QueueInv, TypeOK, NoLostWakeup, Asleep
  <1> QED
    BY <1>1, <1>2, <1>3, <1>4, <1>5, <1>6, <1>7, <1>8, <1>9 DEF Next

\* No wakeup is lost, whatever the threads and however their calls interleave.
THEOREM WakeupsReachSleepers == Spec => []NoLostWakeup
  <1>1. QueueInv => NoLostWakeup
    BY DEF QueueInv
  <1> QED
    BY <1>1, InitHolds, NextKeeps, PTL DEF Spec

\* The state of the queue and of its threads keeps its shape.
THEOREM TypeCorrect == Spec => []TypeOK
  <1>1. QueueInv => TypeOK
    BY DEF QueueInv
  <1> QED
    BY <1>1, InitHolds, NextKeeps, PTL DEF Spec

\* Every value is handed out once and in order: the queue implements Fifo.
THEOREM ImplementsFifo == Spec => FifoSpec
  <1>1. Init => Queue!Init
    BY DEF Init, Queue!Init
  <1>2. [Next]_vars => [Queue!Next]_<<q, over>>
    BY DEF Next, vars, Push, Notify, Abort, Pop, PopFor, Turn, Timeout, TryPop, Take, Spurious,
           Clear, Queue!Next, Queue!Accept, Queue!HandOut, Queue!Clear, Queue!Close
  <1> QED
    BY <1>1, <1>2, PTL DEF Spec, FifoSpec, Queue!Spec
===========================================================================
