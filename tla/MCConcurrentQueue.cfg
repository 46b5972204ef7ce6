CONSTANTS
  p1 = p1
  p2 = p2
  c1 = c1
  c2 = c2
  Producers = {p1, p2}
  Consumers = {c1, c2}
  MaxLen = 3
SPECIFICATION Spec
INVARIANT TypeOK
INVARIANT NoLostWakeup
PROPERTY FifoSpec
PROPERTY SleeperServed
PROPERTY CloseEndsPop
