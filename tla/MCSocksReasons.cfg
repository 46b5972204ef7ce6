SPECIFICATION Spec
CONSTANTS
  Versions = {4, 5}
  DomainLengths <- NameLengths
CHECK_DEADLOCK FALSE
INVARIANT RefusalIsNamed
