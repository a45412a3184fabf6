\* Two workers, two messages, taken one or two at a time, one fault, three publisher failures.
CONSTANTS
  None = None
  Workers = {w1, w2}
  NMessages = 2
  Limits = {1, 2}
  MaxAttempts = 2
  RetryMs = 1
  MaxTime = 2
  MaxRefusals = 3
  MaxFaults = 1
SPECIFICATION FairSpec
INVARIANTS
  ClaimsExclusive
  Delivery
  AttemptsBounded
  StrandedByFault
PROPERTIES
  TouchedWhenDue
  
CHECK_DEADLOCK FALSE
