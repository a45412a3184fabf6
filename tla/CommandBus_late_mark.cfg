\* A call slower than its lease, no pruning of the record, no fault.
CONSTANTS
  c1 = c1
  c2 = c2
  c3 = c3
  k1 = k1
  k2 = k2
  f1 = f1
  f2 = f2
  None = None
  Never = Never
  Calls <- MCCalls
  Keys <- MCOneKey
  Fingerprints <- MCFingerprints
  InProgressTtl = 1
  ReplayTtl = Never
  AtomicPrune = TRUE
  CallMs = 4
  MaxTime = 3
  MaxFaults = 0
SPECIFICATION Spec
INVARIANT
  ReplayFaithful
CHECK_DEADLOCK FALSE
