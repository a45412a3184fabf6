\* No leases: the promise of idempotency keys, with crashes and failing store calls.
CONSTANTS
  c1 = c1
  c2 = c2
  c3 = c3
  k1 = k1
  k2 = k2
  f1 = f1
  f2 = f2
  None = None
  Never = Never
  Calls <- MCCalls
  Keys <- MCTwoKeys
  Fingerprints <- MCFingerprints
  InProgressTtl = Never
  ReplayTtl = Never
  AtomicPrune = FALSE
  CallMs = 3
  MaxTime = 1
  MaxFaults = 2
SPECIFICATION Spec
INVARIANTS
  AtMostOnce
PROPERTIES
  OnceOnlySpec
SYMMETRY Symmetry
CHECK_DEADLOCK FALSE
