\* Leases longer than calls take, over the in-memory store.
CONSTANTS
  c1 = c1
  c2 = c2
  c3 = c3
  k1 = k1
  k2 = k2
  f1 = f1
  f2 = f2
  None = None
  Never = Never
  Calls <- MCCalls
  Keys <- MCOneKey
  Fingerprints <- MCFingerprints
  InProgressTtl = 2
  ReplayTtl = 2
  AtomicPrune = TRUE
  CallMs = 1
  MaxTime = 5
  MaxFaults = 1
SPECIFICATION Spec
INVARIANTS
  NoOverlap
  ReplayFaithful
PROPERTIES
  VerdictKept
SYMMETRY Symmetry
CHECK_DEADLOCK FALSE
