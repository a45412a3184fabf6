\* A caller out of time may read a lock file that is not filled yet; no fault.
CONSTANTS
  p1 = p1
  p2 = p2
  p3 = p3
  NoFile = NoFile
  Procs <- MCProcs
  StaleMs = 3
  TimeoutMs = 2
  HoldMs = 2
  MaxTime = 5
  MaxFaults = 0
  PromptWrites = FALSE
  SoleRecovery = TRUE
SPECIFICATION Spec
INVARIANT
  MutualExclusion
CHECK_DEADLOCK FALSE
