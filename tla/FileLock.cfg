\* Two callers, two faults, within the environment assumptions.
CONSTANTS
  p1 = p1
  p2 = p2
  p3 = p3
  NoFile = NoFile
  Procs <- MCTwoProcs
  StaleMs = 3
  TimeoutMs = 2
  HoldMs = 2
  MaxTime = 6
  MaxFaults = 2
  PromptWrites = TRUE
  SoleRecovery = TRUE
SPECIFICATION FairSpec
INVARIANTS
  HolderKeepsFile
PROPERTIES
  MutexSpec
  EveryCallEnds
  LeftoverCleared
CHECK_DEADLOCK FALSE
