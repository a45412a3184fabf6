\* Three calls, or users, of each component; four callers share the pool.
CONSTANTS
  None = None
  Calls = {c1, c2, c3}
  Keys = {k}
  Hashes = {h1, h2}
  MaxFaults = 1
  MaxMarks = 1
  Callers = {c1, c2, c3, c4}
  Signals = {s1, s2}
  MaxConcurrent <- TwoAndOne
  Guarded = {c1, c2, c3}
  Threshold = 2
  Recovery = 2
  MaxTime = 5
  MaxFailures = 4
  Users = {c1, c2, c3}
  MaxInits = 4
SPECIFICATION Spec
INVARIANTS
  
  RoomAccounted
PROPERTIES
  
  NobodyLeftBehind
  TrippedHolds
  OneInstance
CHECK_DEADLOCK FALSE
