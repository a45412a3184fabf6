\* Three calls on two items, one fault and one overrun.
CONSTANTS
  c1 = c1
  c2 = c2
  c3 = c3
  open = open
  review = review
  closed = closed
  None = None
  Items = {i1, i2}
  Calls <- MCCalls
  States <- MCStates
  InitialState = open
  ClosedStates <- MCClosedStates
  Transitions <- MCTransitions
  MaxTime = 1
  MaxFaults = 1
  MaxOverruns = 1
SPECIFICATION Spec
INVARIANTS
  UpdatesKept
  AuditTruthful
  EventsInOrder
  GapsByFault
PROPERTIES
  ClosedFrozen
SYMMETRY Symmetry
CHECK_DEADLOCK FALSE
