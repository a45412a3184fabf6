\* Two flows; three operations on the files of one record, one of whose two values expires, and
\* one fault; and the samples of definitions and dates.
CONSTANTS
  w1 = w1
  w2 = w2
  None = None
  Flows = {w1, w2}
  MaxTraces = 2
  MaxSpans = 1
  MaxActiveTraces = 1
  StaleTraceTtlMs = 1
  Readings = {0, 2}
  Ops = {w1, w2, w3}
  Ids = {"i"}
  Values = {"x", "y"}
  Expired = {"y"}
  MaxFaults = 1
  Keys = {"k", "l"}
  Entered = {"x", "y"}
  Valid <- MCValid
  Allowed <- MCAllowed
  MaxCalls = 3
  windowMs = 2
  maxEvents = 2
  MaxTime = 4
  maxRetries = 2
  baseDelayMs = 1
  maxDelayMs = 3
  Delays <- MCDelays
  Configs <- MCConfigs
  SetNumbers <- MCNumbers
  Importers = {w1, w2}
  MaxCursor = 2
  MaxSaves = 3
  MaxRuns = 4
  PropertyNames = {"p"}
  Scalars = {"s", "t", "1"}
  TypeOf <- MCTypeOf
  StateNames = {"a", "b"}
  MachineEvents = {"e"}
  Contexts = {"c", "d"}
  Statuses = {"open", "done"}
  Assignees = {"u"}
  FieldValues = {"x"}
  Reservations = {"r", "s"}
  Quantities = {1}
  MaxEvents = 4
  MaxReruns = 2
  Names <- MCNames
  Sizes <- MCSizes
  States <- MCStates
  Actions <- MCActions
SPECIFICATION Spec
INVARIANTS
  TracesWhole
  
  ReadModelsAgree
  
  AlgorithmsSound
  PrimitivesKept
SYMMETRY Symmetry
CHECK_DEADLOCK FALSE
