\* The eight components.
CONSTANTS
  w1 = w1
  w2 = w2
  p1 = p1
  None = None
  Absent = Absent
  Calls = {c1, c2, w1, w2}
  Resources = {"r"}
  Items = {"i"}
  Quantities = {0, 1}
  Capacities = {0, 1, 2}
  MaxFaults = 1
  Handlers = {w1, w2}
  Steps = {"s"}
  Timeouts = {"t"}
  MaxSaves = 5
  Registrations = {w1, w2, c1}
  Versions = {1, 2}
  Contents = {"x", "y"}
  Upgrades <- AcceptedUpgrades
  Runners = {w1, w2}
  Formats = {1, 2, 3}
  Migrations = {1, 2, 3}
  From <- StepsFrom
  To <- StepsTo
  Writers = {w1, w2}
  Events = {1, 2, 3}
  Streams = {"s1", "s2"}
  StreamOf <- StreamOfEvent
  Expectations <- AllExpectations
  MaxCrashes = 1
  Appenders = {p1}
  AppenderExpectations <- AnyExpectation
  AppenderCrashes = 1
  Rebuilds = {w1, w2}
  BatchSize = 2
  Ops = {w1, w2}
  Keys = {"k1", "k2"}
  Ttl = 1
  NegativeTtl = 1
  MaxEntries = 1
  MaxTime = 2
  MaxBegun = 3
SPECIFICATION Spec
INVARIANTS
  ReservationsKept
  
  RebuiltFaithful
  LimitsKept
  CacheCoherent
  HandledOnce
PROPERTIES
  
  ClientsAndStoreAgree
SYMMETRY Symmetry
CHECK_DEADLOCK FALSE
