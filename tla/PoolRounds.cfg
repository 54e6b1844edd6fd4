CONSTANTS
  Vm = {1, 2, 3, 4, 5}
  Demand = 2
  Interval = 5
  Cycle = 2
  MaxEvents = 3
SPECIFICATION Spec
INVARIANTS
  TypeOK
  PointersAlive
  OnlyRemovedDangle
PROPERTIES
  StartsSpaced
  MissingStarted
CHECK_DEADLOCK FALSE
