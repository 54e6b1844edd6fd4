CONSTANTS
  Node = {1, 2, 3}
  Vm = {1, 2, 3, 4, 5, 6}
  NoNode = NoNode
  PreStarts = {0, 1, 2}
  Minima = {0, 5}
  Tolerance = 1
  MaxPool = 4
  MaxMaintenance = 1
SPECIFICATION MCSpec
INVARIANTS
  TypeOK
  EachInOneWrapper
  OnePassIsEnough
  DemandMetExactly
  BalancedWhenDone
PROPERTIES
  NeverSourceAfterDest
  MigratedAtMostOnce
  MaintenanceUntouched
  Terminates
