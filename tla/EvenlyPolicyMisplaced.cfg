CONSTANTS
  Node = {1, 2}
  Vm = {1, 2, 3}
  NoNode = NoNode
  PreStarts = {1}
  Minima = {0}
  Tolerance = 1
  MaxPool = 2
  MaxMaintenance = 0
SPECIFICATION MCSpec
PROPERTY
  MissingVmsCreated
