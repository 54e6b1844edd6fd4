CONSTANTS
  Node = {n1, n2}
  Vm = {v1, v2, v3}
  GoldenNode = n1
  NoNode = NoNode
  NoVm = NoVm
  Demand = 1
  Tolerance = 1
  MaxDisturbances = 1
SPECIFICATION Spec
PROPERTY
  TriedInNextLoop
