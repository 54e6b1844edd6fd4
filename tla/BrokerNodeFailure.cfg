CONSTANTS
  Node = {n1, n2}
  Vm = {v1, v2, v3, v4}
  GoldenNode = n1
  NoNode = NoNode
  NoVm = NoVm
  Demand = 2
  Tolerance = 1
  MaxDisturbances = 2
SPECIFICATION Spec
INVARIANT
  UnknownCheckedAgain
