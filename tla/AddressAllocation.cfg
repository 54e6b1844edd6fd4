CONSTANTS
  Vm = {v1, v2, v3}
  WebVm = {w1, w2}
  NoVm = NoVm
  MaxEvents = 3
  PortSettings <- MCPortSettings
  Range <- MCRange
  Router <- MCRouter
  Reserved <- MCReserved
SYMMETRY Names
SPECIFICATION Spec
INVARIANTS
  TypeOK
  PortsDistinct
  DomainPortsDistinct
  AddressesDistinct
  FailsOnlyWhenFull
CHECK_DEADLOCK FALSE
