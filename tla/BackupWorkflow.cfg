CONSTANTS
  Vm = {1, 2}
  Backup = {1, 2}
  Schedule <- MCSchedule
  Iterations = 1
  Overlap = 1
  MaxRepeats = 1
  NoVm = NoVm
  MaxFaults = 2
  MaxRestores = 1
SPECIFICATION Spec
INVARIANTS
  TypeOK
  RestoreOnStopped
PROPERTIES
  LifecycleKept
  FailureStops
  BegunIsFinished
