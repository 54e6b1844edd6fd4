CONSTANTS
  Vm = {1}
  Backup = {1, 2}
  Schedule <- MCSchedule
  Iterations = 1
  Overlap = 0
  MaxRepeats = 0
  NoVm = NoVm
  MaxFaults = 1
  MaxRestores = 0
SPECIFICATION Spec
PROPERTY
  SurplusDeleted
