CONSTANTS
  Star = Star
  Vm = {v1, v2}
  Cycle = 30
  MaxWork = 15
  Tick = 5
  Horizon = 90
  Settings <- MCSettings
  NoCron = NoCron
  NoVm = NoVm
SPECIFICATION Spec
INVARIANTS
  TypeOK
  NamesWhatMatches
  BegunOnSchedule
  NoneMissed
  OneBeginPerRound
  ShutdownMet
  ThrowsOnlyForRareDays
CHECK_DEADLOCK FALSE
