CONSTANTS
  Capacity = 2
  Word = 4
  Periods = {2}
  Elapses = {1, 3}
  Repeats = {1}
  IdLimit = 0
  MaxDepth = 1
  CallbackMay = {"self", "other"}
SPECIFICATION FairSpec
INVARIANTS
  TypeOK
  DeadlineArmed
  LiveIdsDistinct
  ArmedRuns
  DueTimersFired
PROPERTIES
  
  PhaseKept
  FiresOnlyWhenDue
  RunningFires
  TickReturns
