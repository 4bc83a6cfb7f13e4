CONSTANTS
  Capacity = 1
  Word = 4
  Periods = {2}
  Elapses = {1, 3}
  Repeats = {}
  IdLimit = 3
  MaxDepth = 1
  CallbackMay = {"self"}
SPECIFICATION Spec
INVARIANT RestartedRuns
