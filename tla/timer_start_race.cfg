CONSTANTS
  Capacity = 2
  Word = 4
  Periods = {0, 3}
  Elapses = {1, 3}
  Repeats = {2}
  IdLimit = 3
  MaxDepth = 1
  CallbackMay = {}
  StartMasked = FALSE
SPECIFICATION IsrSpec
PROPERTY StartBeginsPeriod
