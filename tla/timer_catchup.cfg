CONSTANTS
  Capacity = 2
  Word = 8
  Periods = {1, 2}
  Elapses = {1, 3}
  Repeats = {}
  IdLimit = 3
  MaxDepth = 1
  CallbackMay = {}
SPECIFICATION Spec
PROPERTY CatchesUp
