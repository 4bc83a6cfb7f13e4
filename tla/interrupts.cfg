CONSTANTS
  Capacity = 4
  Data = {x, eol}
  MaxBatch = 3
  Modes = {"tasks", "writer"}
  Terminators = {eol}
  LineBufSize = 3
  SentLimit = 5
  TimerCapacity = 2
  Word = 4
  Periods = {0, 3}
  Elapses = {2}
  Repeats = {2}
  IdLimit = 3
  MaxDepth = 1
  CallbackMay = {}
  StartMasked = TRUE
SPECIFICATION MCSpec
INVARIANTS
  TypeOK
  NoOverrun
PROPERTIES
  ImplementsFifo
  LinesAsReceived
  BytesReachParser
  CallsAtomic
