CONSTANTS
  Capacity = 4
  Data = {x, eol}
  MaxBatch = 2
  Modes = {"writer"}
  Terminators = {eol}
  LineBufSize = 3
  SentLimit = 4
SPECIFICATION UartSpec
PROPERTY LinesWhole
