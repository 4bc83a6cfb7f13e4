CONSTANTS
  Capacity = 4
  Data = {x, y}
  MaxBatch = 4
  Modes = {"writer"}
SPECIFICATION Spec
PROPERTY NoSilentLoss
