CONSTANTS
  Capacity = 2
  Data = {x, y}
  Modes = {"producer"}
SPECIFICATION Spec
INVARIANT CountsItems
