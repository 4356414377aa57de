SPECIFICATION Spec
CONSTANTS
  None = None
  Slots = 1
  MaxUsage = 101
  Sources = {s1}
  Buttons = {0}
  MacroButtons = {}
  ButtonCount = 1
  Relative = FALSE
  Axes = {wheel}
  Moves = {0, 1}
  Positions = {0, 1}
  Centre = 1
  Chunk = 1
  Limit = 1
  Saturate = 1
  QueueMax = 1
  Shared = FALSE
  FastReset = FALSE
  Rebuild = {"other"}
  Faults = TRUE
INVARIANTS NoStuckButton PositionIsTold
