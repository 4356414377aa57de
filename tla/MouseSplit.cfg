SPECIFICATION Spec
CONSTANTS
  None = None
  Slots = 1
  MaxUsage = 101
  Sources = {s1}
  Buttons = {0}
  MacroButtons = {}
  ButtonCount = 1
  Relative = TRUE
  Axes = {x}
  Moves = {0, 2}
  Positions = {0}
  Centre = 0
  Chunk = 1
  Limit = 3
  Saturate = 1
  QueueMax = 1
  Shared = FALSE
  FastReset = FALSE
  Rebuild = {}
  Faults = FALSE
PROPERTIES MotionIsSplit
