SPECIFICATION Spec
CONSTANTS
  None = None
  Slots = 1
  MaxUsage = 101
  Sources = {s1}
  Buttons = {0}
  MacroButtons = {0}
  ButtonCount = 1
  Relative = TRUE
  Axes = {x}
  Moves <- Backwards
  Positions = {0}
  Centre = 0
  Chunk = 1
  Limit = 2
  Saturate = 1
  QueueMax = 2
  Shared = TRUE
  FastReset = TRUE
  Rebuild = {"same"}
  Faults = TRUE
INVARIANTS TypeOK ButtonTailIsCurrent NoStuckButton PendingIsDirty AnswerIsStill
PROPERTIES MotionNotRepeated ButtonsInOrder
