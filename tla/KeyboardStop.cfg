SPECIFICATION Spec
CONSTANTS
  None = None
  Slots = 1
  MaxUsage = 101
  Sources = {s1}
  Usages = {4}
  MacroUsages = {}
  QueueMax = 2
  FastReset = FALSE
  Rebuild = {}
  Faults = FALSE
INVARIANT ReleasedAtStop
