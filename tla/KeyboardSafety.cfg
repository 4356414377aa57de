SPECIFICATION Spec
CONSTANTS
  None = None
  Slots = 1
  MaxUsage = 101
  Sources = {s1}
  Usages = {4, 5}
  MacroUsages = {5}
  QueueMax = 2
  FastReset = TRUE
  Rebuild = {"same", "other"}
  Faults = TRUE
INVARIANTS TypeOK TailIsCurrent HostIsKnown NoStuckKey CacheCoherent
PROPERTY InOrder
