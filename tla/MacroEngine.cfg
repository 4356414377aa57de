SPECIFICATION FairSpec
CONSTANTS
  Macros <- MCMacros
  Macro <- MCMacro
  Ops <- MCOps
  Keys = {"ctrl", "alt", "x"}
  Modifiers = {"ctrl", "alt"}
  Buttons = {"left"}
  Lead = {1}
  Tap = {1, 2}
  Gap = {0, 1}
  MaxDepth = 2
  MaxStarts = 3
  Faults = TRUE
INVARIANTS TypeOK RunningIsLive HeldIsOwned NothingStuck
PROPERTIES LimitIsKept AllEnd
CHECK_DEADLOCK FALSE
