SPECIFICATION FairSpec
CONSTANTS
  None = None
  kbd = kbd
  pad = pad
  box = box
  Paths = {p1}
  Devices = {kbd, pad, box}
  Codes = {"a", "left", "f13"}
  Buttons = {"left"}
  CodesOf <- MCCodesOf
  Rule <- MCRule
  Pointers = {kbd}
  PipeMax = 2
  OpenFails = TRUE
INVARIANTS TypeOK CaughtUp BoundKeysStay ToldIsMerged LedsShown
PROPERTIES GoneIsForgotten PluggedIsAttached
