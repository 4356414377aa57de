SPECIFICATION FairSpec
CONSTANTS
  Configs = {c1, c2}
  Stringless = {c2}
  MaxKills = 2
  Stubborn = {"strings", "kbd"}
  Refusals = TRUE
INVARIANTS TypeOK BoundIsWhole UpMeansReady DownLeavesNothing StateIsCurrent
PROPERTIES UpNeverUnplugs ComesUp
