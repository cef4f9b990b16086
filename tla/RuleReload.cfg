SPECIFICATION Spec
CONSTANTS
  Good = {blank, g1, g2}
  Bad = {b1}
  Blank = blank
  Missing = missing
  None = none
  FsReportsMtime = TRUE
  MaxTick = 2
  MaxEdits = 3
INVARIANTS TypeOK SkippedOnlyWhenCurrent
PROPERTIES ReloadNeverRegresses EditsReachMemory
