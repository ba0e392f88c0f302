SPECIFICATION FairSpec
CONSTANTS
  NSlots = 1
  Devices = {"stick", "other"}
  TypeOf <- MCTypeOf
  Home <- MCHome
  Settings <- Sources
  gAutoRefresh = FALSE
  NicTaken = FALSE
  NetHideMisses = 3
  MaxDialogs = 1
  MaxPresses = 1
INVARIANTS RowsMatchView
PROPERTIES WithheldUntouched PageFollows ListComes LoadFollows ViewSettles
CHECK_DEADLOCK FALSE
