SPECIFICATION FairSpec
CONSTANTS
  NSlots = 1
  Devices = {"stick"}
  TypeOf <- MCTypeOf
  Home <- MCHome
  Settings <- OffSources
  gAutoRefresh = FALSE
  NicTaken = FALSE
  NetHideMisses = 3
  MaxDialogs = 1
  MaxPresses = 1
PROPERTY StaysHidden
CHECK_DEADLOCK FALSE
