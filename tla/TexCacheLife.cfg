CONSTANTS
  v1 = v1
  v2 = v2
  r1 = r1
  r2 = r2
  Values = {v1, v2}
  Sio2 = {}
  Keyed = {v1}
  NumSlots = 1
  OneSlotBG = TRUE
  Reqs = {r1, r2}
  NumThemes = 2
  MaxUID = 1
  Inputs = {}
  Calls <- LifeCalls
  MaxCalls = 2
  StaleFrames = 0
  NULL = NULL
SPECIFICATION WedgedSpec
CHECK_DEADLOCK FALSE
INVARIANTS ClaimIsHeld FreedIsUnused CountExact
PROPERTIES TeardownEnds
