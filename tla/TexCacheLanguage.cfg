CONSTANTS
  v1 = v1
  v2 = v2
  r1 = r1
  r2 = r2
  Values = {v1, v2}
  Sio2 = {}
  Keyed = {v1, v2}
  NumSlots = 2
  OneSlotBG = FALSE
  Reqs = {r1, r2}
  NumThemes = 2
  MaxUID = 2
  Inputs = {}
  Calls <- LanguageCalls
  MaxCalls = 1
  StaleFrames = 1
  NULL = NULL
SPECIFICATION Spec
SYMMETRY Addresses
INVARIANTS NoWrongArt
