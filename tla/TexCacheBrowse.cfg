CONSTANTS
  v1 = v1
  v2 = v2
  r1 = r1
  r2 = r2
  Values = {v1, v2}
  Sio2 = {v1}
  Keyed = {v1}
  NumSlots = 1
  OneSlotBG = FALSE
  Reqs = {r1, r2}
  NumThemes = 1
  MaxUID = 2
  Inputs = {"nav", "priority", "view", "rebuild", "fail", "lookup"}
  Calls <- NoCalls
  MaxCalls = 0
  StaleFrames = 0
  NULL = NULL
SPECIFICATION LiveSpec
INVARIANT NoWrongArt
PROPERTY ClaimEnds
