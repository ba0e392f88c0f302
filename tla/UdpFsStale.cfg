SPECIFICATION Spec
CONSTANTS
  Devices = {"files"}
  SeqSpace = 8
  MaxRetries = 1
  AckWindow = 2
  ReadParts = 3
  WriteChunks = 2
  Refuses = {}
  MaxCalls = 2
  MaxFaults = 4
INVARIANT AnswerIsOwn
