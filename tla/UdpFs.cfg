SPECIFICATION FairSpec
CONSTANTS
  Devices = {"bd", "files"}
  SeqSpace = 8
  MaxRetries = 2
  AckWindow = 2
  ReadParts = 3
  WriteChunks = 2
  Refuses = {"read", "file"}
  MaxCalls = 2
  MaxFaults = 2
INVARIANTS OneUser AnswerIsOwn
PROPERTIES Exchanges CallEnds DeviceReturns
