SPECIFICATION FairSpec
CONSTANTS
  Devices = {"bd"}
  SeqSpace = 8
  MaxRetries = 2
  AckWindow = 2
  ReadParts = 3
  WriteChunks = 2
  Refuses = {"stat"}
  MaxCalls = 2
  MaxFaults = 2
PROPERTY DeviceReturns
