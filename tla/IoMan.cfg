SPECIFICATION FairSpec
CONSTANTS
  Types = {action, compat}
  BaseType = action
  MAX_IO_HANDLERS = 2
  MaxTicks = 1
  MaxTotal = 3
  NULL = NULL
INVARIANTS
  HeadIsServed
  BlockedMeansQuiet
  NothingLost
  CleanExit
PROPERTIES ServedInOrder EveryRequestSettles DrainEnds WorkerEnds
