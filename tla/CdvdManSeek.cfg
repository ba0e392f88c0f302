SPECIFICATION Spec
CONSTANTS
  c1 = c1
  c2 = c2
  Clients = {c1, c2}
  Games <- Seeking
  StBanksize = 2
  StBankmax = 2
  LsnSpace = 6
  Starts = {0, 2}
INVARIANT ReadyMeansDone
