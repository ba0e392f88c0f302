SPECIFICATION FairSpec
CONSTANTS
  N = 3
  MaxChanges = 3
INVARIANTS PlaysDecoded TrackHeld OneSession ReserveExact
PROPERTIES SessionEnds MusicFlows ExitEnds
