SPECIFICATION FairSpec
CONSTANTS
  Indexer = {i1}
  Top = 2
  Batch = 1
  GapLimit = 3
  Spare <- MCSpare
  Histories <- MCHistories
  NoPlan = NoPlan
  Nobody = Nobody
  Mixes <- MCMixes
INVARIANTS TypeOK AllFound ScannedExists
PROPERTIES CaughtUp
CHECK_DEADLOCK FALSE
