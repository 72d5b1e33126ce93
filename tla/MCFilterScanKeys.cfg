SPECIFICATION Spec
CONSTANTS
  Indexer = {i1}
  Top = 2
  Batch = 1
  GapLimit = 3
  Spare <- MCSpare
  Histories <- MCHistories
  NoPlan = NoPlan
  Nobody = Nobody
  Mixes <- NoFaults
INVARIANT KeysScanned
CHECK_DEADLOCK FALSE
