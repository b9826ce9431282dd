SPECIFICATION FairSpec
CONSTANTS
  Capacity = 2
  CursorModulus = 4
  MaxIssued = 5
INVARIANTS NoEntryRace NeverCorrupt
PROPERTIES RefinesFifo EveryEntryArrives
