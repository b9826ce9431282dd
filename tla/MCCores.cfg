SPECIFICATION FairSpec
CONSTANTS
    LastCore = 2
    TextPages = 2
    MaxRuns = 2
    MaxRevokes = 1
INVARIANTS ShotIsForgotten EvidenceMeansStopped
PROPERTIES KillLands
