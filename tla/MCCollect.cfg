CONSTANTS
    a = a
    b = b
    ca = ca
    None = None
    Zones <- MCZones
    ZoneBlocks = 2
    Denominator = 1
    Content <- MCContent
    Kind <- MCKind
    Size <- MCSize
    Writers = {w1}
    Readers = {r1}
    MaxCycles = 1
SPECIFICATION FairSpec
INVARIANTS
    OpenWritesSurvive
    ReadersSeeWhatTheyResolved
PROPERTIES
    PinnedStaysReadable
    EveryCycleEnds
