CONSTANTS
    a = a
    b = b
    ca = ca
    None = None
    Zones <- MCZones
    ZoneBlocks = 2
    Denominator = 1
    Content <- MCContentApart
    Kind <- MCAllObjects
    Size <- MCSize
    Writers = {w1}
    Readers = {}
    MaxCycles = 1
SPECIFICATION Spec
INVARIANT
    PublishedResolves
