SPECIFICATION Spec
CHECK_DEADLOCK FALSE
CONSTANTS
    DataZones = 3
    ZoneBlocks = 3
    Blobs = {p, q, r}
    Spans <- MCSpans
    MaxCuts = 2
INVARIANTS AcknowledgedIsReadable PutIsReadable
