\* One slot more than the journal holds: two registrations overflow it.
SPECIFICATION Spec
CONSTANTS
    Pages = {p, q}
    None = None
    LastSlot = 1
    Retired = 3
    RecordsMax = 1
    Capacity = 1
    MaxOut = 1
    MaxAsks = 3
    MaxLate = 0
    MaxLives = 1
    MaxSwaps = 1
INVARIANTS
    SwapKeepsEveryName
