SPECIFICATION Spec
CONSTANTS
    BaseSlots = 2
    SlotsPerPage = 1
    MaxPages = 1
    Retired = 3
    Grants <- MCGrants
    Asks <- MCAsks
    Addresses = {p, q}
    Unmapped = none
INVARIANTS DeadStayDead DerivedWithinParent MemoryHasOneUse LedgerAgrees
