\* Two pages, two slots, three registration requests, a journal of two: a slot
\* is refilled, a journal overflows, a queue is full, one poll runs out, one
\* driver is killed and one is swapped.
SPECIFICATION Spec
CONSTANTS
    Pages = {p, q}
    None = None
    LastSlot = 1
    Retired = 3
    RecordsMax = 2
    Capacity = 1
    MaxOut = 2
    MaxAsks = 3
    MaxLate = 1
    MaxLives = 2
    MaxSwaps = 1
INVARIANTS
    InheritedNamesResolve
    TranslationsAreTheTable
    DeviceHoldsOnlyWhatFlies
    AnsweredIsRead
    FlyingIsOwedOnce
PROPERTIES
    KeepsNames
    EveryWaitEnds
