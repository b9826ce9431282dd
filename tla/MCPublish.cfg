SPECIFICATION Spec
CHECK_DEADLOCK FALSE
CONSTANTS
    Geometries = {2, 4, 5}
    Carry = 2
    Blobs = {p, q}
    MaxPublishes = 7
    HonestCuts = 2
    LyingCuts = 1
INVARIANTS NothingIsUnresolved HeldIsDurable
PROPERTIES EitherOldOrNew
SYMMETRY Symmetry
