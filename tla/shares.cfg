SPECIFICATION SharesSpec
CONSTANTS
    ShareId = {i1, i2, i3, i4}
    CacheSize = 2
    DefaultDiff = 64
    MinDiff = 50
    MaxDiff = 100
    EnableVardiff = TRUE
    Target = 10
    Minute = 11
    MinShares = 2
    Interval = 2
    MinSpan = 1
    Window = 5
    Grace = 1
    MaxTime = 7
    MaxInFlight = 1
    MaxResends = 1
SYMMETRY Symmetry
INVARIANTS
    SharesTypeOK
    DifficultyIsTold
    CreditedOnce
    AtMostOneSlips
    ChangesAreSpaced
PROPERTIES
    HonestSharesAreAccepted
    VardiffIsNotStuck
CHECK_DEADLOCK FALSE
