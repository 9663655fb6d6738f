SPECIFICATION SubmitSpec
CONSTANTS
    s1 = s1
    s2 = s2
    b1 = b1
    b2 = b2
    b3 = b3
    Session = {s1, s2}
    Block = {b1, b2, b3}
    Finder <- MCFinder
    MaxFoundBlocks = 2
    Nobody = nobody
    Torn = torn
    WriteMayFail = FALSE
INVARIANTS
    EveryRecordPersists
