SPECIFICATION SubmitSpec
CONSTANTS
    CompactLimit = 8
    ByteBase = 4
    BitsPerByte = 2
    ChecksumLetters = 2
    Significand = 256
    Scales <- MCScales
    NTimeWindow = 1
    Extranonce2Size = 4
    VersionMask = {3, 4}
    Max = 3
    Key <- MCKey
    Share <- MCShare
    Scenario <- MisreadScenario
INVARIANTS
    ValidWalletsArePaid
