SPECIFICATION ShutdownFairSpec
CONSTANTS
    Conn = {1, 2, 3}
    MaxConns = 2
    Extranonces = 2
    Client = {x}
    Nobody = Nobody
    MayStall = TRUE
INVARIANTS
    ShutdownTypeOK
    AdmissionIsExact
    SearchSpacesDiffer
    ShutdownLeavesNothing
PROPERTY
    ShutdownEnds
CHECK_DEADLOCK FALSE
