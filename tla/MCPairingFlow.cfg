CONSTANTS
    p1 = p1
    n1 = n1
    Phone = {p1, p2}
    Name = {n1}
    MAX_PAIRING_ATTEMPTS = 2
    PAIRING_CODE_MODULUS = 2
    U32_MAX = 2
    U64_MAX = 3
    NoRecord = NoRecord
    PAIRING_WINDOW_DEFAULT_MS = 2
    InitialKeystores <- MCInitialKeystores
    NoKeystore = NoKeystore
    NoPhone = NoPhone
    MaxRuns = 2
    MaxClockSteps = 1
SPECIFICATION FairSpec
INVARIANTS
    FlowTypeOK
    AckedIsPaired
    OneRecordPerSpki
PROPERTIES
    SaveAddsOnePhone
    PairTerminates
CHECK_DEADLOCK FALSE
