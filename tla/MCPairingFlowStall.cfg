CONSTANTS
    p1 = p1
    n1 = n1
    Phone = {p1, p2}
    Name = {n1}
    MAX_PAIRING_ATTEMPTS = 2
    PAIRING_CODE_MODULUS = 2
    U32_MAX = 2
    U64_MAX = 3
    NoRecord = NoRecord
    PAIRING_WINDOW_DEFAULT_MS = 2
    InitialKeystores <- MCInitialKeystores
    NoKeystore = NoKeystore
    NoPhone = NoPhone
    MaxRuns = 1
    MaxClockSteps = 1
SPECIFICATION StalledPeerSpec
PROPERTY WindowEnds
CHECK_DEADLOCK FALSE
