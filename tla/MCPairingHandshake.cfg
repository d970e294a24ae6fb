CONSTANTS
    Phone = {p1, p2}
    Name = {n1}
    MAX_PAIRING_ATTEMPTS = 5
    PAIRING_CODE_MODULUS = 3
    U32_MAX = 7
    U64_MAX = 4
    NoRecord = NoRecord
SPECIFICATION HandshakeSpec
INVARIANTS
    HandshakeInv
    GuessBound
    OneVerdict
    PairedInTime
    UniformCodes
PROPERTY WindowIsFixed
