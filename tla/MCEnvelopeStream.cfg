CONSTANTS
    BASE = 3
    LENGTH_PREFIX_LEN = 2
    ENVELOPE_HEADER_LEN = 1
    MAX_FRAME_LEN = 3
    READ_CHUNK = 5
    PROTOCOL_VERSION = 1
    Arity <- MCArity
    MaxStream = 9
SPECIFICATION FairSpec
INVARIANTS
    StreamTypeOK
    BoundedBuffer
    DeliveredIsSent
    EndIsTrue
    WellFormedIsServed
PROPERTIES
    StreamEnds
CHECK_DEADLOCK FALSE
