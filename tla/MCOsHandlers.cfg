CONSTANTS
    Process = {d1, d2}
    Session = {s1, s2}
    NoSession = NoSession
SPECIFICATION Spec
SYMMETRY Symmetry
INVARIANTS
    OsTypeOK
    NoFalseLock
    PowerOffAuthorised
