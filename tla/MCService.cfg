CONSTANTS
    Process = {d1, d2}
    Admin = {a1, a2}
    NoProc = NoProc
SPECIFICATION FairSpec
INVARIANTS
    ServiceTypeOK
    StoppedIsClosed
    CleanExitWasAsked
PROPERTIES
    StopIsServed
    DeleteCompletes
CHECK_DEADLOCK FALSE
