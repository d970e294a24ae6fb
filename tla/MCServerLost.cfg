CONSTANTS
    p1 = p1
    p2 = p2
    c1 = c1
    c2 = c2
    k1 = k1
    k2 = k2
    ps = ps
    q1 = q1
    q2 = q2
    Phone = {p1}
    NameOf <- MCNameOf
    Addr = {a1}
    NoAddr = NoAddr
    Conn = {c1}
    Cli = {k1}
    ServePid = ps
    Command = {"Sleep"}
    Intervals = {"OneDay"}
    Keystores <- MCKeystores
    MaxTime = 1
    MaxNonce = 1
    MaxStarts = 1
    Drain = TRUE
    Saver <- MCSaver
    Pid = {ps, q1, q2}
    PidOf <- MCPidOf
    Contents <- KeystoreContents
    Inode = {i1, i2, i3}
    NoInode = NoInode
    Missing = Missing
    Empty = Empty
    Unreadable = Unreadable
    NoData = NoData
    DAY_MS = 1
    U64_MAX = 40
SPECIFICATION Spec
SYMMETRY Symmetry
INVARIANT RevocationStays
CHECK_DEADLOCK FALSE
