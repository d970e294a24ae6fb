CONSTANTS
    a = a
    b = b
    pa = pa
    pb = pb
    Saver = {a, b}
    Pid = {pa}
    PidOf <- MCSharedProcess
    Contents = {c1, c2}
    Inode = {i1, i2, i3}
    NoInode = NoInode
    Missing = Missing
    Empty = Empty
    Unreadable = Unreadable
    NoData = NoData
SPECIFICATION FileSpec
INVARIANT AlwaysLoadable
