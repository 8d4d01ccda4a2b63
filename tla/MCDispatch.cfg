CONSTANTS
    Conns = {c1, c2}
    Fds = {f1, f2}
    NoConn = NoConn
    NoFd = NoFd
    ThreadNum = 2
    IdLimit = 0
    MaxAccepts = 2
    MaxReplies = 1
SPECIFICATION FairSpec
INVARIANTS TypeOK CheckSound Reachable FdExclusive
PROPERTIES Released
