CONSTANTS
    Conns = {c1, c2}
    Fds = {f1}
    NoConn = NoConn
    NoFd = NoFd
    ThreadNum = 1
    IdLimit = 2
    MaxAccepts = 2
    MaxReplies = 1
SPECIFICATION Spec
INVARIANTS NoCrosstalk
