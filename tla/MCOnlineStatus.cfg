CONSTANTS
    Users = {u1, u2}
    Servers = {a, b}
    Fds = {f1}
    IdLimit = 0
    MaxAccepts = 3
    MaxLogins = 2
    MaxRestarts = 1
    MaxFlight = 1
    MaxFails = 1
    Nil = Nil
SYMMETRY Symmetry
SPECIFICATION Spec
INVARIANTS TypeOK RightUser OnlineReachable
CHECK_DEADLOCK FALSE
