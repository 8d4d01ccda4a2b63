CONSTANTS
    Devices = {d1, d2}
    Fds = {f1, f2, f3}
    Nil = Nil
    ThreadNum = 2
    IdLimit = 0
    MaxAccepts = 3
    MaxFails = 1
SYMMETRY Symmetry
SPECIFICATION Spec
INVARIANTS TypeOK FdOwned RightDevice DeviceFound OnlineExpires
CONSTRAINT MCFew
CHECK_DEADLOCK FALSE
