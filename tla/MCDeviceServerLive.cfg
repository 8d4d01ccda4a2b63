CONSTANTS
    Devices = {d1}
    Fds = {f1, f2}
    Nil = Nil
    ThreadNum = 2
    IdLimit = 0
    MaxAccepts = 3
    MaxFails = 1
SPECIFICATION FairSpec
PROPERTIES OfflineInTheEnd LinkComesBack
CHECK_DEADLOCK FALSE
