CONSTANTS
    u1 = u1
    u2 = u2
    Users = {u1, u2}
    Phones = {p1, p2}
    Threads = {c1, c2}
    Handlers = {h1}
    Nil = Nil
    Owners <- BothOwners
    MaxAlarms = 1
    MaxSends = 2
    MaxAsked = 2
    MaxFails = 1
    ListLen = 50
SYMMETRY Symmetry
SPECIFICATION Spec
INVARIANTS TypeOK OneHolder FlagHasPhone OffMeansOff Recorded
CHECK_DEADLOCK FALSE
