CONSTANTS
    Threads = {t1, t2}
    Nobody = Nobody
    MsgIds = {i1, i2}
    MaxRequests = 2
SPECIFICATION FairSpec
INVARIANTS TypeOK TableOwned OwnResponse
PROPERTIES Answered
CHECK_DEADLOCK FALSE
