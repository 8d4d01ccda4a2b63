CONSTANTS
    Consumers = {c1, c2, c3}
    Producer = p
    Capacity = 2
    MaxMessages = 5
SPECIFICATION FairSpec
INVARIANTS TypeOK NoLostWakeup
PROPERTIES Implements Delivered Unblocked
