CONSTANTS
    w1 = w1
    w2 = w2
    n1 = n1
    Notices = {n1}
    Workers = {w1, w2}
    Channels = {"email", "telegram"}
    NoWorker = NoWorker
    Batch = 2
    MaxAttempts = 2
    MaxFaults = 2

CHECK_DEADLOCK FALSE
SPECIFICATION OutboxFairSpec
INVARIANTS
    OutboxTypeOK
    CopiesAccounted
    AlertHasOneNotice
PROPERTY EveryNoticeSettles
