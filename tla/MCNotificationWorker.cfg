SPECIFICATION FairSpec
CONSTANTS
    None = None
    p1 = p1
    w1 = w1
    w2 = w2
    Partitions = {p1}
    Workers = {w1, w2}
    MaxAttempts = 2
    Size <- MCSize
    Verdict <- MCVerdict
INVARIANTS
    TypeOK
    CommittedIsSettled
    SettledInOrder
    RepeatsHaveACause
PROPERTY EveryRecordSettles
CHECK_DEADLOCK FALSE
