CONSTANTS
    w1 = w1
    w2 = w2
    None = None
    Rows = {1, 2}
    Relays = {w1, w2}
    BatchSize = 1
SPECIFICATION LoopFairSpec
INVARIANTS
    ResultMarkedIsDelivered
    OneSender
    NoWaitCircle
PROPERTIES
    EveryResultPublished
