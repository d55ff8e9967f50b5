CONSTANTS
    a = a
    b = b
    w1 = w1
    w2 = w2
    None = None
    Rows = {1, 2, 3}
    Keys = {a, b}
    KeyOf <- MCKeyOfThree
    Relays = {w1, w2}
    BatchSize = 2
    MaxBuffered = 2
SPECIFICATION FairSpec
INVARIANTS
    MarkedIsDelivered
PROPERTIES
    ImplementsEventFeed
    EveryRowPublished
