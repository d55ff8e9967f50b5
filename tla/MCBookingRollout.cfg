CONSTANTS
    match = match
    r1 = r1
    s1 = s1
    s2 = s2
    c1 = c1
    c2 = c2
    None = None
    Events = {match}
    Reservations = {r1}
    Schedulers = {s1, s2}
    Consumers = {c1, c2}
    EventOf <- MCEventOf
    Quantity <- MCQuantity
    TotalSeats <- MCTotalSeats
    MaxQuantity = 1
    Ttl = 1
    ReserveAttempts = 1
    DeliveryAttempts = 2
    Decisions <- MCDecisions
    MaxTime = 0
SPECIFICATION FairSpec
INVARIANTS
    LockedRowsAreCurrent
    OutboxTellsStatus
    MarkersMatchEffects
    ResultNeverLost
PROPERTIES
    PendingEnds
    ResultsSettle
