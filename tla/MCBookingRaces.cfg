CONSTANTS
    match = match
    r1 = r1
    r2 = r2
    s1 = s1
    c1 = c1
    None = None
    Events = {match}
    Reservations = {r1, r2}
    Schedulers = {s1}
    Consumers = {c1}
    EventOf <- MCEventOf
    Quantity <- MCQuantity
    TotalSeats <- MCTotalSeats
    MaxQuantity = 2
    Ttl = 1
    ReserveAttempts = 2
    DeliveryAttempts = 2
    Decisions <- PaymentResult
    MaxTime = 1
SPECIFICATION Spec
INVARIANTS
    LockHoldersFinish
PROPERTIES
    ImplementsTicketSale
    NeverExpiresEarly
