CONSTANTS
    match = match
    r1 = r1
    r2 = r2
    r3 = r3
    s1 = s1
    None = None
    Events = {match}
    Reservations = {r1, r2, r3}
    Schedulers = {s1}
    Consumers = {}
    EventOf <- MCEventOf
    Quantity <- MCQuantity
    TotalSeats <- MCTotalSeats
    MaxQuantity = 2
    Ttl = 1
    ReserveAttempts = 2
    DeliveryAttempts = 1
    Decisions = {}
    MaxTime = 0
SPECIFICATION FairSpec
INVARIANTS
    SeatsConserved
    VersionGuardsStock
    ConflictsComeFromCommits
PROPERTIES
    RequestsAnswered
