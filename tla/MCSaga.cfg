CONSTANTS
    concert = concert
    match = match
    r1 = r1
    r2 = r2
    r3 = r3
    None = None
    Events = {concert, match}
    Reservations = {r1, r2, r3}
    EventOf <- MCEventOf
    Quantity <- MCQuantity
    TotalSeats <- MCTotalSeats
    MaxQuantity = 10
    UnitPrice <- MCUnitPrice
    CustomerRef <- MCCustomerRef
    Threshold = 10000
    Outages <- Topics
    DirectAmounts = {0, 49896, 149700}
SPECIFICATION FairSpec
INVARIANTS
    TicketIsPaid
    DecisionsAreFollowed
    RefusalsHaveACause
PROPERTIES
    MoneyIsAccountedFor
CHECK_DEADLOCK FALSE
