CONSTANTS
    concert = concert
    r1 = r1
    r2 = r2
    console = console
    other = other
    None = None
    Events = {concert}
    Reservations = {r1, r2}
    EventOf <- MCEventOf
    Quantity <- MCQuantity
    TotalSeats <- MCTotalSeats
    MaxQuantity = 10
    Callers = {console, other}
    Window = 3
    MinCalls = 2
    Threshold = 50
    Permitted = 2
    Concert = concert
    Nominal = {r1}
    MaxPolls = 2
    Self = console
SPECIFICATION Spec
INVARIANTS
    StockStepIsFair
    OpensForOutagesOnly
    HalfOpenHasCalls
PROPERTIES
    RunEnds
    ClosesAgain
CHECK_DEADLOCK FALSE
