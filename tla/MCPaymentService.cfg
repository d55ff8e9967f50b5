CONSTANTS
    r1 = r1
    c1 = c1
    c2 = c2
    p1 = p1
    p2 = p2
    due = due
    less = less
    raw = raw
    None = None
    Reservations = {r1}
    Consumers = {c1, c2}
    Posts = {p1, p2}
    PostFor <- MCPostForTwo
    Amounts = {due, less, raw}
    Stored <- MCStored
    Due = due
    Deadline <- MCDeadline
    MaxAttempts = 3
    MaxTime = 1
SPECIFICATION Spec
SYMMETRY SymmetricInstances
INVARIANTS
    AnswersAgree
    NothingUnanswered
    RacesAreAbsorbed
PROPERTIES
    ImplementsPaymentOnce
