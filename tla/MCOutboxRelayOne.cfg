CONSTANTS
    a = a
    b = b
    w1 = w1
    w2 = w2
    None = None
    Rows = {1, 2, 3, 4}
    Keys = {a, b}
    KeyOf <- MCKeyOf
    Relays = {w1}
    BatchSize = 2
    MaxBuffered = 2
SPECIFICATION Spec
INVARIANTS
    NoLateDuplicate
