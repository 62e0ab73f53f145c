CONSTANTS
    m1 = m1
    m2 = m2
    c1 = c1
    c2 = c2
    CPU = {c1, c2}
    Meter = {m1, m2}
    Word = 6
    Rate <- MCRate
    Capacity <- MCCapacity
    Level <- MCLevel
    Rule <- MCRule
    Length = {1, 3}
    MaxClock = 7
SPECIFICATION Spec
SYMMETRY Symmetry
INVARIANTS
    
    MeterInv
PROPERTIES
    ReplenishesExactly
