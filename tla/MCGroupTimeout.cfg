SPECIFICATION Spec
CONSTANTS
    c1 = c1
    c2 = c2
    Contents = {c1, c2}
    Absent = absent
    Elided = elided
    Nothing = nothing
    Origins <- MCOrigins
    Writes <- MCWrites
    Limits <- MCLimits
    GateCount = 2
    MaxChanges = 2
INVARIANTS TimeoutEndsGroup
CHECK_DEADLOCK FALSE
