SPECIFICATION Spec
CONSTANTS
    Processes = {p1, p2}
    Invocations = {i1, i2}
    Tasks = {t1, t2}
    Models = {m1, m2}
    Nothing = nothing
    MaxEvents = 1
INVARIANTS TypeOK NothingAbandoned
PROPERTIES ImplementsAuthority ReviewsKeepResults
CHECK_DEADLOCK FALSE
SYMMETRY MCSymmetry
