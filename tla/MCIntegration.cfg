SPECIFICATION Spec
CONSTANTS
    Transactions = {t1, t2}
    Allowed = {a, b}
    Private = {z}
    Deltas = {{}, {a}, {b}, {a, b}}
    Verdicts = {"approve", "revise", "stale", "unsafe", "forged"}
    Torn = torn
    User = user
    MaxEdits = 1
INVARIANTS TypeOK OneStands NotAppliedMeansUntouched OkMeansApproved
CHECK_DEADLOCK FALSE
SYMMETRY MCSymmetry
