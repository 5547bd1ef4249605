SPECIFICATION Spec
CONSTANTS
    Transactions = {t1}
    Allowed = {a, b}
    Private = {z}
    Deltas = {{a, b}}
    Verdicts = {"approve"}
    Torn = torn
    User = user
    MaxEdits = 1
INVARIANTS OkKeepsEdits
CHECK_DEADLOCK FALSE
