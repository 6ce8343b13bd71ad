SPECIFICATION Spec
CONSTANTS
    Outputs = {o1}
    Requests = {r1, r2}
    Editors = {}
    NoOne = NoOne
    Cap = 2
    Estimates = {1, 2}
    Retries = 1
    MaxRevisions = 1
    Months = {1}
    MaxBilled = 4
INVARIANT BilledWithinCap
CHECK_DEADLOCK FALSE
