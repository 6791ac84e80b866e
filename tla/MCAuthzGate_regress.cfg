SPECIFICATION GateSpec
CONSTANTS
    Calls = {c1, c2}
    RequestIds = {r1, r2}
    Grants = {g1}
    GrantVersions = {1, 2}
    NoVersion = 0
    None = None
    Digests = {d1, d2}
    MaxHeads = 2
    AutoGrants = {}
    DecisionIds = {e1, e2}

PROPERTY AcceptsHighest
CHECK_DEADLOCK FALSE
