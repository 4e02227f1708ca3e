\* Violation: two first requests are given different clients.
CONSTANTS
    Requests = {r1, r2}
    NoClient = NoClient
    MARGIN = 2
    LIFETIME = 4
    MAX_RETRIES = 0
    MaxTime = 0
SPECIFICATION Spec
INVARIANT OneClient
