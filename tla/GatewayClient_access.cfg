\* Two requests of one process start together, while tokens age.
CONSTANTS
    Requests = {r1, r2}
    NoClient = NoClient
    MARGIN = 1
    LIFETIME = 2
    MAX_RETRIES = 1
    MaxTime = 3
SPECIFICATION Spec
INVARIANTS
    TypeOK
    TokenAliveOnArrival
    OneTokenFetch
    UsableMeansChecked
    ResolvedOnce
PROPERTY EveryRequestEnds
