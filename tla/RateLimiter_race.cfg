\* Two handlers of one agent against the cleaner; a request costs two units.
CONSTANTS
    Agents = {a1}
    Handlers = {h1, h2}
    NoAgent = NoAgent
    Cost = 2
    Full = 3
    IdleTicks = 3
    MaxBuckets = 3
    MaxTime = 10
SYMMETRY HandlerSymmetry
CHECK_DEADLOCK FALSE
SPECIFICATION LimiterSpec
INVARIANTS
    BucketsAgree
    AdmissionBound
PROPERTY RefusalIsJustified
