\* Two overlapping processes on one stream, one fault.
CONSTANTS
    Procs = {p1, p2}
    NumStreams = 1
    MaxEntries = 2
    MaxLen = 1
    BatchSize = 2
    ClaimCount = 2
    MaxRetries = 2
    Malformed <- NoneMalformed
    MaxFaults = 1
SYMMETRY ProcSymmetry
SPECIFICATION Spec
INVARIANTS
    TypeOK
    DeliveredIsAccounted
    DuplicatesNeedRedelivery
    BuffersAreSafe
PROPERTIES
    ImplementsSink
