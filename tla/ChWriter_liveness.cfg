\* One process visiting two streams; no fault, but ClickHouse may fail for ever.
CONSTANTS
    Procs = {p1}
    NumStreams = 2
    MaxEntries = 2
    MaxLen = 2
    BatchSize = 2
    ClaimCount = 1
    MaxRetries = 1
    Malformed <- SecondMalformed
    MaxFaults = 0
SPECIFICATION FairSpec
PROPERTIES
    EntriesMoveOn
