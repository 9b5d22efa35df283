\* Two concurrent calls at a time, three in all, one fault.
CONSTANTS
    Callers = {c1, c2}
    Top = {f}
    Nested = {g}
    Metadata = Metadata
    NoFile = NoFile
    Initial <- MCInitial
    MaxCalls = 3
    MaxFaults = 1
CHECK_DEADLOCK FALSE
SPECIFICATION FairSpec
INVARIANTS
    TypeOK
    AloneIsSound
PROPERTIES
    OnlyAskedRemovals
    ChangeIsReported
