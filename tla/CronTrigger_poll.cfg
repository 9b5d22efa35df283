\* Three schedules, one of them invalid, two firings, two faults.
CONSTANTS
    Schedules = {s1, s2, bad}
    Invalid = {bad}
    Prompts = {p1}
    NoJob = NoJob
    MaxSyncs = 2
    MaxTriggers = 2
    MaxLenAgent = 2
    PollBatch = 2
    MaxMishaps = 2
    Observers = {o1, o2}
CHECK_DEADLOCK FALSE
SPECIFICATION CronFairSpec
INVARIANTS
    RecordsAgree
PROPERTIES
    
    TriggerIsRead
