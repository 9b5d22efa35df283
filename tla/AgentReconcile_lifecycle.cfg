\* Two roles, one of them without a token secret.  Three events, one of them a
\* fault: an agent created, deleted and created again, updated twice, or with
\* a change and a restart.
CONSTANTS
    Roles = {r1, r2}
    Provided = {r1}
    None = None
    MaxFaults = 1
    MaxEvents = 3
CHECK_DEADLOCK FALSE
SPECIFICATION FairSpec
INVARIANTS
    Consistent
    SpecIsAsked
PROPERTIES
    PhaseIsCurrent
    Converges
