\* Two requests and a channel of one event; bodies around the limit, responses
\* in pieces; repeated writes and a restart.
CONSTANTS
    Requests = {r1, r2}
    NoRequest = NoRequest
    ChannelSize = 1
    MaxCopies = 2
    MaxBody = 1
    BodySizes = {1, 2, 3}
    Chunks = {1, 2}
    MaxReply = 2
    MaxCrashes = 1
CHECK_DEADLOCK FALSE
SPECIFICATION Spec
INVARIANTS
    RecordsAreSound
    EndedIsAudited
    AuditOrder
PROPERTIES
    RequestsEnd
