\* Two clients with room for one message each, two events, and one kill or lost
\* reply.
CONSTANTS
    Clients = {c1, c2}
    Agents = {a1}
    NoAgent = NoAgent
    NumStreams = 1
    MaxEntries = 2
    MaxLen = 2
    BatchSize = 2
    ChannelSize = 1
    MaxFaults = 1
CHECK_DEADLOCK FALSE
SPECIFICATION PushFairSpec
INVARIANTS
    DeliveriesAgree
    ReceivedInOrder
    NothingElseIsMissed
PROPERTIES
    PublishedIsPushed
