\* Three kinds of reports, one unknown, of three sizes, one cut; two Events, one
\* reason unknown.  Three things happen, up to two of them faults: a delivery
\* repeated while its first write fails, an issue assigned while the collector
\* is killed, an Event repeated around a restart.
CONSTANTS
    Kinds = {"push", "issues opened", "issues labeled"}
    Sizes = {0, 2, 3}
    KubeEvents = {e1, e2}
    Reasons = {"OOMKilling", "Unhealthy"}
    None = None
    MaxFailures = 2
    MaxEvents = 3
CHECK_DEADLOCK FALSE
SPECIFICATION SourcesFairSpec
INVARIANTS
    
    NothingIsLostQuietly
PROPERTIES
    Settles
