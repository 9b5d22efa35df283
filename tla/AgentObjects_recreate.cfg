\* Two roles, a repository, a namespace, two setups and three specs.  Four events,
\* up to one of them a fault: an agent created, deleted and created again while
\* the first one's objects are collected, or with changes of its spec, of a role
\* or of the namespace.
CONSTANTS
    r1 = r1
    r2 = r2
    g1 = g1
    n1 = n1
    s1 = s1
    s2 = s2
    Roles = {r1, r2}
    Repos = {g1}
    Spaces = {n1}
    Setups = {s1, s2}
    Specs <- MCSpecs
    None = None
    MaxFaults = 1
    MaxEvents = 4
CHECK_DEADLOCK FALSE
SPECIFICATION FairSpec
INVARIANTS
    TypeOK
    

    
