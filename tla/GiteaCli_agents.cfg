\* Two agents of one role and one of another; two labels, a page each; up to two
\* issues, of which one is listed, and two reviews, of which one is shown.  Five
\* commands and changes of labels.
CONSTANTS
    dev1 = dev1
    dev2 = dev2
    pm = pm
    developer = developer
    manager = manager
    Agents = {dev1, dev2, pm}
    Users = {developer, manager}
    UserOf <- RoleUser
    Names = {1, 2}
    FirstLabels = {2}
    PageSize = 1
    ListLimit = 1
    ReviewPage = 1
    MaxIssues = 2
    MaxReviews = 2
    MaxFaults = 1
    MaxSteps = 5
SYMMETRY AgentSymmetry
CHECK_DEADLOCK FALSE
SPECIFICATION Spec
INVARIANTS
    Consistent
    SharedOnlyByRace
    MergedUnlessOvertaken
