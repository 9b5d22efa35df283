\* Two users and an agent, two requests at a time and four in all, besides logins.
\* Tokens live one tick and a request takes at most one; at four every right had at
\* the start has run out.
CONSTANTS
    Users = {root, joe}
    Admin = root
    Passwords = {x, y}
    Password = x
    Agents = {a}
    None = None
    Procs = {p1, p2}
    TokenLife = 1
    MaxLag = 1
    MaxTime = 4
    MaxTokens = 2
    MaxRequests = 4
SYMMETRY Symmetry
CHECK_DEADLOCK FALSE
SPECIFICATION Spec
INVARIANTS
    TypeOK
    RightsExpire
    KeptUnlessOvertaken
