\* Every reader; rows appear and disappear while it walks and any page
\* may fail.
SPECIFICATION FairSpec
CONSTANTS
    Rows = {1, 2, 3, 4, 5}
    StartLists <- MCStartLists
    Kinds = {"units", "groups", "identities", "usernames", "policies", "networks", "clients", "switches", "aps"}
    Size = 2
    Limit = 3
    Window = 6
    Enough = 5
    Cap = 3
    MaxChanges = 2
    MaxAsked = 5
INVARIANTS
    CompleteMeansAll
    ReadOnce
PROPERTY
    WalkEnds
CHECK_DEADLOCK FALSE
