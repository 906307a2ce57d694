\* Saves, damage, restarts and callers.
SPECIFICATION Spec
CONSTANTS
    boss = boss  desk = desk  t1 = t1  t2 = t2  v1 = v1  v2 = v2  v3 = v3
    north = north  south = south  everything = everything  c1 = c1
    Persons <- MCPersons
    Tenants <- MCTenants
    Venues <- MCVenues
    Groups <- MCGroups
    Checks = {c1}
    AllVenues = AllVenues
    NoGroup = NoGroup
    NoId = NoId
    NotKept = NotKept
    NoSummary = NoSummary
    AllAccess = everything
    Unplaced = Unplaced
    Omitted = Omitted
    Catalogues <- MCCatalogues
    Assignments <- MCAssignments
    Hides <- MCHides
    StartDisk <- MCDisk
    Outcomes <- MCOutcomes
    StartSnap <- MCSnap
    Listings <- MCListings
    MaxWrites = 3
    MaxRuns = 2
INVARIANTS
    RollUpBlind
    GroupsAdd
PROPERTIES
    DamageWidensNobody
    TurnedOffKnowingly
CHECK_DEADLOCK FALSE
