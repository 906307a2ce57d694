\* The server and one command of the CLI, whose operations overlap as they like.
SPECIFICATION Spec
CONSTANTS
    s = s  c = c  a = a  b = b  ann = ann  bob = bob
    admin = admin  user = user
    NoRow = NoRow
    Server = s
    Clis <- MCClis
    Uids <- MCUids
    Names <- MCNames
    Roles <- MCRoles
    AdminRoles <- MCAdminRoles
    StartUsers <- MCStart
    FirstCred <- MCFirstCred
    MaxCred = 6
    MaxStamp = 3
INVARIANTS
    TypeOK
    CacheCoherent
PROPERTIES
    SpentStaysSpent
    AdminSurvives
    BrokenNeverOverwritten
    ImplementsTable
CHECK_DEADLOCK FALSE
