\* Documents that carry both roles and people, with and without a hidden block.
SPECIFICATION TierSpec
CONSTANTS
    a = a  b = b  ghost = ghost  admin = admin  user = user  lead = lead
    portal = portal  accounts = accounts  super = super
    Accts <- MCAccts
    Ghosts <- MCGhosts
    Roles <- MCRoles
    Admin = admin
    User = user
    Portal = portal
    People = accounts
    Super = super
    NoRole = NoRole
    NoAcct = NoAcct
    LeftOut = LeftOut
    Documents <- MCDocuments
    HiddenBlocks <- MCHiddenBlocks
    WholeDocuments = TRUE
PROPERTIES
    
    TierSurvives
    PortalKept
    CatalogueGuarded
SYMMETRY MCSymmetry
CHECK_DEADLOCK FALSE
