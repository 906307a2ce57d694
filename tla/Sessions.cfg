\* Sign-ins, changes of accounts and restarts; a member's name may be given again.
SPECIFICATION Spec
CONSTANTS
    u1 = u1  u2 = u2  u3 = u3  ann = ann  bob = bob
    s1 = s1  s2 = s2  day = day  night = night  boss = boss  chief = chief
    Uids = {u1, u2, u3}
    Names = {ann, bob}
    Roles = {admin, user}
    AdminRoles = {admin}
    RoleAdmin = admin
    RoleUser = user
    NoRow = NoRow
    StartUsers <- MCStart
    FirstCred = 3
    MaxCred = 6
    Confs <- MCConfs
    NoPass = NoPass
    NoUid = NoUid
    Nobody = Nobody
    Kids = {k1, k2}
    FirstKids = {k1}
    MaxCookies = 2
INVARIANTS
    SessionsCurrent
    WithdrawnRefused
PROPERTIES
    RotationSpares
CHECK_DEADLOCK FALSE
