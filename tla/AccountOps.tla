---------------------------- MODULE AccountOps ----------------------------
(* The account rows of api/accounts.py and what each operation makes of    *)
(* them.  Pure: both the abstract table (AccountTable) and the store with  *)
(* its file and caches (AccountStore) are built from these operators.      *)
EXTENDS Integers, FiniteSets

CONSTANTS
    Uids,        \* account ids ("u_" + random), never handed out twice
    Names,       \* usernames, already normalised
    Roles,       \* role ids that resolve (known_role)
    AdminRoles,  \* those whose grants include admin.portal
    NoRow,       \* no account with this id
    StartUsers,  \* the accounts that may be there when we start to watch
    FirstCred,   \* the first credential number none of those uses
    MaxCred      \* bound: credentials ever made

\* A credential is a password hash or the hash of an invite token: each is
\* made from fresh randomness, so each is a number of its own; None is absent.
None == 0
Cred == Nat \ {None}

Row == [name: Names, role: Roles, disabled: BOOLEAN,
        hash: Nat, invite: Nat]
UserMaps == [Uids -> Row \cup {NoRow}]

ASSUME RolesAssumption == AdminRoles \subseteq Roles
ASSUME NoRowAssumption == NoRow \notin Row

NoUsers == [u \in Uids |-> NoRow]
Live(users) == {u \in Uids : users[u] # NoRow}

Creds(users) ==
    ({users[u].hash : u \in Live(users)} \cup {users[u].invite : u \in Live(users)})
        \ {None}

\* No two fields of the table hold the same credential.
CredsDistinct(users) ==
    \A u, v \in Live(users) :
        /\ users[u].hash # None => users[u].hash # users[v].invite
        /\ u # v /\ users[u].hash # None => users[u].hash # users[v].hash
        /\ u # v /\ users[u].invite # None => users[u].invite # users[v].invite

ASSUME StartAssumption ==
    /\ StartUsers \subseteq UserMaps
    /\ FirstCred \in Cred /\ MaxCred \in Nat
    /\ \A s \in StartUsers : CredsDistinct(s) /\ \A c \in Creds(s) : c < FirstCred

---------------------------------------------------------------------------
\* Account.can_sign_in and administers()
CanSignIn(row) == row.hash # None /\ ~row.disabled
Administers(row) == row.role \in AdminRoles
UsableAdmin(row) == Administers(row) /\ CanSignIn(row)

\* _admin_count_in(users, exclude_id) > 0
AnotherAdmin(users, uid) ==
    \E u \in Live(users) \ {uid} : UsableAdmin(users[u])

HasAdmin(users) == \E u \in Live(users) : UsableAdmin(users[u])

---------------------------------------------------------------------------
\* create(): no password yet, a fresh invite
NameFree(users, name) == \A u \in Live(users) : users[u].name # name
NewRow(name, role, tok) ==
    [name |-> name, role |-> role, disabled |-> FALSE, hash |-> None, invite |-> tok]

\* issue_invite(): the existing password is left alone
Invited(row, tok) == [row EXCEPT !.invite = tok]

\* redeem_invite() and set_password(): the hash is stored and any outstanding
\* invite dropped in the same write
MutWithPassword(row, hash) == [row EXCEPT !.hash = hash]
WithPassword(row, hash) == [row EXCEPT !.hash = hash, !.invite = None]

\* upgrade_hash(): the same password at today's parameters
Rehashed(row, hash) == [row EXCEPT !.hash = hash]

\* update(): losing_admin and nobody else.  A role or a flag the caller left
\* out keeps its value, which is the choice of the same value again.
MutUpdateAllowed(users, uid, role, disabled) ==
    (Administers(users[uid]) /\ role \notin AdminRoles) => AnotherAdmin(users, uid)
UpdateAllowed(users, uid, role, disabled) ==
    (UsableAdmin(users[uid]) /\ (role \notin AdminRoles \/ disabled))
        => AnotherAdmin(users, uid)
MutUpdated(row, role, disabled) == [row EXCEPT !.role = NoRow, !.disabled = disabled]
Updated(row, role, disabled) == [row EXCEPT !.role = role, !.disabled = disabled]

\* delete()
DeleteAllowed(users, uid) == UsableAdmin(users[uid]) => AnotherAdmin(users, uid)

Put(users, uid, row) == [users EXCEPT ![uid] = row]
===========================================================================
