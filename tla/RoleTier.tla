----------------------------- MODULE RoleTier -----------------------------
(* Who may decide who may do what, in accounts mode: the role catalogue    *)
(* (roles.py, visibility.py), the two doors to it (PUT /admin/roles of     *)
(* admin_router.py, the routes of accounts_router.py) and the gate in      *)
(* front of them (auth.py).  A role is its grants; a handler runs at once, *)
(* but between the gate, the route's dependency and the handler the loop   *)
(* serves others.                                                          *)
EXTENDS FiniteSets

CONSTANTS
    Accts,             \* accounts there may be
    Ghosts,            \* identities of the policy's people map
    Roles,             \* role ids
    Admin, User,       \* the built-in ones
    Portal, People, Super,   \* admin.portal, admin.accounts, admin.roles
    NoRole, NoAcct, LeftOut, \* no such role, no such account, field left out
    Documents,         \* the `roles` documents an administrator may save
    HiddenBlocks,      \* the roles the pre-roles `hidden` of a document names
    WholeDocuments     \* does every save carry both roles and people?

Grants == {Portal, People, Super}
Stored == [Roles -> (SUBSET Grants) \cup {NoRole}]
RoleMaps == [Ghosts -> Roles \cup {NoRole}]
Account == [role: Roles, enrolled: BOOLEAN, disabled: BOOLEAN]

ASSUME RoleTierAssumption ==
    /\ {Admin, User} \subseteq Roles /\ Admin # User
    /\ Documents \subseteq Stored /\ HiddenBlocks \subseteq SUBSET Roles
    /\ WholeDocuments \in BOOLEAN
    /\ NoAcct \notin Account

VARIABLES
    roles,    \* PolicyStore._roles: stored roles, unchanged built-ins left out
    people,   \* PolicyStore._people: the role each entry names
    acct,     \* the accounts
    req       \* per account: the request it has under way
tierVars == <<roles, people, acct, req>>

NoReq == [door |-> "none", stage |-> "none", role |-> User]
Requests == [door: {"roles", "accounts"}, stage: {"gated", "admitted"}, role: Roles]
            \cup {NoReq}

---------------------------------------------------------------------------
\* roles.resolve() and grants_of(): the built-ins unless a stored role of the
\* same id replaces them; a role that does not resolve confers nothing
BuiltinRoles == [r \in Roles |->
    CASE r = Admin -> Grants [] r = User -> {} [] OTHER -> NoRole]
RolesInForce(stored) == [r \in Roles |-> IF stored[r] # NoRole THEN stored[r] ELSE BuiltinRoles[r]]
Confers(stored, r) ==
    IF r \in Roles /\ RolesInForce(stored)[r] # NoRole THEN RolesInForce(stored)[r] ELSE {}
\* _migrate_hidden(): a role that `hidden` names and nobody stored becomes one,
\* with the grants of the built-in of that id or none (what it shows is left out)
MigratedHidden(doc, hid) == [r \in Roles |->
    IF r \in hid /\ doc[r] = NoRole
    THEN IF BuiltinRoles[r] = NoRole THEN {} ELSE BuiltinRoles[r]
    ELSE doc[r]]
\* save(): an unchanged built-in is not written back
UnechoedRoles(doc) == [r \in Roles |-> IF doc[r] = BuiltinRoles[r] THEN NoRole ELSE doc[r]]

Present == {x \in Accts : acct[x] # NoAcct}
CanSignIn(x) == x \in Present /\ acct[x].enrolled /\ ~acct[x].disabled
Usable == {x \in Accts : CanSignIn(x)}
Has(x, g) == g \in Confers(roles, acct[x].role)

Carriers(stored) == {r \in Roles : Super \in Confers(stored, r)}
\* grant_is_claimed(): an entry of the people map counts, whoever it names
Claimed ==
    \/ \E g \in Ghosts : people[g] \in Carriers(roles)
    \/ \E x \in Usable : Has(x, Super)

TierInit ==
    /\ roles = [r \in Roles |-> NoRole]
    /\ people = [g \in Ghosts |-> NoRole]
    /\ \E x \in Accts :
          acct = [y \in Accts |-> IF y = x
                    THEN [role |-> Admin, enrolled |-> TRUE, disabled |-> FALSE]
                    ELSE NoAcct]
    /\ req = [x \in Accts |-> NoReq]

---------------------------------------------------------------------------
\* GateMiddleware: the principal, with the role the account has now.
Begin(x, door) ==
    /\ x \in Usable /\ req[x] = NoReq
    /\ req' = [req EXCEPT ![x] = [door |-> door, stage |-> "gated", role |-> acct[x].role]]
    /\ UNCHANGED <<roles, people, acct>>

\* What the caller holds: the role the gate took down, as it is in force now.
Held(x) == Confers(roles, req[x].role)

\* require_grants(), run in a worker thread
Needed(door) == IF door = "roles" THEN {Portal} ELSE {Portal, People}
Admit(x) ==
    /\ req[x].stage = "gated"
    /\ req' = [req EXCEPT ![x] =
          IF Needed(@.door) \subseteq Held(x) THEN [@ EXCEPT !.stage = "admitted"] ELSE NoReq]
    /\ UNCHANGED <<roles, people, acct>>

At(x, door) == req[x].door = door /\ req[x].stage = "admitted"
Answered(x) == req' = [req EXCEPT ![x] = NoReq]

\* A handler that refuses has changed nothing.
Refused(x) ==
    /\ req[x].stage = "admitted"
    /\ Answered(x)
    /\ UNCHANGED <<roles, people, acct>>

---------------------------------------------------------------------------
\* PUT /admin/roles.  _role_authority, with its bootstrap rule
MutMayEdit(x) == TRUE
MayEdit(x) == Super \in Held(x) \/ ~Claimed

\* rule 1: the roles in force would change
EditsRoles(doc) == doc # LeftOut /\ RolesInForce(doc) # RolesInForce(roles)

\* rule 2: what each changed assignment would add or take away
Moved(g, ppl) ==
    LET was == Confers(roles, people[g])
        now == Confers(roles, ppl[g])
    IN  (was \ now) \cup (now \ was)
Beyond(x, ppl) == (UNION {Moved(g, ppl) : g \in {h \in Ghosts : people[h] # ppl[h]}}) \ Held(x)

\* _guard_last_super: a document that defines a role that carries Super but
\* leaves it to nobody
MutOrphans(doc, ppl) ==
    LET after == Carriers(IF doc = LeftOut THEN roles ELSE doc) IN
    /\ Claimed /\ after # {}
    /\ \A g \in Ghosts : ppl[g] \notin after
    /\ \A x \in Present : acct[x].role \notin after
Orphans(doc, ppl) ==
    LET after == Carriers(IF doc = LeftOut THEN roles ELSE doc) IN
    /\ Claimed /\ after # {}
    /\ \A g \in Ghosts : ppl[g] \notin after
    /\ \A x \in Usable : acct[x].role \notin after

\* _require_role_authority: without a people map, rule 1 is all it asks
Permitted(x, doc, ppl) ==
    /\ EditsRoles(doc) => MayEdit(x)
    /\ ppl # LeftOut =>
          /\ MayEdit(x) \/ Beyond(x, ppl) = {}
          /\ ~Orphans(doc, ppl)

\* put_roles() and save(): what is judged is the document, what is written also
\* has the roles that its `hidden` names.
PutRoles(x, doc, ppl, hid) ==
    /\ At(x, "roles")
    /\ WholeDocuments => LeftOut \notin {doc, ppl}
    /\ Permitted(x, doc, ppl)
    /\ roles' = UnechoedRoles(MigratedHidden(IF doc = LeftOut THEN roles ELSE doc, hid))
    /\ people' = IF ppl = LeftOut THEN people ELSE ppl
    /\ Answered(x)
    /\ UNCHANGED acct

---------------------------------------------------------------------------
\* accounts_router.  _guard_role_assignment and may_grant: only the new role
\* is looked at, and a holder of Super may assign anything
MutMayAssign(x, r) == RolesInForce(roles)[r] # NoRole
MayAssign(x, r) ==
    /\ RolesInForce(roles)[r] # NoRole
    /\ Super \in Held(x) \/ Confers(roles, r) \subseteq Held(x)

\* accounts_router._guard_last_super, on a change of role only
LastSuper(y, r) ==
    /\ Claimed /\ Super \notin Confers(roles, r)
    /\ Has(y, Super)
    /\ \A z \in Usable \ {y} : ~Has(z, Super)

\* AccountStore's last-admin guard: y can sign in and administer, and nobody else
LastAdmin(y) ==
    /\ CanSignIn(y) /\ Has(y, Portal)
    /\ \A z \in Usable \ {y} : ~Has(z, Portal)

Create(x, y, r) ==
    /\ At(x, "accounts") /\ y \notin Present
    /\ MayAssign(x, r)
    /\ acct' = [acct EXCEPT ![y] = [role |-> r, enrolled |-> FALSE, disabled |-> FALSE]]
    /\ Answered(x)
    /\ UNCHANGED <<roles, people>>

\* PATCH: a role, a flag, or both
Patch(x, y, r, dis) ==
    LET role == IF r = LeftOut THEN acct[y].role ELSE r
        off == IF dis = LeftOut THEN acct[y].disabled ELSE dis IN
    /\ At(x, "accounts") /\ y \in Present
    /\ {r, dis} # {LeftOut}
    /\ r # LeftOut => MayAssign(x, r) /\ ~LastSuper(y, r)
    /\ (off \/ Portal \notin Confers(roles, role)) => ~LastAdmin(y)
    /\ acct' = [acct EXCEPT ![y].role = role, ![y].disabled = off]
    /\ Answered(x)
    /\ UNCHANGED <<roles, people>>

MutDelete(x, y) ==
    /\ At(x, "accounts") /\ y \in Present
    /\ acct' = [acct EXCEPT ![y] = NoAcct]
    /\ Answered(x)
    /\ UNCHANGED <<roles, people>>
Delete(x, y) ==
    /\ At(x, "accounts") /\ y \in Present
    /\ ~LastAdmin(y)
    /\ acct' = [acct EXCEPT ![y] = NoAcct]
    /\ Answered(x)
    /\ UNCHANGED <<roles, people>>

\* redeem_invite(): the invited person chooses a password
Enrol(y) ==
    /\ y \in Present /\ ~acct[y].enrolled /\ ~acct[y].disabled
    /\ acct' = [acct EXCEPT ![y].enrolled = TRUE]
    /\ UNCHANGED <<roles, people, req>>

Handle(x) ==
    \/ \E doc \in Documents \cup {LeftOut}, ppl \in RoleMaps \cup {LeftOut}, hid \in HiddenBlocks :
          PutRoles(x, doc, ppl, hid)
    \/ \E y \in Accts :
          \/ \E r \in Roles : Create(x, y, r)
          \/ \E r \in Roles \cup {LeftOut}, dis \in BOOLEAN \cup {LeftOut} : Patch(x, y, r, dis)
          \/ Delete(x, y)

TierNext ==
    \E x \in Accts :
       \/ \E door \in {"roles", "accounts"} : Begin(x, door)
       \/ Admit(x) \/ Handle(x) \/ Refused(x) \/ Enrol(x)

TierSpec == TierInit /\ [][TierNext]_tierVars

---------------------------------------------------------------------------
\* The types of the policy, the accounts and the requests; a built-in is
\* stored only when it was changed.
TypeOK ==
    /\ roles \in Stored /\ \A r \in Roles : roles[r] # NoRole => roles[r] # BuiltinRoles[r]
    /\ people \in RoleMaps
    /\ acct \in [Accts -> Account \cup {NoAcct}]
    /\ req \in [Accts -> Requests]

\* What a person's role confers: an account's, and an entry of the people map.
AccountGrants(x) == IF x \in Present THEN Confers(roles, acct[x].role) ELSE {}
Answers(x) == req[x].stage = "admitted" /\ req'[x] = NoReq

\* "Bounded: you may only hand out a role whose capabilities you hold
\* yourself": while the tier exists, what a caller without admin.roles does,
\* at either door, gives nobody a grant beyond the caller's own.
NoEscalation ==
    [][\A x \in Accts : Answers(x) /\ Claimed /\ Super \notin Held(x) =>
         /\ \A y \in Accts : AccountGrants(y)' \ AccountGrants(y) \subseteq Held(x)
         /\ \A g \in Ghosts :
               Confers(roles, people[g])' \ Confers(roles, people[g]) \subseteq Held(x)]_tierVars

\* "Nobody may leave the super tier empty once it exists": while the same
\* people can sign in, no save and no change of a role leaves a role that
\* carries admin.roles to nobody.
TierSurvives ==
    [][Usable' = Usable /\ Claimed /\ Carriers(roles') # {} => Claimed']_tierVars

\* No operation on accounts leaves nobody who can administer: what
\* administering means is read from the catalogue in force.
PortalKept ==
    [][roles' = roles /\ (\E x \in Usable : Has(x, Portal))
          => \E x \in Usable' : Has(x, Portal)']_tierVars

\* What the catalogue's first rule keeps: unless nobody holds admin.roles, only
\* a holder's answer changes what a role confers, or makes one but for a role
\* that confers nothing.
ByHolder == \E x \in Accts : Answers(x) /\ Super \in Held(x)
CatalogueGuarded ==
    [][Claimed /\ ~ByHolder => \A r \in Roles :
          \/ RolesInForce(roles')[r] = RolesInForce(roles)[r]
          \/ RolesInForce(roles)[r] = NoRole /\ RolesInForce(roles')[r] = {}]_tierVars
===========================================================================
