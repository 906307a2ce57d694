--------------------------- MODULE AccountTable ---------------------------
(* What AccountStore promises its callers: one table of accounts, changed  *)
(* by one operation at a time, each deciding on the table as it is.  No    *)
(* file, no cache, no second process.  AccountStore is shown to implement  *)
(* it but for the renames of a process that another's has overtaken.       *)
EXTENDS AccountOps

VARIABLES
    users,     \* the accounts
    used,      \* ids handed out so far
    nextCred,  \* next fresh credential
    spent      \* credentials an operation has put an end to (history)
tableVars == <<users, used, nextCred, spent>>

Init ==
    /\ users \in StartUsers
    /\ used = Live(users)
    /\ nextCred = FirstCred
    /\ spent = {}

Fresh == nextCred < MaxCred /\ nextCred' = nextCred + 1
Ends(cs) == spent' = spent \cup (cs \ {None})

Create(uid, name, role) ==
    /\ uid \notin used
    /\ NameFree(users, name)
    /\ Fresh
    /\ users' = Put(users, uid, NewRow(name, role, nextCred))
    /\ used' = used \cup {uid}
    /\ UNCHANGED spent

IssueInvite(uid) ==
    /\ Fresh
    /\ users' = Put(users, uid, Invited(users[uid], nextCred))
    /\ Ends({users[uid].invite})
    /\ UNCHANGED used

\* redeem_invite() and set_password() store the same row; the first needs a
\* live invite on an account that is not disabled, the second a current password.
RedeemInvite(uid) ==
    /\ users[uid].invite # None /\ ~users[uid].disabled
    /\ Fresh
    /\ users' = Put(users, uid, WithPassword(users[uid], nextCred))
    /\ Ends({users[uid].invite, users[uid].hash})
    /\ UNCHANGED used

SetPassword(uid) ==
    /\ users[uid].hash # None
    /\ Fresh
    /\ users' = Put(users, uid, WithPassword(users[uid], nextCred))
    /\ Ends({users[uid].invite, users[uid].hash})
    /\ UNCHANGED used

UpgradeHash(uid) ==
    /\ users[uid].hash # None
    /\ Fresh
    /\ users' = Put(users, uid, Rehashed(users[uid], nextCred))
    /\ Ends({users[uid].hash})
    /\ UNCHANGED used

Update(uid, role, disabled) ==
    /\ UpdateAllowed(users, uid, role, disabled)
    /\ users' = Put(users, uid, Updated(users[uid], role, disabled))
    /\ UNCHANGED <<used, nextCred, spent>>

Delete(uid) ==
    /\ DeleteAllowed(users, uid)
    /\ users' = Put(users, uid, NoRow)
    /\ Ends({users[uid].invite, users[uid].hash})
    /\ UNCHANGED <<used, nextCred>>

Next ==
    \/ \E uid \in Uids, name \in Names, role \in Roles : Create(uid, name, role)
    \/ \E uid \in Live(users) :
          \/ IssueInvite(uid)
          \/ RedeemInvite(uid)
          \/ SetPassword(uid)
          \/ UpgradeHash(uid)
          \/ \E role \in Roles, disabled \in BOOLEAN : Update(uid, role, disabled)
          \/ Delete(uid)

Spec == Init /\ [][Next]_tableVars

---------------------------------------------------------------------------
\* The table's types: rows for known ids, numbered credentials.
TypeOK ==
    /\ users \in UserMaps
    /\ used \subseteq Uids
    /\ nextCred \in Cred
    /\ spent \subseteq Cred

\* A credential an operation has put an end to is never in the table again.
SpentStaysSpent == Creds(users) \cap spent = {}

\* Once somebody can sign in and reach the admin portal, somebody always can.
AdminSurvives == [][HasAdmin(users) => HasAdmin(users')]_tableVars
===========================================================================
