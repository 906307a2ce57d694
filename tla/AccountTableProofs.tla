------------------------ MODULE AccountTableProofs ------------------------
(* What the table of accounts guarantees, for any number of people, roles  *)
(* and operations.                                                         *)
EXTENDS AccountTable, TLAPS


HashOf(us, uid) == IF us[uid] = NoRow THEN None ELSE us[uid].hash
InviteOf(us, uid) == IF us[uid] = NoRow THEN None ELSE us[uid].invite

\* The row each operation writes.
LEMMA RowsMade ==
    ASSUME NEW row \in Row, NEW n \in Cred, NEW role \in Roles, NEW disabled \in BOOLEAN
    PROVE  /\ Invited(row, n) \in Row
           /\ Invited(row, n).hash = row.hash /\ Invited(row, n).invite = n
           /\ WithPassword(row, n) \in Row
           /\ WithPassword(row, n).hash = n /\ WithPassword(row, n).invite = None
           /\ Rehashed(row, n) \in Row
           /\ Rehashed(row, n).hash = n /\ Rehashed(row, n).invite = row.invite
           /\ Updated(row, role, disabled) \in Row
           /\ Updated(row, role, disabled).hash = row.hash
           /\ Updated(row, role, disabled).invite = row.invite
           /\ Updated(row, role, disabled).role = role
           /\ Updated(row, role, disabled).disabled = disabled
<1>1. n \in Nat /\ None \in Nat
  BY DEF Cred, None
<1> QED BY <1>1 DEF Row, Invited, WithPassword, Rehashed, Updated

\* A live row read field by field, as HashOf and InviteOf read it.
LEMMA RowOfLive ==
    ASSUME NEW us \in UserMaps, NEW uid \in Live(us)
    PROVE  /\ us[uid] \in Row /\ us[uid] # NoRow
           /\ HashOf(us, uid) = us[uid].hash
           /\ InviteOf(us, uid) = us[uid].invite
BY DEF UserMaps, Live, HashOf, InviteOf

\* Membership in Creds, one field at a time.
LEMMA InCreds ==
    ASSUME NEW us, NEW c
    PROVE  c \in Creds(us) <=>
             /\ c # None
             /\ \E u \in Live(us) : us[u].hash = c \/ us[u].invite = c
BY DEF Creds

\* A row written by an operation carries only what the row had and one fresh
\* credential: credentials stay distinct, nothing else appears, and what the
\* row had and has no longer is gone from the table.
LEMMA PutRow ==
    ASSUME NEW us \in UserMaps, NEW uid \in Uids, NEW row \in Row \cup {NoRow},
           NEW n \in Cred,
           CredsDistinct(us), \A c \in Creds(us) : c < n,
           row # NoRow => /\ row.hash \in {None, n, HashOf(us, uid)}
                          /\ row.invite \in {None, n, InviteOf(us, uid)}
                          /\ row.hash = n => row.invite # n
    PROVE  /\ Put(us, uid, row) \in UserMaps
           /\ CredsDistinct(Put(us, uid, row))
           /\ Creds(Put(us, uid, row)) \subseteq Creds(us) \cup {n}
           /\ \A e \in {HashOf(us, uid), InviteOf(us, uid)} :
                row = NoRow \/ (e # row.hash /\ e # row.invite)
                    => e \notin Creds(Put(us, uid, row))
<1> DEFINE new == Put(us, uid, row)
<1>1. new \in UserMaps /\ new[uid] = row /\ \A u \in Uids \ {uid} : new[u] = us[u]
  BY DEF Put, UserMaps
<1>2. \A u \in Live(us) : us[u] \in Row /\ us[u].hash \in Nat /\ us[u].invite \in Nat
  BY DEF Live, UserMaps, Row
<1>3. \A u \in Live(us) : /\ us[u].hash # None => us[u].hash < n
                          /\ us[u].invite # None => us[u].invite < n
  BY InCreds, <1>2
<1>4. Live(new) \ {uid} = Live(us) \ {uid} /\ (uid \in Live(new) <=> row # NoRow)
  BY <1>1 DEF Live
<1>5. /\ HashOf(us, uid) # None => uid \in Live(us) /\ HashOf(us, uid) = us[uid].hash
      /\ InviteOf(us, uid) # None => uid \in Live(us) /\ InviteOf(us, uid) = us[uid].invite
  BY DEF HashOf, InviteOf, Live
<1>6. n # None /\ ~(n < n)
  BY DEF Cred, None
<1>7. CredsDistinct(new)
  <2> SUFFICES ASSUME NEW u \in Live(new), NEW v \in Live(new)
               PROVE  /\ new[u].hash # None => new[u].hash # new[v].invite
                      /\ u # v /\ new[u].hash # None => new[u].hash # new[v].hash
                      /\ u # v /\ new[u].invite # None => new[u].invite # new[v].invite
    BY DEF CredsDistinct
  <2>1. CASE u # uid /\ v # uid
    BY <2>1, <1>1, <1>4 DEF CredsDistinct, Live
  <2>2. CASE u = uid /\ v # uid
    BY <2>2, <1>1, <1>3, <1>4, <1>5, <1>6 DEF CredsDistinct, Live
  <2>3. CASE u # uid /\ v = uid
    BY <2>3, <1>1, <1>3, <1>4, <1>5, <1>6 DEF CredsDistinct, Live
  <2>4. CASE u = uid /\ v = uid
    BY <2>4, <1>1, <1>3, <1>4, <1>5, <1>6 DEF CredsDistinct, Live
  <2> QED BY <2>1, <2>2, <2>3, <2>4
<1>8. Creds(new) \subseteq Creds(us) \cup {n}
  <2> SUFFICES ASSUME NEW c \in Creds(new), c # n PROVE c \in Creds(us)
    OBVIOUS
  <2>1. PICK u \in Live(new) : c # None /\ (new[u].hash = c \/ new[u].invite = c)
    BY InCreds
  <2> QED BY <2>1, <1>1, <1>4, <1>5, InCreds DEF Live
<1>9. ASSUME NEW e \in {HashOf(us, uid), InviteOf(us, uid)},
             row = NoRow \/ (e # row.hash /\ e # row.invite), e \in Creds(new)
      PROVE  FALSE
  <2>1. PICK u \in Live(new) : e # None /\ (new[u].hash = e \/ new[u].invite = e)
    BY <1>9, InCreds
  <2>2. u # uid /\ u \in Live(us) /\ new[u] = us[u]
    BY <2>1, <1>1, <1>4, <1>9 DEF Live
  <2>3. uid \in Live(us) /\ (us[uid].hash = e \/ us[uid].invite = e)
    BY <1>5, <1>9, <2>1
  <2> QED BY <2>1, <2>2, <2>3 DEF CredsDistinct
<1> QED BY <1>1, <1>7, <1>8, <1>9

\* The guards of update() and delete() are enough: whoever else the table
\* holds, no operation takes away the last person who can administer.
LEMMA AdminKept ==
    ASSUME NEW us \in UserMaps, NEW uid \in Uids, NEW row \in Row \cup {NoRow},
           HasAdmin(us),
           uid \in Live(us) /\ UsableAdmin(us[uid])
              => (row # NoRow /\ UsableAdmin(row)) \/ AnotherAdmin(us, uid)
    PROVE  HasAdmin(Put(us, uid, row))
<1>1. PICK u \in Live(us) : UsableAdmin(us[u])
  BY DEF HasAdmin
<1> DEFINE new == Put(us, uid, row)
<1>2. new[uid] = row /\ \A v \in Uids \ {uid} : new[v] = us[v]
  BY DEF Put, UserMaps
<1>3. CASE u # uid
  BY <1>1, <1>2, <1>3 DEF HasAdmin, Live
<1>4. CASE u = uid
  BY <1>1, <1>2, <1>4 DEF HasAdmin, Live, AnotherAdmin
<1> QED BY <1>3, <1>4

---------------------------------------------------------------------------

\* The inductive invariant.  SpentStaysSpent needs that a credential sits in
\* one field of one row, and that the next fresh one was never seen.  That much
\* (TableSound) holds of a table that has lost an update too.
CredsOld == \A c \in Creds(users) \cup spent : c < nextCred
TableSound ==
    /\ TypeOK
    /\ Live(users) \subseteq used
    /\ CredsDistinct(users)
    /\ CredsOld
TableInv == TableSound /\ SpentStaysSpent

\* A start file has distinct credentials, all older than the first fresh one.
LEMMA TableInit == Init => TableInv
<1> SUFFICES ASSUME Init PROVE TableInv
  OBVIOUS
<1> USE DEF TableSound
<1> USE StartAssumption
<1>1. TypeOK
  BY DEF Init, TypeOK, Live, Cred, None
<1>2. CredsDistinct(users) /\ CredsOld /\ SpentStaysSpent
  BY DEF Init, CredsOld, SpentStaysSpent
<1> QED BY <1>1, <1>2 DEF Init, TableInv

\* What all the operations have in common: `row` is written for `uid`, with
\* what the row had or the next fresh credential, and the credentials in
\* `ended` are not in it any more.
Rewrites(uid, row, ended) ==
    /\ users' = Put(users, uid, row)
    /\ uid \in used' /\ used' \in SUBSET Uids /\ used \subseteq used'
    /\ ended \subseteq {HashOf(users, uid), InviteOf(users, uid)}
    /\ spent' = spent \cup (ended \ {None})
    /\ nextCred' \in {nextCred, nextCred + 1}
    /\ row # NoRow =>
         /\ row.hash \in {None, nextCred, HashOf(users, uid)}
         /\ row.invite \in {None, nextCred, InviteOf(users, uid)}
         /\ row.hash = nextCred => row.invite # nextCred
         /\ nextCred \in {row.hash, row.invite} => nextCred' = nextCred + 1
         /\ \A e \in ended : e # None => e # row.hash /\ e # row.invite

\* No credential comes back that an operation put an end to, and none that this
\* step ends is still there.
NothingRevived == spent' \cap Creds(users') \subseteq spent \cap Creds(users)

\* What an operation that writes one row needs for the invariant: a well-typed
\* row that holds nothing new but the fresh credential, and nothing it ended.
LEMMA Rewrite ==
    ASSUME TableSound, NEW uid \in Uids, NEW row \in Row \cup {NoRow}, NEW ended,
           Rewrites(uid, row, ended)
    PROVE  TableSound' /\ NothingRevived
<1> USE DEF Rewrites
<1> USE DEF TableSound
<1>1. nextCred \in Cred /\ nextCred' \in Cred /\ nextCred <= nextCred' /\ users \in UserMaps
  BY DEF TypeOK, Cred, None
<1>2. \A c \in Creds(users) : c < nextCred
  BY DEF CredsOld
<1>3. /\ users' \in UserMaps
      /\ CredsDistinct(users')
      /\ Creds(users') \subseteq Creds(users) \cup {nextCred}
      /\ \A e \in {HashOf(users, uid), InviteOf(users, uid)} :
           row = NoRow \/ (e # row.hash /\ e # row.invite) => e \notin Creds(users')
  BY <1>1, <1>2, PutRow
<1>4. \A c \in ended \ {None} : c \in Creds(users) /\ c \in Cred
  <2>1. \A c \in {HashOf(users, uid), InviteOf(users, uid)} :
          c # None => c \in Creds(users)
    BY InCreds DEF HashOf, InviteOf, Live
  <2>2. Creds(users) \subseteq Cred
    BY <1>1 DEF Creds, Cred, Live, UserMaps, Row
  <2> QED BY <2>1, <2>2
<1>5. TypeOK'
  BY <1>1, <1>3, <1>4 DEF TypeOK
<1>6. Live(users)' \subseteq used'
  BY <1>1 DEF Live, Put, UserMaps
<1>7. nextCred \in Creds(users') => nextCred' = nextCred + 1
  <2> SUFFICES ASSUME nextCred \in Creds(users') PROVE nextCred' = nextCred + 1
    OBVIOUS
  <2>1. PICK u \in Live(users') : users'[u].hash = nextCred \/ users'[u].invite = nextCred
    BY InCreds
  <2>2. CASE u = uid
    BY <2>1, <2>2, <1>1 DEF Live, Put, UserMaps
  <2>3. CASE u # uid
    <3>1. u \in Live(users) /\ users'[u] = users[u]
      BY <2>1, <2>3, <1>1 DEF Live, Put, UserMaps
    <3>2. nextCred \in Creds(users)
      BY <3>1, <2>1, <1>1, InCreds DEF Cred
    <3> QED BY <3>2, <1>2, <1>1 DEF Cred, None
  <2> QED BY <2>2, <2>3
<1>8. CredsOld'
  <2> SUFFICES ASSUME NEW c \in Creds(users') \cup spent' PROVE c < nextCred'
    BY DEF CredsOld
  <2>1. CASE c \in Creds(users) \cup spent
    <3>1. c < nextCred /\ c \in Nat
      BY <2>1, <1>1 DEF CredsOld, Creds, Live, UserMaps, Row, TypeOK, Cred
    <3> QED BY <3>1, <1>1 DEF Cred, None
  <2>2. CASE c = nextCred /\ c \in Creds(users')
    BY <2>2, <1>1, <1>7 DEF Cred, None
  <2> QED BY <2>1, <2>2, <1>3, <1>4
<1>9. NothingRevived
  <2> SUFFICES ASSUME NEW c \in Creds(users'), c \in spent'
               PROVE  c \in spent /\ c \in Creds(users)
    BY DEF NothingRevived
  <2>1. CASE c \in spent
    <3>1. c < nextCred
      BY <2>1 DEF CredsOld
    <3>2. c # nextCred
      BY <3>1, <1>1 DEF Cred, None
    <3> QED BY <2>1, <3>2, <1>3
  <2>2. CASE c \in ended \ {None}
    BY <2>2, <1>3
  <2> QED BY <2>1, <2>2
<1> QED BY <1>3, <1>5, <1>6, <1>8, <1>9

\* Every operation of the table keeps it sound and revives nothing, by Rewrite.
LEMMA SoundStep == TableSound /\ [Next]_tableVars => TableSound' /\ NothingRevived
<1> DEFINE Goal == TableSound' /\ NothingRevived
<1> SUFFICES ASSUME TableSound, [Next]_tableVars PROVE Goal
  OBVIOUS
<1>1. /\ users \in UserMaps /\ used \in SUBSET Uids /\ nextCred \in Cred
      /\ Live(users) \subseteq used
      /\ \A c \in Creds(users) : c < nextCred
  BY DEF TableSound, TypeOK, CredsOld
<1>2. nextCred \in Nat /\ nextCred # None
  BY <1>1 DEF Cred, None
<1>3. ASSUME NEW uid \in Uids, NEW name \in Names, NEW role \in Roles,
             Create(uid, name, role)
      PROVE  Goal
  <2> DEFINE row == NewRow(name, role, nextCred)
  <2>1. row \in Row /\ row.hash = None /\ row.invite = nextCred
    BY <1>2 DEF NewRow, Row, None
  <2>2. Rewrites(uid, row, {})
    BY <1>1, <1>2, <1>3, <2>1 DEF Create, Fresh, Rewrites
  <2> HIDE DEF row
  <2> QED BY <2>1, <2>2, Rewrite
<1>4. ASSUME NEW uid \in Live(users)
      PROVE  /\ users[uid] \in Row /\ uid \in used /\ uid \in Uids
             /\ HashOf(users, uid) = users[uid].hash
             /\ InviteOf(users, uid) = users[uid].invite
             /\ users[uid].hash # None => users[uid].hash # users[uid].invite
             /\ users[uid].hash # nextCred /\ users[uid].invite # nextCred
  <2>1. /\ users[uid].hash # None => users[uid].hash \in Creds(users)
        /\ users[uid].invite # None => users[uid].invite \in Creds(users)
    BY InCreds
  <2> QED BY <1>1, <1>2, <2>1, RowOfLive DEF Live, Row, TableSound, CredsDistinct
<1>5. ASSUME NEW uid \in Live(users), IssueInvite(uid) PROVE Goal
  <2> DEFINE row == Invited(users[uid], nextCred)
  <2>1. row \in Row /\ row.hash = users[uid].hash /\ row.invite = nextCred
    BY <1>1, <1>4, RowsMade DEF Row
  <2>2. Rewrites(uid, row, {users[uid].invite})
    BY <1>1, <1>2, <1>4, <1>5, <2>1 DEF IssueInvite, Fresh, Ends, Rewrites
  <2> HIDE DEF row
  <2> QED BY <1>4, <2>1, <2>2, Rewrite
<1>6. ASSUME NEW uid \in Live(users), RedeemInvite(uid) \/ SetPassword(uid) PROVE Goal
  <2> DEFINE row == WithPassword(users[uid], nextCred)
  <2>1. row \in Row /\ row.hash = nextCred /\ row.invite = None
    BY <1>1, <1>4, RowsMade DEF Row
  <2>2. Rewrites(uid, row, {users[uid].invite, users[uid].hash})
    BY <1>1, <1>2, <1>4, <1>6, <2>1
    DEF RedeemInvite, SetPassword, Fresh, Ends, Rewrites
  <2> HIDE DEF row
  <2> QED BY <1>4, <2>1, <2>2, Rewrite
<1>7. ASSUME NEW uid \in Live(users), UpgradeHash(uid) PROVE Goal
  <2> DEFINE row == Rehashed(users[uid], nextCred)
  <2>1. row \in Row /\ row.hash = nextCred /\ row.invite = users[uid].invite
    BY <1>1, <1>4, RowsMade DEF Row
  <2>2. Rewrites(uid, row, {users[uid].hash})
    BY <1>1, <1>2, <1>4, <1>7, <2>1 DEF UpgradeHash, Fresh, Ends, Rewrites
  <2> HIDE DEF row
  <2> QED BY <1>4, <2>1, <2>2, Rewrite
<1>8. ASSUME NEW uid \in Live(users), NEW role \in Roles, NEW disabled \in BOOLEAN,
             Update(uid, role, disabled)
      PROVE  Goal
  <2> DEFINE row == Updated(users[uid], role, disabled)
  <2>1. row \in Row /\ row.hash = users[uid].hash /\ row.invite = users[uid].invite
    BY <1>1, <1>4, RowsMade DEF Row
  <2>2. Rewrites(uid, row, {})
    BY <1>1, <1>2, <1>4, <1>8, <2>1 DEF Update, Rewrites
  <2> HIDE DEF row
  <2> QED BY <1>4, <2>1, <2>2, Rewrite
<1>9. ASSUME NEW uid \in Live(users), Delete(uid) PROVE Goal
  <2>1. Rewrites(uid, NoRow, {users[uid].invite, users[uid].hash})
    BY <1>1, <1>2, <1>4, <1>9 DEF Delete, Ends, Rewrites
  <2> QED BY <1>4, <2>1, Rewrite
<1>10. CASE UNCHANGED tableVars
  BY <1>10 DEF tableVars, TableSound, TypeOK, CredsOld, NothingRevived
<1> QED BY <1>3, <1>5, <1>6, <1>7, <1>8, <1>9, <1>10 DEF Next

\* A sound table from which nothing spent has come back stays one.
LEMMA TableStep == TableInv /\ [Next]_tableVars => TableInv'
BY SoundStep DEF TableInv, NothingRevived, SpentStaysSpent

\* The table keeps its types, and a credential that was redeemed, replaced or
\* deleted never comes back.
THEOREM TableSafe == Spec => []TableInv
BY TableInit, TableStep, PTL DEF Spec

---------------------------------------------------------------------------
\* update() and delete() are guarded, the others take nobody's role or hash.
LEMMA AdminStep ==
    TableSound /\ [Next]_tableVars => (HasAdmin(users) => HasAdmin(users'))
<1> SUFFICES ASSUME TableSound, [Next]_tableVars, HasAdmin(users) PROVE HasAdmin(users')
  OBVIOUS
<1>1. users \in UserMaps /\ nextCred \in Cred /\ Live(users) \subseteq used
  BY DEF TableSound, TypeOK
<1>2. nextCred \in Nat /\ nextCred # None
  BY <1>1 DEF Cred, None
<1>3. ASSUME NEW uid \in Uids, NEW name \in Names, NEW role \in Roles,
             Create(uid, name, role)
      PROVE  HasAdmin(users')
  <2>1. NewRow(name, role, nextCred) \in Row /\ uid \notin Live(users)
    BY <1>1, <1>2, <1>3 DEF NewRow, Row, None, Create
  <2> QED BY <1>1, <1>3, <2>1, AdminKept DEF Create
<1>4. ASSUME NEW uid \in Live(users) PROVE users[uid] \in Row /\ uid \in Uids
  BY <1>1, RowOfLive DEF Live
<1>5. ASSUME NEW uid \in Live(users),
             \/ IssueInvite(uid) \/ RedeemInvite(uid) \/ SetPassword(uid) \/ UpgradeHash(uid)
      PROVE  HasAdmin(users')
  <2>1. PICK row \in Row : /\ users' = Put(users, uid, row)
                           /\ UsableAdmin(users[uid]) => UsableAdmin(row)
    <3>1. /\ Invited(users[uid], nextCred) \in Row
          /\ WithPassword(users[uid], nextCred) \in Row
          /\ Rehashed(users[uid], nextCred) \in Row
      BY <1>1, <1>4, RowsMade DEF Row
    <3>2. /\ UsableAdmin(users[uid]) => UsableAdmin(Invited(users[uid], nextCred))
          /\ UsableAdmin(users[uid]) => UsableAdmin(WithPassword(users[uid], nextCred))
          /\ UsableAdmin(users[uid]) => UsableAdmin(Rehashed(users[uid], nextCred))
      <4> DEFINE r == users[uid]
      <4>1. r \in Row
        BY <1>4
      <4> HIDE DEF r
      <4>2. /\ UsableAdmin(r) => UsableAdmin(Invited(r, nextCred))
            /\ UsableAdmin(r) => UsableAdmin(WithPassword(r, nextCred))
            /\ UsableAdmin(r) => UsableAdmin(Rehashed(r, nextCred))
        BY <4>1, <1>2 DEF Row, UsableAdmin, Administers, CanSignIn, Invited,
                          WithPassword, Rehashed
      <4> QED BY <4>2 DEF r
    <3> QED BY <3>1, <3>2, <1>5
        DEF IssueInvite, RedeemInvite, SetPassword, UpgradeHash
  <2>2. row # NoRow
    BY NoRowAssumption
  <2> QED BY <1>1, <1>4, <2>1, <2>2, AdminKept
<1>6. ASSUME NEW uid \in Live(users), NEW role \in Roles, NEW disabled \in BOOLEAN,
             Update(uid, role, disabled)
      PROVE  HasAdmin(users')
  <2> DEFINE row == Updated(users[uid], role, disabled)
  <2>1. /\ row \in Row /\ row # NoRow /\ row.hash = users[uid].hash
        /\ row.role = role /\ row.disabled = disabled
    BY <1>1, <1>4, RowsMade, NoRowAssumption DEF Row
  <2>2. UsableAdmin(users[uid]) => UsableAdmin(row) \/ AnotherAdmin(users, uid)
    BY <2>1, <1>6 DEF Update, UpdateAllowed, UsableAdmin, Administers, CanSignIn
  <2> HIDE DEF row
  <2>3. users' = Put(users, uid, row)
    BY <1>6 DEF Update, row
  <2> QED BY <1>1, <1>4, <2>1, <2>2, <2>3, AdminKept
<1>7. ASSUME NEW uid \in Live(users), Delete(uid) PROVE HasAdmin(users')
  BY <1>1, <1>4, <1>7, AdminKept DEF Delete, DeleteAllowed
<1>8. CASE UNCHANGED tableVars
  BY <1>8 DEF tableVars
<1> QED BY <1>3, <1>5, <1>6, <1>7, <1>8 DEF Next

\* Once somebody can sign in and reach the admin portal, somebody always can.
THEOREM TableKeepsAdmin == Spec => AdminSurvives
<1>1. TableInv /\ [Next]_tableVars => [HasAdmin(users) => HasAdmin(users')]_tableVars
  BY AdminStep DEF TableInv
<1> QED BY <1>1, TableSafe, PTL DEF Spec, AdminSurvives
===========================================================================
