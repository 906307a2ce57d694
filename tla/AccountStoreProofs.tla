------------------------ MODULE AccountStoreProofs ------------------------
(* The file and its caches, for any number of processes whose operations   *)
(* overlap as they like.  A process that was not overtaken works on the    *)
(* rows of the file as it is, so what it writes is an operation of the     *)
(* table, and what AccountTableProofs proves of a step of the table holds  *)
(* of its rename.                                                          *)
EXTENDS AccountStore, TLAPS

TableOf == INSTANCE AccountTableProofs WITH users <- disk.users

\* No stamp anybody remembers is newer than the file's, and whoever was not
\* overtaken works on the rows of the file as it is.
OldStamps == \A p \in Procs : cache[p].stamp <= disk.stamp /\ snap[p] <= disk.stamp
WorksOnFile ==
    \A p \in Procs \ overtaken :
        /\ pc[p] = "changing" => cache[p].ok = disk.ok /\ cache[p].users = Seen
        /\ pc[p] = "replaced" => disk.ok /\ cache[p].users = disk.users
FileInv == TypeOK /\ OldStamps /\ WorksOnFile /\ CacheCoherent

\* Every table that is on the file or in somebody's hands, an old one too, holds
\* each credential once and none that is still to come.
Sound(us) ==
    /\ us \in UserMaps
    /\ Live(us) \subseteq used
    /\ CredsDistinct(us)
    /\ \A c \in Creds(us) : c < nextCred
SoundAfter(us) ==    \* the same after the step
    /\ us \in UserMaps
    /\ Live(us) \subseteq used'
    /\ CredsDistinct(us)
    /\ \A c \in Creds(us) : c < nextCred'
TablesSound ==
    /\ Sound(disk.users)
    /\ \A p \in Procs : Sound(cache[p].users)
    /\ \A c \in spent : c < nextCred
StoreInv == FileInv /\ TablesSound

\* A fresh process has read nothing, so its copy claims nothing.
LEMMA StoreInit == Init => FileInv
<1> SUFFICES ASSUME Init PROVE FileInv
  OBVIOUS
<1>1. NoUsers \in UserMaps
  BY DEF NoUsers, UserMaps
<1>2. TypeOK
  <2>1. Empty \in [stamp: -1..MaxStamp, ok: BOOLEAN, users: UserMaps] /\ 0 \in 0..MaxStamp
    BY <1>1, StoreAssumption DEF Empty, Unread
  <2>2. PICK start \in StartUsers : disk = [stamp |-> 0, ok |-> TRUE, users |-> start]
    BY DEF Init
  <2>3. start \in UserMaps /\ disk \in [stamp: 0..MaxStamp, ok: BOOLEAN, users: UserMaps]
    BY <2>1, <2>2, StartAssumption
  <2> QED BY <2>1, <2>3, StartAssumption DEF Init, TypeOK, Live
<1>3. \A p \in Procs : cache[p].stamp = -1 /\ snap[p] = 0 /\ pc[p] = "idle"
  BY DEF Init, Empty, Unread
<1>4. disk.stamp = 0
  BY DEF Init
<1> QED BY <1>2, <1>3, <1>4
    DEF FileInv, OldStamps, WorksOnFile, CacheCoherent

\* What keeps the other processes' halves of the invariant when p alone moves
\* and the file is left as it is.
LEMMA LocalStep ==
    ASSUME FileInv, NEW p \in Procs, NEW c, NEW s, NEW l,
           UNCHANGED <<disk, table>>,
           cache' = [cache EXCEPT ![p] = c], snap' = [snap EXCEPT ![p] = s], Goto(p, l),
           overtaken' \in {overtaken, overtaken \ {p}},
           c \in [stamp: -1..MaxStamp, ok: BOOLEAN, users: UserMaps], c.stamp <= disk.stamp,
           s \in 0..MaxStamp, s <= disk.stamp,
           l \in Mutating \cup {"idle", "looking"},
           p \notin overtaken' =>
              (c.stamp = disk.stamp \/ l = "changing" => c.ok = disk.ok /\ c.users = Seen),
           l # "replaced"
    PROVE  FileInv'
<1> USE DEF FileInv
<1>1. /\ cache'[p] = c /\ snap'[p] = s /\ pc'[p] = l
      /\ \A q \in Procs \ {p} : /\ cache'[q] = cache[q] /\ snap'[q] = snap[q]
                                /\ pc'[q] = pc[q] /\ (q \in overtaken' <=> q \in overtaken)
  BY DEF TypeOK, Goto
<1>2. TypeOK'
  BY DEF TypeOK, Goto, table
<1>3. OldStamps'
  BY <1>1 DEF OldStamps
<1>4. WorksOnFile'
  BY <1>1 DEF WorksOnFile, Seen
<1>5. CacheCoherent'
  BY <1>1 DEF CacheCoherent, Seen
<1> QED BY <1>2, <1>3, <1>4, <1>5

\* A rename overtakes whoever works on the file it takes away, and the stamp it
\* makes is new to everybody.
LEMMA ReplaceStep ==
    ASSUME FileInv, NEW p \in Procs, NEW new \in UserMaps, Replace(p, new),
           used' \in SUBSET Uids, nextCred' \in Cred, spent' \in SUBSET Cred
    PROVE  FileInv'
<1> USE DEF FileInv
<1>1. /\ cache'[p] = [cache[p] EXCEPT !.users = new] /\ pc'[p] = "replaced"
      /\ \A q \in Procs \ {p} : cache'[q] = cache[q] /\ pc'[q] = pc[q]
      /\ snap' = snap
  BY DEF TypeOK, Goto, Replace
<1>2. /\ disk.stamp \in Nat /\ disk.stamp + 1 \in 0..MaxStamp
      /\ disk' = [stamp |-> disk.stamp + 1, ok |-> TRUE, users |-> new]
  BY StoreAssumption DEF TypeOK, Replace
<1>3. \A q \in Procs : cache[q] \in [stamp: -1..MaxStamp, ok: BOOLEAN, users: UserMaps]
  BY DEF TypeOK
<1>4. \A q \in Procs : cache'[q].stamp = cache[q].stamp /\ snap[q] \in 0..MaxStamp
  BY <1>1, <1>3 DEF TypeOK
<1>5. TypeOK'
  <2>1. [cache[p] EXCEPT !.users = new] \in [stamp: -1..MaxStamp, ok: BOOLEAN, users: UserMaps]
    BY <1>3
  <2>2. overtaken' \subseteq Procs
    BY DEF TypeOK, Replace, AtWork
  <2> QED BY <1>1, <1>2, <2>1, <2>2 DEF TypeOK, Replace, Goto, Mutating
<1>7. OldStamps'
  BY <1>1, <1>2, <1>3, <1>4 DEF OldStamps
<1>8. WorksOnFile'
  <2>1. \A q \in Procs \ overtaken' : q # p => pc'[q] \notin {"changing", "replaced"}
    BY <1>1 DEF Replace, AtWork
  <2>2. disk'.ok /\ cache'[p].users = disk'.users
    BY <1>1, <1>2, <1>3
  <2> QED BY <1>1, <2>1, <2>2 DEF WorksOnFile
<1>9. CacheCoherent'
  <2>1. \A q \in Procs : cache'[q].stamp < disk'.stamp
    BY <1>2, <1>3, <1>4 DEF OldStamps
  <2> QED BY <2>1, <1>2, <1>3, <1>4 DEF CacheCoherent
<1> QED BY <1>5, <1>7, <1>8, <1>9

\* What the operations have in common: p writes `row` over its own copy of the
\* account, with the credentials that row had or a fresh one; what is ended is
\* what the row held.
Writing(p, uid, row) ==
    /\ row \in Row \cup {NoRow}
    /\ Edit(p, uid, row)
    /\ uid \in used' /\ used' \in SUBSET Uids /\ used \subseteq used'
    /\ nextCred' \in {nextCred, nextCred + 1}
    /\ row # NoRow =>
         /\ row.hash \in {None, nextCred, TableOf!HashOf(cache[p].users, uid)}
         /\ row.invite \in {None, nextCred, TableOf!InviteOf(cache[p].users, uid)}
         /\ row.hash = nextCred => row.invite # nextCred
         /\ nextCred \in {row.hash, row.invite} => nextCred' = nextCred + 1
    /\ \A c \in spent' : \/ c \in spent
                          \/ /\ c \in Cred
                             /\ c \in {TableOf!HashOf(cache[p].users, uid),
                                       TableOf!InviteOf(cache[p].users, uid)}

\* The rows the operations make, and their two credentials.
LEMMA TableRows ==
    ASSUME NEW row \in Row, NEW n \in Nat
    PROVE  /\ Invited(row, n) \in Row
           /\ Invited(row, n).hash = row.hash /\ Invited(row, n).invite = n
           /\ WithPassword(row, n) \in Row
           /\ WithPassword(row, n).hash = n /\ WithPassword(row, n).invite = None
           /\ Rehashed(row, n) \in Row
           /\ Rehashed(row, n).hash = n /\ Rehashed(row, n).invite = row.invite
           /\ \A role \in Roles, disabled \in BOOLEAN :
                 /\ Updated(row, role, disabled) \in Row
                 /\ Updated(row, role, disabled).hash = row.hash
                 /\ Updated(row, role, disabled).invite = row.invite
BY DEF Row, Invited, WithPassword, Rehashed, Updated, None

\* Each operation of each process is such a write.
LEMMA ChangeWrites ==
    ASSUME StoreInv, NEW p \in Procs, NEW uid \in Uids, Change(p, uid)
    PROVE  \E row : Writing(p, uid, row)
<1> DEFINE us == cache[p].users
           r == us[uid]
           n == nextCred
<1>1. /\ us \in UserMaps /\ n \in Cred /\ used \in SUBSET Uids
      /\ Live(us) \subseteq used /\ CredsDistinct(us) /\ \A c \in Creds(us) : c < n
  BY DEF StoreInv, TablesSound, Sound, FileInv, TypeOK
<1>2. n \in Nat /\ n # None /\ ~(n < n)
  BY <1>1 DEF Cred, None
<1>3. ASSUME uid \in Known(p)
      PROVE  /\ r \in Row /\ uid \in used /\ RowOf(p, uid) = r
             /\ TableOf!HashOf(us, uid) = r.hash /\ TableOf!InviteOf(us, uid) = r.invite
             /\ r.hash # n /\ r.invite # n
             /\ r.hash # None => r.hash \in Cred
             /\ r.invite # None => r.invite \in Cred
  <2>1. uid \in Live(us) /\ r \in Row /\ r # NoRow
    BY <1>1, <1>3 DEF Known, Live, UserMaps
  <2>2. r.hash \in Nat /\ r.invite \in Nat
    BY <2>1 DEF Row
  <2>3. (r.hash # None => r.hash \in Creds(us)) /\ (r.invite # None => r.invite \in Creds(us))
    BY <2>1 DEF Creds
  <2>4. r.hash # n /\ r.invite # n
    BY <1>1, <1>2, <2>3
  <2> QED BY <1>1, <2>1, <2>2, <2>4
      DEF RowOf, TableOf!HashOf, TableOf!InviteOf, Cred, None
<1>4. ASSUME NEW name \in Names, NEW role \in Roles, Create(p, uid, name, role)
      PROVE  \E row : Writing(p, uid, row)
  <2> DEFINE row == NewRow(name, role, n)
  <2>1. row \in Row /\ row.hash = None /\ row.invite = n
    BY <1>2 DEF NewRow, Row, None
  <2>2. Edit(p, uid, row) /\ used' = used \cup {uid} /\ n' = n + 1 /\ spent' = spent
    BY <1>4 DEF Create, Fresh
  <2> HIDE DEF row
  <2>3. Writing(p, uid, row)
    BY <1>1, <1>2, <2>1, <2>2 DEF Writing
  <2> QED BY <2>3
<1>5. ASSUME IssueInvite(p, uid) PROVE \E row : Writing(p, uid, row)
  <2> DEFINE row == Invited(r, n)
  <2>1. uid \in Known(p)
    BY <1>5 DEF IssueInvite
  <2>2. row \in Row /\ row.hash = r.hash /\ row.invite = n
    BY <1>2, <1>3, <2>1, TableRows
  <2>3. /\ Edit(p, uid, row) /\ used' = used /\ n' = n + 1
        /\ \A c \in spent' : c \in spent \/ (c = r.invite /\ c # None)
    BY <1>3, <1>5, <2>1 DEF IssueInvite, Fresh, Ends
  <2> HIDE DEF row
  <2>4. Writing(p, uid, row)
    BY <1>1, <1>2, <1>3, <2>1, <2>2, <2>3 DEF Writing
  <2> QED BY <2>4
<1>6. ASSUME p = Server, RedeemInvite(uid) \/ SetPassword(uid)
      PROVE  \E row : Writing(p, uid, row)
  <2> DEFINE row == WithPassword(r, n)
  <2>1. uid \in Known(p)
    BY <1>6 DEF RedeemInvite, SetPassword
  <2>2. row \in Row /\ row.hash = n /\ row.invite = None
    BY <1>2, <1>3, <2>1, TableRows
  <2>3. /\ Edit(p, uid, row) /\ used' = used /\ n' = n + 1
        /\ \A c \in spent' : c \in spent \/ (c \in {r.invite, r.hash} /\ c # None)
    BY <1>3, <1>6, <2>1 DEF RedeemInvite, SetPassword, Fresh, Ends
  <2> HIDE DEF row
  <2>4. Writing(p, uid, row)
    BY <1>1, <1>2, <1>3, <2>1, <2>2, <2>3 DEF Writing
  <2> QED BY <2>4
<1>7. ASSUME p = Server, UpgradeHash(uid) PROVE \E row : Writing(p, uid, row)
  <2> DEFINE row == Rehashed(r, n)
  <2>1. uid \in Known(p)
    BY <1>7 DEF UpgradeHash
  <2>2. row \in Row /\ row.hash = n /\ row.invite = r.invite
    BY <1>2, <1>3, <2>1, TableRows
  <2>3. /\ Edit(p, uid, row) /\ used' = used /\ n' = n + 1
        /\ \A c \in spent' : c \in spent \/ (c = r.hash /\ c # None)
    BY <1>3, <1>7, <2>1 DEF UpgradeHash, Fresh, Ends
  <2> HIDE DEF row
  <2>4. Writing(p, uid, row)
    BY <1>1, <1>2, <1>3, <2>1, <2>2, <2>3 DEF Writing
  <2> QED BY <2>4
<1>8. ASSUME NEW role \in Roles, NEW disabled \in BOOLEAN, Update(p, uid, role, disabled)
      PROVE  \E row : Writing(p, uid, row)
  <2> DEFINE row == Updated(r, role, disabled)
  <2>1. uid \in Known(p)
    BY <1>8 DEF Update
  <2>2. row \in Row /\ row.hash = r.hash /\ row.invite = r.invite
    BY <1>2, <1>3, <2>1, TableRows
  <2>3. Edit(p, uid, row) /\ used' = used /\ n' = n /\ spent' = spent
    BY <1>3, <1>8, <2>1 DEF Update, table
  <2> HIDE DEF row
  <2>4. Writing(p, uid, row)
    BY <1>1, <1>2, <1>3, <2>1, <2>2, <2>3 DEF Writing
  <2> QED BY <2>4
<1>9. ASSUME Delete(p, uid) PROVE \E row : Writing(p, uid, row)
  <2>1. uid \in Known(p)
    BY <1>9 DEF Delete
  <2>2. /\ Edit(p, uid, NoRow) /\ used' = used /\ n' = n
        /\ \A c \in spent' : c \in spent \/ (c \in {r.invite, r.hash} /\ c # None)
    BY <1>3, <1>9, <2>1 DEF Delete, Ends
  <2>3. Writing(p, uid, NoRow)
    BY <1>1, <1>3, <2>1, <2>2 DEF Writing
  <2> QED BY <2>3
<1> QED BY <1>4, <1>5, <1>6, <1>7, <1>8, <1>9 DEF Change

\* The instance's assumptions are the store's own.
LEMMA SameAssumptions ==
    TableOf!RolesAssumption /\ TableOf!NoRowAssumption /\ TableOf!StartAssumption
BY RolesAssumption, NoRowAssumption, StartAssumption
DEF TableOf!RolesAssumption, TableOf!NoRowAssumption, TableOf!StartAssumption,
    Row, UserMaps, Live, Creds, Cred, None, CredsDistinct,
    TableOf!Row, TableOf!UserMaps, TableOf!Live, TableOf!Creds, TableOf!Cred,
    TableOf!None, TableOf!CredsDistinct

\* The operators of the instance are those of AccountOps.
LEMMA SameOps ==
    ASSUME NEW us, NEW uid, NEW row, NEW n, NEW role, NEW disabled
    PROVE  /\ TableOf!Live(us) = Live(us)
           /\ TableOf!Put(us, uid, row) = Put(us, uid, row)
           /\ TableOf!NameFree(us, n) = NameFree(us, n)
           /\ TableOf!NewRow(n, role, row) = NewRow(n, role, row)
           /\ TableOf!Invited(row, n) = Invited(row, n)
           /\ TableOf!WithPassword(row, n) = WithPassword(row, n)
           /\ TableOf!Rehashed(row, n) = Rehashed(row, n)
           /\ TableOf!Updated(row, role, disabled) = Updated(row, role, disabled)
           /\ TableOf!UpdateAllowed(us, uid, role, disabled)
                = UpdateAllowed(us, uid, role, disabled)
           /\ TableOf!DeleteAllowed(us, uid) = DeleteAllowed(us, uid)
           /\ TableOf!HasAdmin(us) = HasAdmin(us)
           /\ TableOf!Creds(us) = Creds(us)
           /\ TableOf!None = None
           /\ TableOf!CredsDistinct(us) = CredsDistinct(us)
           /\ TableOf!UserMaps = UserMaps
BY DEF TableOf!Live, TableOf!Put, TableOf!NameFree, TableOf!NewRow, TableOf!Invited,
       TableOf!WithPassword, TableOf!Rehashed, TableOf!Updated, TableOf!UpdateAllowed,
       TableOf!DeleteAllowed, TableOf!HasAdmin, TableOf!Creds, TableOf!None,
       TableOf!CredsDistinct, TableOf!UserMaps, TableOf!Row, CredsDistinct, UserMaps, Row,
       TableOf!UsableAdmin, TableOf!Administers, TableOf!CanSignIn, TableOf!AnotherAdmin,
       Live, Put, NameFree, NewRow, Invited, WithPassword, Rehashed, Updated,
       UpdateAllowed, DeleteAllowed, HasAdmin, Creds, None,
       UsableAdmin, Administers, CanSignIn, AnotherAdmin

\* No operation spoils a table, however old the copy it decides on.
LEMMA SoundWrite ==
    ASSUME StoreInv, NEW p \in Procs, NEW uid \in Uids, NEW row, Writing(p, uid, row)
    PROVE  SoundAfter(Put(cache[p].users, uid, row))
<1> DEFINE us == cache[p].users
           new == Put(us, uid, row)
           n == nextCred
<1>1. /\ us \in UserMaps /\ n \in Cred /\ Live(us) \subseteq used /\ CredsDistinct(us)
      /\ \A c \in Creds(us) : c < n
  BY DEF StoreInv, TablesSound, Sound, FileInv, TypeOK
<1>2. n \in Nat /\ n' \in Nat /\ n <= n' /\ ~(n < n)
  BY <1>1 DEF Writing, Cred
<1>3. /\ new \in UserMaps /\ CredsDistinct(new) /\ Creds(new) \subseteq Creds(us) \cup {n}
  <2>1. row \in TableOf!Row \cup {NoRow} /\ us \in TableOf!UserMaps /\ n \in TableOf!Cred
    BY <1>1 DEF Writing, TableOf!Row, TableOf!UserMaps, TableOf!Cred, TableOf!None,
                Row, UserMaps, Cred, None
  <2>2. TableOf!CredsDistinct(us) /\ \A c \in TableOf!Creds(us) : c < n
    BY <1>1, SameOps
  <2>3. row # NoRow => /\ row.hash \in {TableOf!None, n, TableOf!HashOf(us, uid)}
                       /\ row.invite \in {TableOf!None, n, TableOf!InviteOf(us, uid)}
                       /\ row.hash = n => row.invite # n
    BY DEF Writing, TableOf!None, None
  <2>4. /\ TableOf!Put(us, uid, row) \in TableOf!UserMaps
        /\ TableOf!CredsDistinct(TableOf!Put(us, uid, row))
        /\ TableOf!Creds(TableOf!Put(us, uid, row)) \subseteq TableOf!Creds(us) \cup {n}
    BY <2>1, <2>2, <2>3, SameAssumptions, TableOf!PutRow
  <2> QED BY <2>4, SameOps DEF TableOf!UserMaps, UserMaps, TableOf!Row, Row
<1>4. new[uid] = row /\ \A u \in Uids \ {uid} : new[u] = us[u]
  BY <1>1 DEF Put, UserMaps
<1>5. Live(new) \subseteq used'
  BY <1>1, <1>4 DEF Live, Writing
<1>6. n \in Creds(new) => n' = n + 1
  <2> SUFFICES ASSUME n \in Creds(new) PROVE n' = n + 1
    OBVIOUS
  <2>1. PICK u \in Live(new) : new[u].hash = n \/ new[u].invite = n
    BY DEF Creds
  <2>2. CASE u = uid
    BY <2>1, <2>2, <1>4 DEF Live, Writing
  <2>3. CASE u # uid
    <3>1. u \in Live(us) /\ new[u] = us[u]
      BY <2>1, <2>3, <1>4 DEF Live
    <3>2. n \in Creds(us)
      BY <3>1, <2>1, <1>1 DEF Creds, Cred
    <3> QED BY <3>2, <1>1, <1>2
  <2> QED BY <2>2, <2>3
<1>7. \A c \in Creds(new) : c < n'
  <2> SUFFICES ASSUME NEW c \in Creds(new) PROVE c < n'
    OBVIOUS
  <2>1. CASE c = n
    BY <2>1, <1>2, <1>6
  <2>2. CASE c # n
    <3>1. c \in Creds(us) /\ c < n /\ c \in Nat
      BY <2>2, <1>1, <1>3 DEF Creds, Live, UserMaps, Row
    <3> QED BY <3>1, <1>2
  <2> QED BY <2>1, <2>2
<1> QED BY <1>3, <1>5, <1>7 DEF SoundAfter

\* Every step of a process keeps the invariant, whatever the others are at.
LEMMA FileStep == StoreInv /\ [Next]_vars => FileInv'
<1> SUFFICES ASSUME StoreInv, FileInv, [Next]_vars PROVE FileInv'
  BY DEF StoreInv
<1> USE DEF FileInv
<1> DEFINE C == [stamp: -1..MaxStamp, ok: BOOLEAN, users: UserMaps]
<1>1. /\ disk.stamp \in 0..MaxStamp /\ disk.ok \in BOOLEAN /\ disk.users \in UserMaps
      /\ \A p \in Procs : cache[p] \in C /\ snap[p] \in 0..MaxStamp
      /\ cache = [p \in Procs |-> cache[p]] /\ snap = [p \in Procs |-> snap[p]]
      /\ used \in SUBSET Uids /\ nextCred \in Cred /\ spent \in SUBSET Cred
      /\ MaxStamp \in Nat /\ 0 \in 0..MaxStamp /\ 0 <= disk.stamp
  BY StoreAssumption DEF TypeOK
<1>2. NoUsers \in UserMaps /\ Seen \in UserMaps
  BY <1>1 DEF NoUsers, UserMaps, Seen
<1>3. \A p \in Procs : cache = [cache EXCEPT ![p] = cache[p]]
                    /\ snap = [snap EXCEPT ![p] = snap[p]]
  BY <1>1
<1>4. ASSUME NEW p \in Procs, StartLookup(p) \/ StartMutation(p) PROVE FileInv'
  <2>1. /\ cache' = [cache EXCEPT ![p] = cache[p]] /\ UNCHANGED <<disk, overtaken, table>>
        /\ cache[p] \in C /\ cache[p].stamp <= disk.stamp
        /\ p \notin overtaken /\ cache[p].stamp = disk.stamp =>
             cache[p].ok = disk.ok /\ cache[p].users = Seen
    BY <1>1, <1>3, <1>4 DEF StartLookup, StartMutation, CacheCoherent, OldStamps
  <2>2. disk.stamp <= disk.stamp /\ snap[p] <= disk.stamp
    BY <1>1 DEF OldStamps
  <2>3. CASE StartLookup(p)
    <3>1. snap' = [snap EXCEPT ![p] = disk.stamp] /\ Goto(p, "looking")
      BY <2>3 DEF StartLookup
    <3> QED BY <1>1, <2>1, <2>2, <3>1, LocalStep DEF Mutating
  <2>4. CASE StartMutation(p) /\ cache[p].stamp = disk.stamp
    <3>1. snap' = [snap EXCEPT ![p] = snap[p]] /\ Goto(p, "changing")
      BY <2>4, <1>3 DEF StartMutation
    <3> QED BY <1>1, <2>1, <2>2, <2>4, <3>1, LocalStep DEF Mutating
  <2>5. CASE StartMutation(p) /\ cache[p].stamp # disk.stamp
    <3>1. snap' = [snap EXCEPT ![p] = disk.stamp] /\ Goto(p, "loading")
      BY <2>5 DEF StartMutation
    <3> QED BY <1>1, <2>1, <2>2, <3>1, LocalStep DEF Mutating
  <2> QED BY <1>4, <2>3, <2>4, <2>5
<1>5. ASSUME NEW p \in Procs, Read(p) PROVE FileInv'
  <2> DEFINE c == [stamp |-> snap[p], ok |-> disk.ok, users |-> Seen]
             l == IF pc[p] = "looking" THEN "idle" ELSE "changing"
  <2>1. c \in C /\ c.stamp <= disk.stamp /\ c.ok = disk.ok /\ c.users = Seen
    BY <1>1, <1>2 DEF OldStamps
  <2>2. /\ l \in {"idle", "changing"} /\ (l = "changing" => pc[p] \in Mutating)
        /\ cache' = [cache EXCEPT ![p] = c] /\ snap' = [snap EXCEPT ![p] = 0] /\ Goto(p, l)
        /\ UNCHANGED <<disk, table>> /\ overtaken' = overtaken \ {p}
    BY <1>5 DEF Read, Mutating
  <2>3. 0 \in 0..MaxStamp /\ 0 <= disk.stamp
    BY <1>1
  <2> HIDE DEF c, l
  <2> QED BY <2>1, <2>2, <2>3, LocalStep DEF Mutating
<1>6. ASSUME NEW p \in Procs, GiveUp(p) PROVE FileInv'
  BY <1>1, <1>3, <1>6, LocalStep DEF GiveUp, CacheCoherent, OldStamps, Mutating
<1>7. ASSUME NEW p \in Procs, Restart(p) PROVE FileInv'
  <2>1. Empty \in C /\ Empty.stamp <= disk.stamp /\ Empty.stamp # disk.stamp
    BY <1>1, <1>2 DEF Empty, Unread
  <2>2. /\ cache' = [cache EXCEPT ![p] = Empty] /\ snap' = [snap EXCEPT ![p] = 0]
        /\ Goto(p, "idle") /\ UNCHANGED <<disk, table>> /\ overtaken' = overtaken \ {p}
    BY <1>7 DEF Restart
  <2> QED BY <1>1, <2>1, <2>2, LocalStep DEF Mutating
<1>8. ASSUME NEW p \in Procs, Restamp(p) PROVE FileInv'
  <2> DEFINE c == [cache[p] EXCEPT !.stamp = disk.stamp, !.ok = TRUE]
  <2>1. p \notin overtaken => disk.ok /\ cache[p].users = Seen
    BY <1>8 DEF Restamp, WorksOnFile, Seen
  <2>2. c \in C /\ c.stamp = disk.stamp /\ c.ok = TRUE /\ c.users = cache[p].users
    <3>1. cache[p] \in C /\ disk.stamp \in -1..MaxStamp
      BY <1>1
    <3> QED BY <3>1
  <2>3. /\ cache' = [cache EXCEPT ![p] = c] /\ Goto(p, "idle")
        /\ UNCHANGED <<disk, overtaken, table>>
        /\ snap' = [snap EXCEPT ![p] = snap[p]] /\ snap[p] <= disk.stamp
    BY <1>3, <1>8 DEF Restamp, OldStamps
  <2>4. disk.stamp <= disk.stamp
    BY <1>1
  <2> HIDE DEF c
  <2> QED BY <1>1, <2>1, <2>2, <2>3, <2>4, LocalStep DEF Mutating
<1>9. ASSUME NEW p \in Procs, NEW uid \in Uids, Change(p, uid) PROVE FileInv'
  <2>1. PICK row : Writing(p, uid, row)
    BY <1>9, ChangeWrites
  <2>2. Put(cache[p].users, uid, row) \in UserMaps
    BY <2>1, SoundWrite DEF SoundAfter
  <2>3. /\ used' \in SUBSET Uids /\ nextCred' \in Cred /\ spent' \in SUBSET Cred
        /\ Replace(p, Put(cache[p].users, uid, row))
    BY <1>1, <2>1 DEF Writing, Edit, Cred, None
  <2> QED BY <2>2, <2>3, ReplaceStep
<1>10. ASSUME NEW ok \in BOOLEAN, Tampered(ok) PROVE FileInv'
  <2>1. /\ disk'.stamp = disk.stamp + 1 /\ disk'.stamp \in 0..MaxStamp
        /\ disk' \in [stamp: 0..MaxStamp, ok: BOOLEAN, users: UserMaps]
    <3>1. disk \in [stamp: 0..MaxStamp, ok: BOOLEAN, users: UserMaps]
      BY DEF TypeOK
    <3>2. disk' = [disk EXCEPT !.ok = ok, !.stamp = disk.stamp + 1]
      BY <1>10 DEF Tampered
    <3>3. disk.stamp + 1 \in 0..MaxStamp
      BY <1>1, <1>10 DEF Tampered
    <3> QED BY <3>1, <3>2, <3>3
  <2>2. \A p \in Procs : /\ cache[p].stamp < disk'.stamp /\ snap[p] <= disk'.stamp
                         /\ p \notin overtaken' => pc[p] \notin {"changing", "replaced"}
    BY <1>1, <1>10, <2>1 DEF OldStamps, Tampered, AtWork
  <2>3. UNCHANGED <<cache, snap, pc, table>>
    BY <1>10 DEF Tampered
  <2>4. TypeOK'
    <3>1. overtaken' \subseteq Procs
      BY <1>10 DEF Tampered, AtWork, TypeOK
    <3> QED BY <2>1, <2>3, <3>1 DEF TypeOK, table
  <2>5. OldStamps' /\ WorksOnFile' /\ CacheCoherent'
    BY <1>1, <2>1, <2>2, <2>3 DEF OldStamps, WorksOnFile, CacheCoherent
  <2> QED BY <2>4, <2>5
<1>11. CASE UNCHANGED vars
  BY <1>11 DEF vars, table, TypeOK, OldStamps, WorksOnFile, CacheCoherent, Seen
<1> QED BY <1>4, <1>5, <1>6, <1>7, <1>8, <1>9, <1>10, <1>11 DEF Next, Step

\* A step leaves every copy what it was, or what the file held, or nothing, or
\* one operation further on.
LEMMA SoundStep == StoreInv /\ [Next]_vars => TablesSound'
<1> SUFFICES ASSUME StoreInv, [Next]_vars PROVE TablesSound'
  OBVIOUS
<1>1. /\ TypeOK /\ Sound(disk.users) /\ \A p \in Procs : Sound(cache[p].users)
      /\ nextCred \in Cred /\ \A c \in spent : c \in Nat /\ c < nextCred
  BY DEF StoreInv, FileInv, TablesSound, TypeOK, Cred
<1>2. Sound(NoUsers)
  BY <1>1 DEF Sound, NoUsers, Live, CredsDistinct, Creds, UserMaps
<1>3. ASSUME UNCHANGED table, disk'.users = disk.users,
             \A p \in Procs :
                cache'[p].users \in {cache[p].users, Seen, NoUsers}
      PROVE  TablesSound'
  <2>1. \A p \in Procs : Sound(cache'[p].users)
    BY <1>1, <1>2, <1>3 DEF Seen
  <2> QED BY <1>1, <1>3, <2>1 DEF TablesSound, Sound, table
<1>4. ASSUME NEW p \in Procs,
             \/ StartLookup(p) \/ StartMutation(p) \/ Read(p)
             \/ Restamp(p) \/ GiveUp(p) \/ Restart(p)
      PROVE  TablesSound'
  <2>1. UNCHANGED table /\ disk' = disk
    BY <1>4 DEF StartLookup, StartMutation, Read, Restamp, GiveUp, Restart
  <2>2. ASSUME NEW q \in Procs PROVE cache'[q].users \in {cache[q].users, Seen, NoUsers}
    <3>1. cache[q] \in [stamp: -1..MaxStamp, ok: BOOLEAN, users: UserMaps]
      BY <1>1 DEF TypeOK
    <3>2. CASE Restamp(p) /\ q = p
      <4>1. cache'[q] = [cache[q] EXCEPT !.stamp = disk.stamp, !.ok = TRUE]
        BY <3>2, <1>1 DEF Restamp, TypeOK
      <4> QED BY <3>1, <4>1
    <3> QED BY <1>1, <1>4, <3>2
        DEF TypeOK, StartLookup, StartMutation, Read, Restamp, GiveUp, Restart, Empty
  <2> QED BY <1>3, <2>1, <2>2
<1>5. ASSUME NEW p \in Procs, NEW uid \in Uids, Change(p, uid) PROVE TablesSound'
  <2>1. PICK row : Writing(p, uid, row)
    BY <1>5, ChangeWrites
  <2> DEFINE new == Put(cache[p].users, uid, row)
  <2>2. SoundAfter(new)
    BY <2>1, SoundWrite
  <2>3. used \subseteq used' /\ nextCred' \in {nextCred, nextCred + 1}
    BY <2>1 DEF Writing
  <2>4. /\ disk'.users = new /\ cache' = [cache EXCEPT ![p].users = new]
    BY <2>1 DEF Writing, Edit, Replace
  <2>5. ASSUME NEW q \in Procs PROVE SoundAfter(cache'[q].users)
    <3>1. CASE q = p
      <4>1. cache'[q].users = new
        BY <2>4, <3>1, <1>1 DEF TypeOK
      <4> QED BY <4>1, <2>2
    <3>2. CASE q # p
      <4>1. cache'[q].users = cache[q].users
        BY <2>4, <3>2, <1>1 DEF TypeOK
      <4>2. Sound(cache[q].users)
        BY <1>1
      <4>3. /\ cache[q].users \in UserMaps /\ Live(cache[q].users) \subseteq used'
            /\ CredsDistinct(cache[q].users)
            /\ \A c \in Creds(cache[q].users) : c \in Nat /\ c < nextCred
        BY <4>2, <2>3 DEF Sound, Creds, Live, UserMaps, Row
      <4>4. \A c \in Creds(cache[q].users) : c < nextCred'
        BY <4>3, <2>3, <1>1 DEF Cred
      <4> QED BY <4>1, <4>3, <4>4 DEF SoundAfter
    <3> QED BY <3>1, <3>2
  <2>6. \A c \in spent' : c < nextCred'
    <3> SUFFICES ASSUME NEW c \in spent' PROVE c < nextCred'
      OBVIOUS
    <3>1. c \in Nat /\ c < nextCred
      <4>1. CASE c \in spent
        BY <4>1, <1>1
      <4>2. CASE /\ c \in Cred
                 /\ c \in {TableOf!HashOf(cache[p].users, uid),
                           TableOf!InviteOf(cache[p].users, uid)}
        <5>1. c \in Creds(cache[p].users)
          BY <4>2 DEF TableOf!HashOf, TableOf!InviteOf, TableOf!None, Creds, Live, Cred, None
        <5> QED BY <5>1, <4>2, <1>1 DEF Sound, Cred
      <4> QED BY <4>1, <4>2, <2>1 DEF Writing
    <3> QED BY <3>1, <2>3, <1>1 DEF Cred
  <2>7. SoundAfter(disk'.users)
    BY <2>2, <2>4
  <2> QED BY <2>5, <2>6, <2>7 DEF TablesSound, Sound, SoundAfter
<1>6. ASSUME NEW ok \in BOOLEAN, Tampered(ok) PROVE TablesSound'
  BY <1>1, <1>3, <1>6 DEF Tampered, TypeOK
<1>7. CASE UNCHANGED vars
  BY <1>3, <1>7 DEF vars, table
<1> QED BY <1>4, <1>5, <1>6, <1>7 DEF Next, Step

\* The file at the start is a sound table, and nobody has a copy.
LEMMA SoundInit == Init => TablesSound
<1> SUFFICES ASSUME Init PROVE TablesSound
  OBVIOUS
<1>1. PICK start \in StartUsers : disk = [stamp |-> 0, ok |-> TRUE, users |-> start]
  BY DEF Init
<1>2. Sound(disk.users)
  BY <1>1, StartAssumption DEF Init, Sound
<1>3. Sound(NoUsers)
  BY DEF Sound, NoUsers, Live, CredsDistinct, Creds, UserMaps
<1>4. \A p \in Procs : cache[p].users = NoUsers
  BY DEF Init, Empty
<1> QED BY <1>2, <1>3, <1>4 DEF Init, TablesSound

\* Whoever was not overtaken knows the file, every copy there is holds each
\* credential once, and everything keeps its type.
THEOREM StoreSafe == Spec => []StoreInv
<1>1. Init => StoreInv
  BY StoreInit, SoundInit DEF StoreInv
<1>2. StoreInv /\ [Next]_vars => StoreInv'
  BY FileStep, SoundStep DEF StoreInv
<1> QED BY <1>1, <1>2, PTL DEF Spec

\* File, copies and program counters keep their types.
THEOREM StoreTypes == Spec => []TypeOK
<1>1. StoreInv => TypeOK
  BY DEF StoreInv, FileInv
<1> QED BY <1>1, StoreSafe, PTL

\* A lookup that trusts its stamp (_load's early return) answers what reading
\* the file would answer, in every process that was not overtaken.
THEOREM CachesCoherent == Spec => []CacheCoherent
<1>1. StoreInv => CacheCoherent
  BY DEF StoreInv, FileInv
<1> QED BY <1>1, StoreSafe, PTL

---------------------------------------------------------------------------
\* A mutation that was not overtaken decides on the file's own rows, so it is
\* the same operation of the table; one that was is an overtaken rename; every
\* other step leaves the table alone.
LEMMA StepRefines ==
    FileInv /\ [Next]_vars => [TableOf!Next]_TableOf!tableVars \/ OvertakenWrite
<1> SUFFICES ASSUME FileInv, [Next]_vars
             PROVE  TableOf!Next \/ UNCHANGED TableOf!tableVars \/ OvertakenWrite
  OBVIOUS
<1>0. ASSUME NEW p \in overtaken, NEW uid \in Uids, Change(p, uid) PROVE OvertakenWrite
  <2>1. p \in Procs /\ pc[p] = "changing" /\ Goto(p, "replaced")
    BY <1>0 DEF Change, Create, IssueInvite, RedeemInvite, SetPassword, UpgradeHash, Update,
                Delete, Edit, Replace, FileInv, TypeOK
  <2> QED BY <2>1 DEF OvertakenWrite, Writes, Goto, FileInv, TypeOK
<1>1. ASSUME NEW p \in Procs \ overtaken, NEW uid \in Uids, Change(p, uid)
      PROVE  TableOf!Next
  <2>1. cache[p].users = disk.users
    BY <1>1 DEF Change, Create, IssueInvite, RedeemInvite, SetPassword, UpgradeHash, Update,
                Delete, Edit, Replace, FileInv, WorksOnFile, Seen
  <2>2. \A row : Edit(p, uid, row) => disk'.users = Put(disk.users, uid, row)
    BY <2>1 DEF Edit, Replace
  <2>3. /\ Known(p) = Live(disk.users) /\ RowOf(p, uid) = disk.users[uid]
        /\ TableOf!Live(disk.users) = Live(disk.users)
    BY <2>1, SameOps DEF Known, RowOf
  <2>4. ASSUME NEW name \in Names, NEW role \in Roles, Create(p, uid, name, role)
        PROVE  TableOf!Create(uid, name, role)
    BY <2>1, <2>2, <2>4, SameOps DEF Create, TableOf!Create, Fresh, TableOf!Fresh
  <2>5. IssueInvite(p, uid) => TableOf!IssueInvite(uid)
    BY <2>2, <2>3, SameOps
    DEF IssueInvite, TableOf!IssueInvite, Fresh, TableOf!Fresh, Ends, TableOf!Ends
  <2>6. p = Server /\ RedeemInvite(uid) => TableOf!RedeemInvite(uid)
    BY <2>2, <2>3, SameOps
    DEF RedeemInvite, TableOf!RedeemInvite, Fresh, TableOf!Fresh, Ends, TableOf!Ends
  <2>7. p = Server /\ SetPassword(uid) => TableOf!SetPassword(uid)
    BY <2>2, <2>3, SameOps
    DEF SetPassword, TableOf!SetPassword, Fresh, TableOf!Fresh, Ends, TableOf!Ends
  <2>8. p = Server /\ UpgradeHash(uid) => TableOf!UpgradeHash(uid)
    BY <2>2, <2>3, SameOps
    DEF UpgradeHash, TableOf!UpgradeHash, Fresh, TableOf!Fresh, Ends, TableOf!Ends
  <2>9. ASSUME NEW role \in Roles, NEW disabled \in BOOLEAN, Update(p, uid, role, disabled)
        PROVE  TableOf!Update(uid, role, disabled)
    BY <2>1, <2>2, <2>3, <2>9, SameOps DEF Update, TableOf!Update, table
  <2>10. Delete(p, uid) => TableOf!Delete(uid)
    BY <2>1, <2>2, <2>3, SameOps DEF Delete, TableOf!Delete, Ends, TableOf!Ends
  <2>11. \/ \E name \in Names, role \in Roles : Create(p, uid, name, role)
         \/ uid \in Live(disk.users)
    BY <1>1, <2>3 DEF Change, IssueInvite, RedeemInvite, SetPassword, UpgradeHash, Update,
                      Delete
  <2> QED BY <1>1, <2>3, <2>4, <2>5, <2>6, <2>7, <2>8, <2>9, <2>10, <2>11
      DEF Change, TableOf!Next
<1>2. ASSUME NEW p \in Procs,
             \/ StartLookup(p) \/ StartMutation(p) \/ Read(p)
             \/ Restamp(p) \/ GiveUp(p) \/ Restart(p)
      PROVE  UNCHANGED TableOf!tableVars
  BY <1>2 DEF StartLookup, StartMutation, Read, Restamp, GiveUp, Restart, table,
              TableOf!tableVars
<1>3. ASSUME NEW ok \in BOOLEAN, Tampered(ok) PROVE UNCHANGED TableOf!tableVars
  BY <1>3 DEF Tampered, table, TableOf!tableVars, FileInv, TypeOK
<1>4. CASE UNCHANGED vars
  BY <1>4 DEF vars, TableOf!tableVars
<1> QED BY <1>0, <1>1, <1>2, <1>3, <1>4 DEF Next, Step

\* The file at the start is a table at its start.
LEMMA InitRefines == Init => TableOf!Init
BY SameOps DEF Init, TableOf!Init

\* The store with its file and its caches behaves as the one table of
\* AccountTable, but for the renames of processes that were overtaken.
THEOREM StoreImplementsTable == Spec => ImplementsTable
<1>1. TableOf!Init <=> Table!Init
  BY DEF TableOf!Init, Table!Init, TableOf!Live, Table!Live
<1>2. [TableOf!Next]_TableOf!tableVars <=> [Table!Next]_Table!tableVars
  BY DEF TableOf!Next, TableOf!tableVars, TableOf!Create, TableOf!IssueInvite,
         TableOf!RedeemInvite, TableOf!SetPassword, TableOf!UpgradeHash, TableOf!Update,
         TableOf!Delete, TableOf!Fresh, TableOf!Ends, TableOf!Live, TableOf!Put,
         TableOf!NameFree, TableOf!NewRow, TableOf!Invited, TableOf!WithPassword,
         TableOf!Rehashed, TableOf!Updated, TableOf!UpdateAllowed, TableOf!DeleteAllowed,
         TableOf!UsableAdmin, TableOf!Administers, TableOf!CanSignIn,
         TableOf!AnotherAdmin, TableOf!None,
         Table!Next, Table!tableVars, Table!Create, Table!IssueInvite,
         Table!RedeemInvite, Table!SetPassword, Table!UpgradeHash, Table!Update,
         Table!Delete, Table!Fresh, Table!Ends, Table!Live, Table!Put,
         Table!NameFree, Table!NewRow, Table!Invited, Table!WithPassword,
         Table!Rehashed, Table!Updated, Table!UpdateAllowed, Table!DeleteAllowed,
         Table!UsableAdmin, Table!Administers, Table!CanSignIn,
         Table!AnotherAdmin, Table!None
<1>3. StoreInv /\ [Next]_vars => [Table!Next \/ OvertakenWrite]_(Table!tableVars)
  BY <1>2, StepRefines DEF StoreInv
<1> QED BY <1>1, <1>3, InitRefines, StoreSafe, PTL DEF ImplementsTable, Spec

---------------------------------------------------------------------------
\* The rows on the file are sound as the table's proofs want them.
LEMMA FileSound == StoreInv => TableOf!TableSound
<1> SUFFICES ASSUME StoreInv PROVE TableOf!TableSound
  OBVIOUS
<1>1. TypeOK /\ Sound(disk.users) /\ \A c \in spent : c < nextCred
  BY DEF StoreInv, FileInv, TablesSound
<1>2. TableOf!TypeOK
  BY <1>1 DEF TypeOK, Sound, TableOf!TypeOK, TableOf!UserMaps, TableOf!Row, TableOf!Cred,
              TableOf!None, UserMaps, Row, Cred, None
<1> QED BY <1>1, <1>2, SameOps DEF Sound, TableOf!TableSound, TableOf!CredsOld

\* A credential that was redeemed, replaced or deleted comes back on the file by
\* no step but an overtaken rename, across restarts and any number of writers.
THEOREM StoreSpentStaysSpent == Spec => SpentStaysSpent
<1>1. TableOf!TableSound /\ [TableOf!Next]_TableOf!tableVars => TableOf!NothingRevived
  BY TableOf!SoundStep, SameAssumptions
<1>2. TableOf!NothingRevived
        => spent' \cap Creds(disk'.users) \subseteq spent \cap Creds(disk.users)
  BY SameOps DEF TableOf!NothingRevived
<1>3. StoreInv /\ [Next]_vars =>
        [\/ spent' \cap Creds(disk'.users) \subseteq spent \cap Creds(disk.users)
         \/ OvertakenWrite]_vars
  BY <1>1, <1>2, StepRefines, FileSound DEF StoreInv
<1> QED BY <1>3, StoreSafe, PTL DEF Spec, SpentStaysSpent

\* Nobody takes the last person who reaches the admin portal off the file but by
\* an overtaken rename.
THEOREM StoreKeepsAdmin == Spec => AdminSurvives
<1>1. TableOf!TableSound /\ [TableOf!Next]_TableOf!tableVars
        => (TableOf!HasAdmin(disk.users) => TableOf!HasAdmin(disk.users'))
  BY TableOf!AdminStep, SameAssumptions
<1>2. StoreInv /\ [Next]_vars
        => [(HasAdmin(disk.users) => HasAdmin(disk'.users)) \/ OvertakenWrite]_vars
  BY <1>1, StepRefines, FileSound, SameOps DEF StoreInv
<1> QED BY <1>2, StoreSafe, PTL DEF Spec, AdminSurvives

\* A file that does not parse keeps its rows until somebody mends it, unless it
\* was damaged under the hands of a writer that had read it.
THEOREM StoreLeavesBroken == Spec => BrokenNeverOverwritten
<1>1. ASSUME StoreInv, [Next]_vars, ~disk.ok PROVE disk'.users = disk.users \/ OvertakenWrite
  <2>1. ASSUME NEW p \in Procs, NEW uid \in Uids, Change(p, uid) PROVE OvertakenWrite
    <3>1. pc[p] = "changing" /\ cache[p].ok /\ Goto(p, "replaced") /\ pc'[p] = "replaced"
      BY <1>1, <2>1 DEF Change, Create, IssueInvite, RedeemInvite, SetPassword, UpgradeHash,
                        Update, Delete, Edit, Replace, Goto, StoreInv, FileInv, TypeOK
    <3>2. p \in overtaken
      BY <1>1, <3>1 DEF StoreInv, FileInv, WorksOnFile
    <3> QED BY <3>1, <3>2 DEF OvertakenWrite, Writes
  <2>2. ASSUME NEW ok \in BOOLEAN, Tampered(ok) PROVE disk'.users = disk.users
    BY <1>1, <2>2 DEF Tampered, StoreInv, FileInv, TypeOK
  <2> QED BY <1>1, <2>1, <2>2
      DEF Next, Step, StartLookup, StartMutation, Read, Restamp, GiveUp, Restart, vars
<1>2. StoreInv /\ [Next]_vars => [(~disk.ok => disk'.users = disk.users) \/ OvertakenWrite]_vars
  BY <1>1
<1> QED BY <1>2, StoreSafe, PTL DEF Spec, BrokenNeverOverwritten
===========================================================================
