--------------------------- MODULE AccountStore ---------------------------
(* api/accounts.py, AccountStore: one JSON file, read and replaced by the  *)
(* server process and by scripts/prism_admin.py, which runs in a container *)
(* of its own.  Each process keeps the rows it last parsed and the stamp   *)
(* (mtime_ns, size) they had; the lock is a threading.RLock, so it orders  *)
(* the operations of one process and nothing between two: a rename of one  *)
(* process may fall between the read and the rename of another, or between *)
(* its rename and its new stamp.  `overtaken` remembers to whom it did.    *)
EXTENDS AccountOps

CONSTANTS
    Server, Clis,            \* the processes
    MaxStamp                 \* bound: versions of the file

Procs == {Server} \cup Clis
Unread == -1                 \* _loaded is False

ASSUME StoreAssumption ==
    /\ Server \notin Clis
    /\ MaxStamp \in Nat

VARIABLES
    disk,      \* the file: its stamp, whether it parses, its rows
    cache,     \* per process: _stamp, ~_broken, _users
    snap,      \* per process: the stamp _load took before it reads
    pc,        \* per process: where it stands in _load and _mutate
    overtaken, \* history: the processes whose rows somebody's rename has made old
    used, nextCred, spent    \* as in AccountTable
vars == <<disk, cache, snap, pc, overtaken, used, nextCred, spent>>

Empty == [stamp |-> Unread, ok |-> TRUE, users |-> NoUsers]
Mutating == {"loading", "changing", "replaced"}

\* The types of the file, of each process's copy and of where it stands.
TypeOK ==
    /\ disk \in [stamp: 0..MaxStamp, ok: BOOLEAN, users: UserMaps]
    /\ cache \in [Procs -> [stamp: -1..MaxStamp, ok: BOOLEAN, users: UserMaps]]
    /\ snap \in [Procs -> 0..MaxStamp]
    /\ pc \in [Procs -> Mutating \cup {"idle", "looking"}]
    /\ overtaken \subseteq Procs
    /\ used \subseteq Uids
    /\ nextCred \in Cred
    /\ spent \subseteq Cred

Init ==
    /\ \E start \in StartUsers : disk = [stamp |-> 0, ok |-> TRUE, users |-> start]
    /\ cache = [p \in Procs |-> Empty]
    /\ snap = [p \in Procs |-> 0]
    /\ pc = [p \in Procs |-> "idle"]
    /\ overtaken = {}
    /\ used = Live(disk.users)
    /\ nextCred = FirstCred
    /\ spent = {}

\* Those who have the file's rows in hand and have not finished with them.
AtWork == {q \in Procs : pc[q] \in {"changing", "replaced"}}
Goto(p, l) == pc' = [pc EXCEPT ![p] = l]
Seen == IF disk.ok THEN disk.users ELSE NoUsers
table == <<used, nextCred, spent>>

---------------------------------------------------------------------------
\* _load(): stat; answer from the cache if the stamp is the one it has; else
\* read and parse.  A file that does not parse leaves nobody in the cache.
\* list/by_username/by_id/find_by_invite: a lookup that finds its stamp
\* unchanged changes nothing.
StartLookup(p) ==
    /\ pc[p] = "idle"
    /\ cache[p].stamp # disk.stamp
    /\ snap' = [snap EXCEPT ![p] = disk.stamp]
    /\ Goto(p, "looking")
    /\ UNCHANGED <<disk, cache, overtaken, table>>

MutStartMutation(p) ==
    /\ pc[p] = "idle"
    /\ IF cache[p].stamp # Unread
       THEN Goto(p, "changing") /\ UNCHANGED snap
       ELSE Goto(p, "loading") /\ snap' = [snap EXCEPT ![p] = disk.stamp]
    /\ UNCHANGED <<disk, cache, overtaken, table>>

\* _mutate() re-reads the file first
StartMutation(p) ==
    /\ pc[p] = "idle"
    /\ IF cache[p].stamp = disk.stamp
       THEN Goto(p, "changing") /\ UNCHANGED snap
       ELSE Goto(p, "loading") /\ snap' = [snap EXCEPT ![p] = disk.stamp]
    /\ UNCHANGED <<disk, cache, overtaken, table>>

MutRead(p) ==
    /\ pc[p] \in {"looking", "loading"}
    /\ cache' = [cache EXCEPT ![p] =
          [stamp |-> snap[p], ok |-> disk.ok,
           users |-> IF disk.ok THEN disk.users ELSE @.users]]
    /\ snap' = [snap EXCEPT ![p] = 0]
    /\ Goto(p, IF pc[p] = "looking" THEN "idle" ELSE "changing")
    /\ overtaken' = overtaken \ {p}
    /\ UNCHANGED <<disk, table>>

Read(p) ==
    /\ pc[p] \in {"looking", "loading"}
    /\ cache' = [cache EXCEPT ![p] = [stamp |-> snap[p], ok |-> disk.ok, users |-> Seen]]
    /\ snap' = [snap EXCEPT ![p] = 0]
    /\ Goto(p, IF pc[p] = "looking" THEN "idle" ELSE "changing")
    /\ overtaken' = overtaken \ {p}
    /\ UNCHANGED <<disk, table>>

\* _mutate() refuses on a file it could not read, change() raises, or the
\* write fails before the rename: nothing has happened
GiveUp(p) ==
    /\ pc[p] = "changing"
    /\ Goto(p, "idle")
    /\ UNCHANGED <<disk, cache, snap, overtaken, table>>

---------------------------------------------------------------------------
MutReplace(p, new) ==
    /\ pc[p] = "changing"
    /\ disk.stamp < MaxStamp
    /\ disk' = [stamp |-> disk.stamp + 1, ok |-> TRUE, users |-> new]
    /\ cache' = [cache EXCEPT ![p].users = new]
    /\ Goto(p, "replaced")
    /\ overtaken' = (overtaken \cup AtWork) \ {p}
    /\ UNCHANGED snap

\* _write(): a temporary file renamed over the old one, then _users.  The new
\* file has a stamp no earlier file had; _stamp is taken afterwards.
Replace(p, new) ==
    /\ pc[p] = "changing"
    /\ cache[p].ok
    /\ disk.stamp < MaxStamp
    /\ disk' = [stamp |-> disk.stamp + 1, ok |-> TRUE, users |-> new]
    /\ cache' = [cache EXCEPT ![p].users = new]
    /\ Goto(p, "replaced")
    /\ overtaken' = (overtaken \cup AtWork) \ {p}
    /\ UNCHANGED snap

Restamp(p) ==
    /\ pc[p] = "replaced"
    /\ cache' = [cache EXCEPT ![p].stamp = disk.stamp, ![p].ok = TRUE]
    /\ Goto(p, "idle")
    /\ UNCHANGED <<disk, snap, overtaken, table>>

\* change() decides on this process's copy and replaces one row of it
Edit(p, uid, row) == Replace(p, Put(cache[p].users, uid, row))
Known(p) == Live(cache[p].users)
RowOf(p, uid) == cache[p].users[uid]
Fresh == nextCred < MaxCred /\ nextCred' = nextCred + 1
Ends(cs) == spent' = spent \cup (cs \ {None})

Create(p, uid, name, role) ==
    /\ uid \notin used
    /\ NameFree(cache[p].users, name)
    /\ Fresh
    /\ Edit(p, uid, NewRow(name, role, nextCred))
    /\ used' = used \cup {uid}
    /\ UNCHANGED spent

IssueInvite(p, uid) ==
    /\ uid \in Known(p)
    /\ Fresh
    /\ Edit(p, uid, Invited(RowOf(p, uid), nextCred))
    /\ Ends({RowOf(p, uid).invite})
    /\ UNCHANGED used

\* The token is looked up again inside the mutation.  That it has not expired,
\* and that the password is long enough, is a refusal (GiveUp) otherwise.
RedeemInvite(uid) ==
    /\ uid \in Known(Server)
    /\ RowOf(Server, uid).invite # None /\ ~RowOf(Server, uid).disabled
    /\ Fresh
    /\ Edit(Server, uid, WithPassword(RowOf(Server, uid), nextCred))
    /\ Ends({RowOf(Server, uid).invite, RowOf(Server, uid).hash})
    /\ UNCHANGED used

\* reached from change_password, which verifies the current password first
SetPassword(uid) ==
    /\ uid \in Known(Server)
    /\ RowOf(Server, uid).hash # None
    /\ Fresh
    /\ Edit(Server, uid, WithPassword(RowOf(Server, uid), nextCred))
    /\ Ends({RowOf(Server, uid).invite, RowOf(Server, uid).hash})
    /\ UNCHANGED used

\* reached from a sign-in whose hash needs_rehash
UpgradeHash(uid) ==
    /\ uid \in Known(Server)
    /\ RowOf(Server, uid).hash # None
    /\ Fresh
    /\ Edit(Server, uid, Rehashed(RowOf(Server, uid), nextCred))
    /\ Ends({RowOf(Server, uid).hash})
    /\ UNCHANGED used

Update(p, uid, role, disabled) ==
    /\ uid \in Known(p)
    /\ UpdateAllowed(cache[p].users, uid, role, disabled)
    /\ Edit(p, uid, Updated(RowOf(p, uid), role, disabled))
    /\ UNCHANGED table

Delete(p, uid) ==
    /\ uid \in Known(p)
    /\ DeleteAllowed(cache[p].users, uid)
    /\ Edit(p, uid, NoRow)
    /\ Ends({RowOf(p, uid).invite, RowOf(p, uid).hash})
    /\ UNCHANGED <<used, nextCred>>

---------------------------------------------------------------------------
\* A deploy or a crash of the server, the end (or the kill) of a command: the
\* caches are memory and are gone, the file is as the last rename left it.
Restart(p) ==
    /\ cache[p] # Empty \/ pc[p] # "idle"
    /\ cache' = [cache EXCEPT ![p] = Empty]
    /\ snap' = [snap EXCEPT ![p] = 0]
    /\ Goto(p, "idle")
    /\ overtaken' = overtaken \ {p}
    /\ UNCHANGED <<disk, table>>

\* The file is damaged and mended by hand, whoever is at work on it.
Tampered(ok) ==
    /\ disk.ok # ok
    /\ disk.stamp < MaxStamp
    /\ disk' = [disk EXCEPT !.ok = ok, !.stamp = @ + 1]
    /\ overtaken' = overtaken \cup AtWork
    /\ UNCHANGED <<cache, snap, pc, table>>

Change(p, uid) ==
    \/ \E name \in Names, role \in Roles : Create(p, uid, name, role)
    \/ IssueInvite(p, uid)
    \/ p = Server /\ (RedeemInvite(uid) \/ SetPassword(uid) \/ UpgradeHash(uid))
    \/ \E role \in Roles, disabled \in BOOLEAN : Update(p, uid, role, disabled)
    \/ Delete(p, uid)

Step(p) ==
    \/ StartLookup(p) \/ StartMutation(p) \/ Read(p)
    \/ \E uid \in Uids : Change(p, uid)
    \/ Restamp(p) \/ GiveUp(p) \/ Restart(p)

Next == (\E p \in Procs : Step(p)) \/ (\E ok \in BOOLEAN : Tampered(ok))

Spec == Init /\ [][Next]_vars

---------------------------------------------------------------------------
\* A process that was overtaken renames its rows over those of the other: the
\* lost update that the lock cannot prevent.
Writes(p) == pc[p] = "changing" /\ pc'[p] = "replaced"
OvertakenWrite == \E p \in overtaken : Writes(p)

\* A cache whose stamp is the file's holds the file's rows, and nobody when
\* the file does not parse: what a lookup answers without reading (_load's
\* early return) is what reading would have answered.  The one exception is a
\* process whose own rename was followed by another's before it took the stamp.
CacheCoherent ==
    \A p \in Procs \ overtaken : cache[p].stamp = disk.stamp =>
        cache[p].ok = disk.ok /\ cache[p].users = Seen

\* A credential that was redeemed, replaced or deleted comes back on the file
\* by no step but an overtaken rename: a used invite opens nothing, an old
\* password stays old, over restarts and whatever the caches hold.
SpentStaysSpent ==
    [][\/ spent' \cap Creds(disk'.users) \subseteq spent \cap Creds(disk.users)
       \/ OvertakenWrite]_vars

\* Once somebody can sign in and reach the admin portal, no step of any
\* process but an overtaken rename leaves the file without such a person.
AdminSurvives == [][(HasAdmin(disk.users) => HasAdmin(disk'.users)) \/ OvertakenWrite]_vars

\* A file that does not parse is never replaced by our idea of what was in it,
\* unless it was damaged after the writer had read it.
BrokenNeverOverwritten ==
    [][(~disk.ok => disk'.users = disk.users) \/ OvertakenWrite]_vars

\* The store, its file, caches and two kinds of writer, is one table changed by
\* one operation at a time: every change of the file but an overtaken rename is
\* an operation of the table on the rows the file has at that moment.
Table == INSTANCE AccountTable WITH users <- disk.users
ImplementsTable == Table!Init /\ [][Table!Next \/ OvertakenWrite]_(Table!tableVars)
===========================================================================
