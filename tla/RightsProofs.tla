--------------------------- MODULE RightsProofs ----------------------------
(* What an administrator grants: reach, and what is counted within it, for  *)
(* any customers, venues, people, groups and documents, and the guards of   *)
(* those who grant it.                                                      *)
EXTENDS Territory, RoleTier, TLAPS

---------------------------------------------------------------------------
\* A list of venues that is not "all of them" is read as it stands.
LEMMA ListsCover ==
    ASSUME NEW vs \in SUBSET Venues, NEW v
    PROVE  Covers(vs, v) <=> v \in vs
BY ReachAssumption DEF Covers

\* What is joined from lists alone is a list.
LEMMA JoinedList ==
    ASSUME NEW gs, \A g \in Live(gs) : IsGroup(g), NEW t,
           \A g \in Holding(gs, t) : g.ecs[t] # AllVenues
    PROVE  /\ Joined(gs, t) = UNION {g.ecs[t] : g \in Holding(gs, t)}
           /\ Joined(gs, t) \in SUBSET Venues
<1>1. \A g \in Holding(gs, t) : g.ecs[t] \in SUBSET Venues
  BY DEF Holding, IsGroup, IsMap, Coverage
<1> QED BY <1>1 DEF Joined

\* More groups never reach less: everything wins, all venues of a customer
\* absorb a list of them, and lists are joined (resource_groups.union).
THEOREM UnionAdds ==
    ASSUME NEW gs, NEW hs, gs \subseteq hs, \A g \in Live(hs) : IsGroup(g)
    PROVE  Reached(Union(gs)) \subseteq Reached(Union(hs))
<1>1. CASE \E g \in Live(hs) : g.all
  <2>1. Union(hs) = Unrestricted
    BY <1>1 DEF Union
  <2> QED BY <2>1 DEF Reached, AllowsVenue, Unrestricted
<1>2. CASE ~\E g \in Live(hs) : g.all
  <2>1. Live(gs) \subseteq Live(hs)
    BY DEF Live
  <2>2. ~\E g \in Live(gs) : g.all
    BY <1>2, <2>1
  <2> DEFINE ecs(x) == [t \in UNION {DOMAIN g.ecs : g \in Live(x)} |-> Joined(x, t)]
  <2>3. /\ Union(gs) = [unrestricted |-> FALSE, ecs |-> ecs(gs)]
        /\ Union(hs) = [unrestricted |-> FALSE, ecs |-> ecs(hs)]
    BY <1>2, <2>2 DEF Union
  <2> SUFFICES ASSUME NEW p \in Tenants \X Venues, AllowsVenue(Union(gs), p[1], p[2])
               PROVE  AllowsVenue(Union(hs), p[1], p[2])
    BY DEF Reached
  <2> DEFINE t == p[1]
             v == p[2]
  <2>4. t \in DOMAIN ecs(gs) /\ Covers(ecs(gs)[t], v)
    BY <2>3 DEF AllowsVenue
  <2>5. t \in DOMAIN ecs(hs)
    BY <2>1, <2>4
  <2>6. Covers(Joined(gs, t), v)
    BY <2>4
  <2>7. Holding(gs, t) \subseteq Holding(hs, t)
    BY <2>1 DEF Holding
  <2>8. Covers(Joined(hs, t), v)
    <3>1. CASE \E g \in Holding(hs, t) : g.ecs[t] = AllVenues
      BY <3>1 DEF Joined, Covers
    <3>2. CASE ~\E g \in Holding(hs, t) : g.ecs[t] = AllVenues
      <4>1. /\ Joined(hs, t) = UNION {g.ecs[t] : g \in Holding(hs, t)}
            /\ Joined(hs, t) \in SUBSET Venues
        BY <3>2, JoinedList
      <4>2. /\ \A g \in Live(gs) : IsGroup(g)
            /\ \A g \in Holding(gs, t) : g.ecs[t] # AllVenues
        BY <2>1, <2>7, <3>2
      <4>3. /\ Joined(gs, t) = UNION {g.ecs[t] : g \in Holding(gs, t)}
            /\ Joined(gs, t) \in SUBSET Venues
        BY <4>2, JoinedList
      <4>4. v \in Joined(gs, t)
        BY <2>6, <4>3, ListsCover
      <4>5. v \in Joined(hs, t)
        BY <2>7, <4>1, <4>3, <4>4
      <4> QED BY <4>1, <4>5, ListsCover
    <3> QED BY <3>1, <3>2
  <2> QED BY <2>3, <2>5, <2>8 DEF AllowsVenue
<1> QED BY <1>1, <1>2

\* The list a route filters and the question it asks agree: a venue is left in
\* exactly when it may be opened (Scope.filter_venues, Scope.allows_venue).
THEOREM FiltersAgree ==
    ASSUME NEW s, NEW t, NEW vs, NEW v
    PROVE  v \in FilterVenues(s, t, vs) <=> v \in vs /\ AllowsVenue(s, t, v)
BY DEF FilterVenues, AllowsVenue

---------------------------------------------------------------------------
\* The types: both copies of the policy hold groups and people, the record is
\* one, and no change of the file has the stamp of a policy that is not loaded.
Typed ==
    /\ DOMAIN disk = {"state", "stamp", "groups", "people"}
    /\ disk.state \in {"ok", "damaged"} /\ disk.stamp \in Nat
    /\ IsStored(disk.groups) /\ disk.people \in PeopleMaps
    /\ DOMAIN mem = {"stamp", "groups", "people"}
    /\ mem.stamp \in Nat \cup {Unread}
    /\ IsStored(mem.groups) /\ mem.people \in PeopleMaps
    /\ DOMAIN snap = {"directory", "checks", "runs"}
    /\ known \in BOOLEAN /\ echoed \in BOOLEAN

LEMMA PolicyTyped ==
    ASSUME Typed
    PROVE  /\ DOMAIN Policy = {"stamp", "groups", "people"}
           /\ Policy.stamp = disk.stamp
           /\ IsStored(Policy.groups) /\ Policy.people \in PeopleMaps
BY DEF Typed, Policy

\* Leaving the built-in out keeps groups what they are.
LEMMA UnechoedStored ==
    ASSUME NEW cat, IsStored(cat)
    PROVE  IsStored(Unechoed(cat))
BY DEF IsStored, Unechoed

LEMMA TypedInit == Init => Typed
<1>1. DOMAIN StartSnap = {"directory", "checks", "runs"}
  BY TerritoryAssumption DEF IsSnapshot
<1>2. IsStored(NoGroups) /\ NoPeople \in PeopleMaps
  BY DEF IsStored, NoGroups, NoPeople, PeopleMaps
<1>3. IsFile(StartDisk)
  BY TerritoryAssumption
<1> SUFFICES ASSUME Init PROVE Typed
  OBVIOUS
<1>4. mem = Unloaded /\ disk = StartDisk /\ snap = StartSnap /\ known = FALSE /\ echoed = FALSE
  BY DEF Init
<1>5. /\ DOMAIN mem = {"stamp", "groups", "people"} /\ mem.stamp \in Nat \cup {Unread}
      /\ mem.groups = NoGroups /\ mem.people = NoPeople
  BY <1>4 DEF Unloaded
<1>6. StartDisk.stamp \in Nat
  BY <1>3, TerritoryAssumption DEF IsFile
<1> QED BY <1>1, <1>2, <1>3, <1>4, <1>5, <1>6 DEF Typed, IsFile

\* What Save writes is typed.
LEMMA SavedTyped ==
    ASSUME Typed, NEW cat \in Catalogues \cup {Omitted}, NEW ppl \in Assignments \cup {Omitted}
    PROVE  /\ IsStored(Saved(cat, ppl).groups)
           /\ Saved(cat, ppl).people \in PeopleMaps
<1>1. IsStored(IF cat = Omitted THEN Policy.groups ELSE cat)
  BY PolicyTyped, TerritoryAssumption
<1>2. (IF ppl = Omitted THEN Policy.people ELSE ppl) \in PeopleMaps
  BY PolicyTyped, TerritoryAssumption
<1> QED BY <1>1, <1>2, UnechoedStored DEF Saved, Sent

LEMMA TypedStep == Typed /\ [Next]_vars => Typed'
<1> SUFFICES ASSUME Typed, [Next]_vars PROVE Typed'
  OBVIOUS
<1>1. ASSUME NEW cat \in Catalogues \cup {Omitted}, NEW ppl \in Assignments \cup {Omitted},
             Save(cat, ppl)
      PROVE  Typed'
  BY <1>1, SavedTyped DEF Save, Typed, OnlyBuiltin
<1>2. CASE Reads
  BY <1>2, PolicyTyped DEF Reads, Looks, Typed
<1>3. CASE Damaged
  BY <1>3 DEF Damaged, Typed
<1>4. CASE Mended
  BY <1>4 DEF Mended, Typed
<1>5. CASE Restart
  <2>1. IsStored(NoGroups) /\ NoPeople \in PeopleMaps
    BY DEF IsStored, NoGroups, NoPeople, PeopleMaps
  <2> QED BY <1>5, <2>1 DEF Restart, Typed, Unloaded
<1>6. ASSUME NEW p \in Persons, NEW t \in Tenants, NEW listing \in Listings[t],
             NEW vs \in SUBSET Venues, StartRun(p, t, listing, vs)
      PROVE  Typed'
  BY <1>6, PolicyTyped DEF StartRun, Looks, Typed
<1>7. ASSUME NEW p \in Persons, NEW t \in Tenants, NEW v \in Venues, NEW o \in Outcomes,
             CheckVenue(p, t, v, o)
      PROVE  Typed'
  BY <1>7, PolicyTyped DEF CheckVenue, Looks, Typed
<1>8. ASSUME NEW q \in Pairs, Ages(q) PROVE Typed'
  BY <1>8 DEF Ages, Typed
<1>9. CASE UNCHANGED vars
  BY <1>9 DEF vars, Typed
<1> QED BY <1>1, <1>2, <1>3, <1>4, <1>5, <1>6, <1>7, <1>8, <1>9 DEF Next

LEMMA AlwaysTyped == Spec => []Typed
BY TypedInit, TypedStep, PTL DEF Spec

---------------------------------------------------------------------------
\* What the groups in force say depends on two blocks of the policy.
LEMMA ScopeOfBlocks ==
    ASSUME NEW a, NEW b, a.groups = b.groups, a.people = b.people, NEW p
    PROVE  ScopeIn(a, p) = ScopeIn(b, p)
BY DEF ScopeIn, InForce, Resolved

\* A group id that is in no file resolves to the built-in or to nothing.
LEMMA ResolvedGroup ==
    ASSUME NEW pol, IsStored(pol.groups), NEW g, Resolved(pol, g) # NoGroup
    PROVE  IsGroup(Resolved(pol, g))
<1>1. IsGroup(Builtin)
  BY DEF Builtin, IsGroup, IsMap, NoMap
<1> QED BY <1>1 DEF IsStored, Resolved

\* One more group never takes reach away, in any state (resource_groups.union,
\* PolicyStore.scope_for).
LEMMA AddsHere == Typed => GroupsAdd
<1> SUFFICES ASSUME Typed, NEW p \in Persons, NEW g \in Groups, Policy.people[p] # Unplaced
             PROVE  Reached(ScopeOf(p)) \subseteq
                        Reached(ScopeIn([Policy EXCEPT !.people[p] = @ \cup {g}], p))
  BY DEF GroupsAdd
<1> DEFINE more == [Policy EXCEPT !.people[p] = @ \cup {g}]
<1>1. /\ more.groups = Policy.groups
      /\ more.people[p] = Policy.people[p] \cup {g}
  BY PolicyTyped DEF PeopleMaps
<1>2. IsStored(Policy.groups)
  BY PolicyTyped
<1>3. CASE ~InForce(Policy)
  BY <1>1, <1>3 DEF ScopeOf, ScopeIn, InForce
<1>4. CASE InForce(Policy) /\ more.people[p] # Unplaced
  <2> DEFINE gs == {Resolved(Policy, x) : x \in Policy.people[p]}
             hs == {Resolved(Policy, x) : x \in Policy.people[p] \cup {g}}
  <2>1. ScopeOf(p) = Union(gs)
    BY <1>4 DEF ScopeOf, ScopeIn
  <2>2. ScopeIn(more, p) = Union(hs)
    BY <1>1, <1>4 DEF ScopeIn, InForce, Resolved
  <2>3. gs \subseteq hs /\ \A h \in Live(hs) : IsGroup(h)
    BY <1>2, ResolvedGroup DEF Live
  <2>4. Reached(Union(gs)) \subseteq Reached(Union(hs))
    BY <2>3, UnionAdds
  <2> QED BY <2>1, <2>2, <2>4
<1>5. CASE InForce(Policy) /\ more.people[p] = Unplaced
  BY <1>1, <1>5, PolicyTyped, TerritoryAssumption DEF PeopleMaps
<1> QED BY <1>3, <1>4, <1>5

\* In every state of the server, whoever is given one more group keeps what
\* they reached before (resource_groups.union).
THEOREM GroupsOnlyAdd == Spec => []GroupsAdd
BY AlwaysTyped, AddsHere, PTL

---------------------------------------------------------------------------
\* The policy in force is the one in the file, whatever became of the file, unless
\* the process has held none and the file does not parse: then it is none.
IsTheFile ==
    /\ mem.stamp <= disk.stamp
    /\ known => mem.groups = disk.groups /\ mem.people = disk.people
    /\ ~known => mem.groups = NoGroups
    /\ ~known /\ mem.stamp = disk.stamp => disk.state = "damaged"

LEMMA PolicyIsTheFile ==
    ASSUME Typed, IsTheFile
    PROVE  /\ ~Blank => Policy.groups = disk.groups /\ Policy.people = disk.people
           /\ Blank => Policy.groups = NoGroups
BY DEF Typed, IsTheFile, Policy, Blank

LEMMA FileInit == Init => IsTheFile
BY TerritoryAssumption DEF Init, IsTheFile, Unloaded, Unread, IsFile

LEMMA FileStep == Typed /\ IsTheFile /\ [Next]_vars => IsTheFile'
<1> SUFFICES ASSUME Typed, IsTheFile, [Next]_vars PROVE IsTheFile'
  OBVIOUS
<1>1. ASSUME NEW cat \in Catalogues \cup {Omitted}, NEW ppl \in Assignments \cup {Omitted},
             Save(cat, ppl)
      PROVE  IsTheFile'
  BY <1>1 DEF Save, IsTheFile, Typed
<1>2. ASSUME Looks, UNCHANGED disk PROVE IsTheFile'
  <2>1. mem' = Policy /\ Policy.stamp = disk.stamp /\ disk.stamp \in Nat
    BY <1>2, PolicyTyped DEF Looks, Typed
  <2>2. known' => ~Blank
    BY <1>2 DEF Looks, Blank
  <2>3. ~known' => Blank
    BY <1>2 DEF Looks, Blank, Typed
  <2> QED BY <1>2, <2>1, <2>2, <2>3, PolicyIsTheFile DEF IsTheFile, Blank
<1>3. ASSUME UNCHANGED <<mem, known>>, disk'.stamp = disk.stamp + 1,
             disk'.groups = disk.groups, disk'.people = disk.people
      PROVE  IsTheFile'
  BY <1>3 DEF IsTheFile, Typed, Unread
<1>4. CASE Damaged
  BY <1>3, <1>4 DEF Damaged, Typed
<1>5. CASE Mended
  BY <1>3, <1>5 DEF Mended, Typed
<1>6. CASE Restart
  BY <1>6 DEF Restart, IsTheFile, Unloaded, Unread, Typed
<1>7. ASSUME NEW p \in Persons, NEW t \in Tenants, NEW listing \in Listings[t],
             NEW vs \in SUBSET Venues, StartRun(p, t, listing, vs)
      PROVE  IsTheFile'
  BY <1>2, <1>7 DEF StartRun
<1>8. ASSUME NEW p \in Persons, NEW t \in Tenants, NEW v \in Venues, NEW o \in Outcomes,
             CheckVenue(p, t, v, o)
      PROVE  IsTheFile'
  BY <1>2, <1>8 DEF CheckVenue
<1>9. CASE Reads
  BY <1>2, <1>9 DEF Reads
<1>10. CASE UNCHANGED <<disk, mem, known>>
  BY <1>10 DEF IsTheFile
<1> QED BY <1>1, <1>4, <1>5, <1>6, <1>7, <1>8, <1>9, <1>10 DEF Next, Ages, vars

\* A step that leaves what the file says alone widens nobody's reach, unless it
\* leaves a process that has held no policy over a file that does not parse: while it
\* is one, everybody reaches everything (PolicyStore._load, scope_for).
THEOREM DamageIsHarmless == Spec => DamageWidensNobody
<1> DEFINE Alone == disk'.groups = disk.groups /\ disk'.people = disk.people
<1>1. ASSUME Typed, IsTheFile, Typed', IsTheFile', Alone, ~Blank'
      PROVE  \A p \in Persons : Reached(ScopeOf(p))' \subseteq Reached(ScopeOf(p))
  <2>1. Policy'.groups = disk'.groups /\ Policy'.people = disk'.people
    <3>1. (Typed /\ IsTheFile /\ ~Blank => Policy.groups = disk.groups /\ Policy.people = disk.people)'
      BY PolicyIsTheFile, PTL
    <3> QED BY <1>1, <3>1
  <2>2. CASE ~Blank
    <3>1. Policy.groups = disk.groups /\ Policy.people = disk.people
      BY <1>1, <2>2, PolicyIsTheFile
    <3>2. \A p \in Persons : ScopeIn(Policy', p) = ScopeIn(Policy, p)
      BY <1>1, <2>1, <3>1, ScopeOfBlocks
    <3> QED BY <3>2 DEF ScopeOf
  <2>3. CASE Blank
    <3>1. Policy.groups = NoGroups
      BY <1>1, <2>3, PolicyIsTheFile
    <3>2. \A p \in Persons : ScopeOf(p) = Unrestricted
      BY <3>1 DEF ScopeOf, ScopeIn, InForce, NoGroups
    <3>3. Reached(Unrestricted) = Tenants \X Venues
      BY DEF Reached, AllowsVenue, Covers, Unrestricted
    <3> QED BY <3>2, <3>3 DEF Reached
  <2> QED BY <2>2, <2>3
<1>2. Spec => [](Typed /\ IsTheFile)
  BY TypedInit, TypedStep, FileInit, FileStep, PTL DEF Spec
<1> QED BY <1>1, <1>2, PTL DEF DamageWidensNobody

---------------------------------------------------------------------------
\* What Save stores, given the guard: a catalogue that is not empty, or none and
\* nobody who holds a group, or what the exceptions name.
LEMMA SaveKnowingly ==
    ASSUME Typed, IsTheFile,
           NEW cat \in Catalogues \cup {Omitted}, NEW ppl \in Assignments \cup {Omitted},
           Save(cat, ppl), SwitchedOff
    PROVE  Holders(disk'.people) = {} \/ Blank \/ echoed'
<1>1. /\ disk'.groups = Unechoed(Sent(cat))
      /\ disk'.people = IF ppl = Omitted THEN Policy.people ELSE ppl
  BY DEF Save, Saved
<1> SUFFICES ASSUME ~Blank, ~echoed' PROVE Holders(disk'.people) = {}
  OBVIOUS
<1>2. Policy.groups = disk.groups
  BY PolicyIsTheFile
<1>3. DOMAIN Sent(cat) = {}
  BY <1>1 DEF Save, SwitchedOff, OnlyBuiltin
<1>4. cat # Omitted /\ DOMAIN cat = {}
  BY <1>2, <1>3 DEF SwitchedOff, Sent
<1> QED BY <1>1, <1>2, <1>4 DEF Save, GuardLastGroup, Cleared, InForce, SwitchedOff

\* Everybody else leaves the file's groups alone.
LEMMA OthersLeaveGroups ==
    ASSUME Typed, [Next]_vars,
           ~\E cat \in Catalogues \cup {Omitted}, ppl \in Assignments \cup {Omitted} : Save(cat, ppl)
    PROVE  ~SwitchedOff
<1>1. CASE Damaged
  BY <1>1 DEF Damaged, Typed, SwitchedOff
<1>2. CASE Mended
  BY <1>2 DEF Mended, Typed, SwitchedOff
<1>3. CASE UNCHANGED disk
  BY <1>3 DEF SwitchedOff
<1> QED BY <1>1, <1>2, <1>3 DEF Next, Reads, Restart, StartRun, CheckVenue, Ages, vars

\* The group model is never switched off under somebody who holds a group, but by a
\* process that has held no policy or by the built-in sent back alone
\* (admin_router._guard_last_group, PolicyStore.save).
THEOREM SwitchedOffKnowingly == Spec => TurnedOffKnowingly
<1> DEFINE Inv == Typed /\ IsTheFile
           Knowingly == SwitchedOff => Holders(disk'.people) = {} \/ Blank \/ echoed'
<1>1. Init => Inv
  BY TypedInit, FileInit
<1>2. Inv /\ [Next]_vars => Inv' /\ Knowingly
  <2> SUFFICES ASSUME Inv, [Next]_vars PROVE Knowingly
    BY TypedStep, FileStep
  <2>1. CASE \E cat \in Catalogues \cup {Omitted}, ppl \in Assignments \cup {Omitted} : Save(cat, ppl)
    BY <2>1, SaveKnowingly
  <2>2. CASE ~\E cat \in Catalogues \cup {Omitted}, ppl \in Assignments \cup {Omitted} : Save(cat, ppl)
    BY <2>2, OthersLeaveGroups
  <2> QED BY <2>1, <2>2
<1> QED BY <1>1, <1>2, PTL DEF Spec, TurnedOffKnowingly

---------------------------------------------------------------------------
\* restrict() drops whatever is beyond the caller before anything is counted.
LEMMA NarrowedBlind ==
    ASSUME Typed, NEW s, ~s.unrestricted, NEW hidden
    PROVE  /\ \A q \in Pairs : ~AllowsVenue(s, q[1], q[2])
                  => Narrowed(snap, s, hidden) = Narrowed(Without(q), s, hidden)
           /\ \A t \in Tenants : ~AllowsEc(s, t)
                  => Narrowed(snap, s, hidden) = Narrowed(WithoutTenant(t), s, hidden)
           /\ Narrowed(snap, s, hidden) = Narrowed(WithoutRuns, s, hidden)
<1> DEFINE Dir(d) == [t \in {u \in DOMAIN d : AllowsEc(s, u)} |-> {v \in d[t] : AllowsVenue(s, t, v)}]
           Rec(c) == [p \in {q \in DOMAIN c : AllowsVenue(s, q[1], q[2])} |-> StrippedRecord(c[p], hidden)]
<1>1. ASSUME NEW other, Dir(other.directory) = Dir(snap.directory), Rec(other.checks) = Rec(snap.checks)
      PROVE  Narrowed(snap, s, hidden) = Narrowed(other, s, hidden)
  BY <1>1 DEF Narrowed
<1>2. ASSUME NEW q \in Pairs, ~AllowsVenue(s, q[1], q[2])
      PROVE  Narrowed(snap, s, hidden) = Narrowed(Without(q), s, hidden)
  <2> DEFINE dir == [t \in DOMAIN snap.directory |->
                        IF t = q[1] THEN snap.directory[t] \ {q[2]} ELSE snap.directory[t]]
             chk == [r \in DOMAIN snap.checks \ {q} |-> snap.checks[r]]
  <2>1. Without(q).directory = dir /\ Without(q).checks = chk
    BY DEF Without, Typed
  <2>2. Dir(dir) = Dir(snap.directory)
    <3>1. \A t \in DOMAIN snap.directory :
              {v \in dir[t] : AllowsVenue(s, t, v)} = {v \in snap.directory[t] : AllowsVenue(s, t, v)}
      BY <1>2
    <3> QED BY <3>1
  <2>3. Rec(chk) = Rec(snap.checks)
    BY <1>2
  <2> QED BY <1>1, <2>1, <2>2, <2>3
<1>3. ASSUME NEW t \in Tenants, ~AllowsEc(s, t)
      PROVE  Narrowed(snap, s, hidden) = Narrowed(WithoutTenant(t), s, hidden)
  <2> DEFINE dir == [u \in DOMAIN snap.directory \ {t} |-> snap.directory[u]]
  <2>1. WithoutTenant(t).directory = dir /\ WithoutTenant(t).checks = snap.checks
    BY DEF WithoutTenant, Typed
  <2>2. Dir(dir) = Dir(snap.directory)
    BY <1>3
  <2> QED BY <1>1, <2>1, <2>2
<1>4. Narrowed(snap, s, hidden) = Narrowed(WithoutRuns, s, hidden)
  <2>1. WithoutRuns.directory = snap.directory /\ WithoutRuns.checks = snap.checks
    BY DEF WithoutRuns, Typed
  <2> QED BY <1>1, <2>1
<1> QED BY <1>2, <1>3, <1>4

LEMMA BlindHere == Typed => RollUpBlind
<1> SUFFICES ASSUME Typed, NEW p \in Persons
             PROVE  LET s == ScopeOf(p) IN
                    /\ \A q \in Pairs \ Reached(s) : Alike(p, Without(q), Tenants)
                    /\ \A t \in Tenants : ~AllowsEc(s, t) => Alike(p, WithoutTenant(t), Tenants \ {t})
                    /\ ~s.unrestricted => Alike(p, WithoutRuns, Tenants)
  BY DEF RollUpBlind
<1> DEFINE s == ScopeOf(p)
<1>1. ASSUME NEW other, NEW live, Narrowed(snap, s, Hides[p]) = Narrowed(other, s, Hides[p]),
             FilterEcs(s, live) = FilterEcs(s, Tenants)
      PROVE  Alike(p, other, live)
  BY <1>1 DEF Alike, Estate, OneTenant, Readable
<1>2. ASSUME NEW q \in Pairs \ Reached(s) PROVE Alike(p, Without(q), Tenants)
  <2>1. ~AllowsVenue(s, q[1], q[2]) /\ ~s.unrestricted
    BY DEF Reached, AllowsVenue, Pairs
  <2> QED BY <1>1, <2>1, NarrowedBlind
<1>3. ASSUME NEW t \in Tenants, ~AllowsEc(s, t) PROVE Alike(p, WithoutTenant(t), Tenants \ {t})
  <2>1. ~s.unrestricted /\ t \notin DOMAIN s.ecs
    BY <1>3 DEF AllowsEc
  <2>2. FilterEcs(s, Tenants \ {t}) = FilterEcs(s, Tenants)
    BY <2>1 DEF FilterEcs
  <2> QED BY <1>1, <1>3, <2>1, <2>2, NarrowedBlind
<1>4. ASSUME ~s.unrestricted PROVE Alike(p, WithoutRuns, Tenants)
  BY <1>1, <1>4, NarrowedBlind
<1> QED BY <1>2, <1>3, <1>4

\* No figure a caller is given depends on a venue, a customer or a run beyond
\* their reach, whatever the record holds (rollup.restrict).
THEOREM RollUpsAreBlind == Spec => []RollUpBlind
BY AlwaysTyped, BlindHere, PTL

----------------------------------------------------------------------------
(* Who may grant: the guards of both doors, for any accounts, identities,   *)
(* roles and documents.                                                     *)

\* A document changes the stored roles only if it changes the roles in force,
\* and is in force as it was sent: leaving unchanged built-ins out loses nothing.
LEMMA Normal ==
    ASSUME NEW doc \in Stored
    PROVE  /\ UnechoedRoles(doc) \in Stored
           /\ \A r \in Roles : UnechoedRoles(doc)[r] # NoRole => UnechoedRoles(doc)[r] # BuiltinRoles[r]
           /\ RolesInForce(UnechoedRoles(doc)) = RolesInForce(doc)
<1>1. \A r \in Roles : UnechoedRoles(doc)[r] = IF doc[r] = BuiltinRoles[r] THEN NoRole ELSE doc[r]
  BY DEF UnechoedRoles
<1>2. UnechoedRoles(doc) \in Stored
  BY DEF UnechoedRoles, Stored
<1>3. \A r \in Roles : RolesInForce(UnechoedRoles(doc))[r] = RolesInForce(doc)[r]
  BY <1>1 DEF RolesInForce
<1> QED BY <1>1, <1>2, <1>3 DEF RolesInForce

\* What a hidden block adds to a document: roles that confer nothing.
LEMMA Migration ==
    ASSUME NEW doc \in Stored, NEW hid
    PROVE  /\ MigratedHidden(doc, hid) \in Stored
           /\ \A r \in Roles :
                \/ RolesInForce(MigratedHidden(doc, hid))[r] = RolesInForce(doc)[r]
                \/ /\ RolesInForce(doc)[r] = NoRole
                   /\ RolesInForce(MigratedHidden(doc, hid))[r] = {}
<1>1. MigratedHidden(doc, hid) \in [Roles -> (SUBSET Grants) \cup {NoRole}]
  BY DEF MigratedHidden, BuiltinRoles, Stored
<1>2. ASSUME NEW r \in Roles
      PROVE  \/ RolesInForce(MigratedHidden(doc, hid))[r] = RolesInForce(doc)[r]
             \/ /\ RolesInForce(doc)[r] = NoRole
                /\ RolesInForce(MigratedHidden(doc, hid))[r] = {}
  <2>1. MigratedHidden(doc, hid)[r] = IF r \in hid /\ doc[r] = NoRole
                                      THEN IF BuiltinRoles[r] = NoRole THEN {} ELSE BuiltinRoles[r]
                                      ELSE doc[r]
    BY DEF MigratedHidden
  <2>2. /\ RolesInForce(doc)[r] = IF doc[r] # NoRole THEN doc[r] ELSE BuiltinRoles[r]
        /\ RolesInForce(MigratedHidden(doc, hid))[r] =
              IF MigratedHidden(doc, hid)[r] # NoRole THEN MigratedHidden(doc, hid)[r]
                                                      ELSE BuiltinRoles[r]
    BY DEF RolesInForce
  <2> QED BY <2>1, <2>2, RoleTierAssumption
<1> QED BY <1>1, <1>2 DEF Stored

\* What a save leaves in force: the document, and roles that confer nothing.
SavedRoles(doc, hid) == UnechoedRoles(MigratedHidden(doc, hid))
LEMMA SaveLeaves ==
    ASSUME NEW doc \in Stored, NEW hid
    PROVE  /\ SavedRoles(doc, hid) \in Stored
           /\ \A r \in Roles : SavedRoles(doc, hid)[r] # NoRole => SavedRoles(doc, hid)[r] # BuiltinRoles[r]
           /\ \A r \in Roles :
                \/ RolesInForce(SavedRoles(doc, hid))[r] = RolesInForce(doc)[r]
                \/ RolesInForce(doc)[r] = NoRole /\ RolesInForce(SavedRoles(doc, hid))[r] = {}
           /\ \A r : Confers(SavedRoles(doc, hid), r) = Confers(doc, r)
<1>1. MigratedHidden(doc, hid) \in Stored
  BY Migration
<1>2. /\ SavedRoles(doc, hid) \in Stored
      /\ \A r \in Roles : SavedRoles(doc, hid)[r] # NoRole => SavedRoles(doc, hid)[r] # BuiltinRoles[r]
      /\ RolesInForce(SavedRoles(doc, hid)) = RolesInForce(MigratedHidden(doc, hid))
  BY <1>1, Normal DEF SavedRoles
<1>3. \A r \in Roles :
        \/ RolesInForce(SavedRoles(doc, hid))[r] = RolesInForce(doc)[r]
        \/ RolesInForce(doc)[r] = NoRole /\ RolesInForce(SavedRoles(doc, hid))[r] = {}
  BY <1>2, Migration
<1>4. \A r : Confers(SavedRoles(doc, hid), r) = Confers(doc, r)
  BY <1>3 DEF Confers
<1> QED BY <1>2, <1>3, <1>4

---------------------------------------------------------------------------
\* The first administrator and an empty policy.
LEMMA TypesInit == TierInit => TypeOK
<1> SUFFICES ASSUME TierInit PROVE TypeOK
  OBVIOUS
<1>1. roles \in Stored /\ \A r \in Roles : roles[r] = NoRole
  BY DEF TierInit, Stored
<1>2. people \in RoleMaps
  BY DEF TierInit, RoleMaps
<1>3. acct \in [Accts -> Account \cup {NoAcct}]
  BY RoleTierAssumption DEF TierInit, Account
<1>4. req \in [Accts -> Requests]
  BY DEF TierInit, Requests
<1> QED BY <1>1, <1>2, <1>3, <1>4 DEF TypeOK

\* Every handler writes rows, roles and entries of the right kind.
LEMMA TypesStep == TypeOK /\ [TierNext]_tierVars => TypeOK'
<1> SUFFICES ASSUME TypeOK, [TierNext]_tierVars PROVE TypeOK'
  OBVIOUS
<1> USE DEF TypeOK
<1>1. NoReq \in Requests
  BY DEF Requests
<1>2. \A x \in Accts : Answered(x) => req' \in [Accts -> Requests]
  BY <1>1 DEF Answered
<1>3. ASSUME NEW x \in Accts, NEW door \in {"roles", "accounts"}, Begin(x, door) PROVE TypeOK'
  <2>1. acct[x] \in Account
    BY <1>3 DEF Begin, Usable, CanSignIn, Present
  <2>2. [door |-> door, stage |-> "gated", role |-> acct[x].role] \in Requests
    BY <2>1 DEF Requests, Account
  <2> QED BY <1>3, <2>2 DEF Begin
<1>4. ASSUME NEW x \in Accts, Admit(x) PROVE TypeOK'
  <2>1. req[x] \in [door: {"roles", "accounts"}, stage: {"gated", "admitted"}, role: Roles]
    BY <1>4 DEF Admit, Requests, NoReq
  <2>2. [req[x] EXCEPT !.stage = "admitted"] \in Requests
    BY <2>1 DEF Requests
  <2> QED BY <1>1, <1>4, <2>2 DEF Admit
<1>5. ASSUME NEW x \in Accts, Refused(x) PROVE TypeOK'
  BY <1>2, <1>5 DEF Refused
<1>6. ASSUME NEW x \in Accts, NEW doc \in Documents \cup {LeftOut},
             NEW ppl \in RoleMaps \cup {LeftOut}, NEW hid \in HiddenBlocks,
             PutRoles(x, doc, ppl, hid)
      PROVE  TypeOK'
  <2>1. (IF doc = LeftOut THEN roles ELSE doc) \in Stored
    BY RoleTierAssumption
  <2>2. roles' \in Stored /\ \A r \in Roles : roles'[r] # NoRole => roles'[r] # BuiltinRoles[r]
    BY <1>6, <2>1, SaveLeaves DEF PutRoles, SavedRoles
  <2>3. people' \in RoleMaps
    BY <1>6 DEF PutRoles
  <2> QED BY <1>2, <1>6, <2>2, <2>3 DEF PutRoles
<1>7. ASSUME NEW x \in Accts, NEW y \in Accts, NEW r \in Roles, Create(x, y, r) PROVE TypeOK'
  <2>1. [role |-> r, enrolled |-> FALSE, disabled |-> FALSE] \in Account
    BY DEF Account
  <2> QED BY <1>2, <1>7, <2>1 DEF Create
<1>8. ASSUME NEW x \in Accts, NEW y \in Accts, NEW r \in Roles \cup {LeftOut},
             NEW dis \in BOOLEAN \cup {LeftOut}, Patch(x, y, r, dis)
      PROVE  TypeOK'
  <2> DEFINE role == IF r = LeftOut THEN acct[y].role ELSE r
             off == IF dis = LeftOut THEN acct[y].disabled ELSE dis
  <2>1. acct[y] \in Account
    BY <1>8 DEF Patch, Present
  <2>2. role \in Roles /\ off \in BOOLEAN
    BY <2>1 DEF Account
  <2>3. acct' = [acct EXCEPT ![y] = [[@ EXCEPT !.role = role] EXCEPT !.disabled = off]]
    BY <1>8 DEF Patch
  <2>4. [[acct[y] EXCEPT !.role = role] EXCEPT !.disabled = off] \in Account
    BY <2>1, <2>2 DEF Account
  <2> QED BY <1>2, <1>8, <2>3, <2>4 DEF Patch
<1>9. ASSUME NEW x \in Accts, NEW y \in Accts, Delete(x, y) PROVE TypeOK'
  BY <1>2, <1>9 DEF Delete
<1>10. ASSUME NEW y \in Accts, Enrol(y) PROVE TypeOK'
  <2>1. [acct[y] EXCEPT !.enrolled = TRUE] \in Account
    BY <1>10 DEF Enrol, Present, Account
  <2> QED BY <1>10, <2>1 DEF Enrol
<1>11. CASE UNCHANGED tierVars
  BY <1>11 DEF tierVars
<1> QED BY <1>3, <1>4, <1>5, <1>6, <1>7, <1>8, <1>9, <1>10, <1>11 DEF TierNext, Handle

\* The types hold in every state.
THEOREM TierTypes == TierSpec => []TypeOK
BY TypesInit, TypesStep, PTL DEF TierSpec

---------------------------------------------------------------------------
\* Only the handler of a request answers it.
LEMMA OwnAnswer ==
    ASSUME TypeOK, TierNext, NEW x \in Accts, Answers(x)
    PROVE  Handle(x) \/ Refused(x)
<1>1. req \in [Accts -> Requests] /\ req[x].stage = "admitted" /\ req'[x] = NoReq
  BY DEF TypeOK, Answers
<1>2. req[x] # NoReq /\ req'[x] # req[x]
  BY <1>1 DEF NoReq
<1>3. PICK z \in Accts : \/ \E door \in {"roles", "accounts"} : Begin(z, door)
                         \/ Admit(z) \/ Handle(z) \/ Refused(z) \/ Enrol(z)
  BY DEF TierNext
<1>4. \A w \in Accts \ {x} : ~Answered(w)
  BY <1>1, <1>2 DEF Answered
<1>5. CASE \E door \in {"roles", "accounts"} : Begin(z, door)
  BY <1>1, <1>2, <1>5 DEF Begin
<1>6. CASE Admit(z)
  BY <1>1, <1>2, <1>6 DEF Admit
<1>7. CASE Enrol(z)
  BY <1>2, <1>7 DEF Enrol
<1>8. CASE Handle(z) \/ Refused(z)
  <2>1. Answered(z)
    BY <1>8 DEF Handle, Refused, PutRoles, Create, Patch, Delete
  <2> QED BY <1>4, <1>8, <2>1
<1> QED BY <1>3, <1>5, <1>6, <1>7, <1>8

\* What a PATCH leaves: y's row with the role and the flag, the others as they were.
LEMMA PatchedRow ==
    ASSUME TypeOK, NEW x \in Accts, NEW y \in Accts, NEW r \in Roles \cup {LeftOut},
           NEW dis \in BOOLEAN \cup {LeftOut}, Patch(x, y, r, dis)
    PROVE  /\ acct'[y] # NoAcct
           /\ acct'[y].enrolled = acct[y].enrolled
           /\ acct'[y].role = IF r = LeftOut THEN acct[y].role ELSE r
           /\ acct'[y].disabled = IF dis = LeftOut THEN acct[y].disabled ELSE dis
           /\ \A z \in Accts \ {y} : acct'[z] = acct[z]
<1> DEFINE role == IF r = LeftOut THEN acct[y].role ELSE r
           off == IF dis = LeftOut THEN acct[y].disabled ELSE dis
<1>1. acct \in [Accts -> Account \cup {NoAcct}] /\ acct[y] \in Account
  BY DEF Patch, Present, TypeOK
<1>2. role \in Roles /\ off \in BOOLEAN
  BY <1>1 DEF Account
<1>3. acct' = [acct EXCEPT ![y] = [[@ EXCEPT !.role = role] EXCEPT !.disabled = off]]
  BY DEF Patch
<1>4. acct'[y] \in Account
  BY <1>1, <1>2, <1>3 DEF Account
<1>5. acct'[y].role = role /\ acct'[y].disabled = off /\ acct'[y].enrolled = acct[y].enrolled
  BY <1>1, <1>3 DEF Account
<1> QED BY <1>1, <1>3, <1>4, <1>5, RoleTierAssumption

\* Somebody whose row and whose catalogue nobody touched stays what they were.
LEMMA Untouched ==
    ASSUME NEW z \in Usable, acct'[z] = acct[z], roles' = roles
    PROVE  z \in Usable' /\ \A g : Has(z, g)' <=> Has(z, g)
BY DEF Usable, CanSignIn, Present, Has, Confers, RolesInForce

---------------------------------------------------------------------------
\* A save by somebody who may not edit the catalogue changes no role and adds
\* only roles that confer nothing.
LEMMA CatalogueKept ==
    ASSUME TypeOK, NEW x \in Accts, NEW doc \in Documents \cup {LeftOut}, NEW ppl, NEW hid,
           PutRoles(x, doc, ppl, hid), ~MayEdit(x)
    PROVE  /\ \A r \in Roles :
                \/ RolesInForce(roles')[r] = RolesInForce(roles)[r]
                \/ RolesInForce(roles)[r] = NoRole /\ RolesInForce(roles')[r] = {}
           /\ \A r : Confers(roles', r) = Confers(roles, r)
<1>1. PICK sent \in Stored : sent = IF doc = LeftOut THEN roles ELSE doc
  BY RoleTierAssumption DEF TypeOK
<1>2. roles' = SavedRoles(sent, hid)
  BY <1>1 DEF PutRoles, SavedRoles
<1>3. RolesInForce(sent) = RolesInForce(roles)
  BY <1>1 DEF PutRoles, Permitted, EditsRoles
<1>4. \A r : Confers(sent, r) = Confers(roles, r)
  BY <1>3 DEF Confers
<1> QED BY <1>2, <1>3, <1>4, SaveLeaves

\* Once the tier exists its holders alone change what a role confers; whoever
\* else saves a document adds at most roles that confer nothing (rule 1 of
\* _require_role_authority, with its bootstrap rule, and _migrate_hidden).
THEOREM TierGuardsCatalogue == TierSpec => CatalogueGuarded
<1> DEFINE Kept == \A r \in Roles :
                \/ RolesInForce(roles')[r] = RolesInForce(roles)[r]
                \/ RolesInForce(roles)[r] = NoRole /\ RolesInForce(roles')[r] = {}
<1>1. ASSUME TypeOK, TierNext, Claimed, ~ByHolder PROVE Kept
  <2>1. CASE roles' = roles
    BY <2>1
  <2>2. ASSUME NEW x \in Accts, NEW doc \in Documents \cup {LeftOut},
               NEW ppl \in RoleMaps \cup {LeftOut}, NEW hid \in HiddenBlocks,
               PutRoles(x, doc, ppl, hid)
        PROVE  Kept
    <3>1. Answers(x)
      BY <1>1, <2>2 DEF PutRoles, At, Answered, Answers, TypeOK
    <3>2. ~MayEdit(x)
      BY <1>1, <3>1 DEF ByHolder, MayEdit
    <3> QED BY <1>1, <2>2, <3>2, CatalogueKept
  <2>3. CASE roles' # roles
    <3>1. PICK z \in Accts : Handle(z)
      BY <1>1, <2>3 DEF TierNext, Begin, Admit, Refused, Enrol
    <3>2. \A y \in Accts : ~Delete(z, y) /\ \A r \in Roles : ~Create(z, y, r)
      BY <2>3 DEF Create, Delete
    <3>3. \A y \in Accts, r \in Roles \cup {LeftOut}, dis \in BOOLEAN \cup {LeftOut} : ~Patch(z, y, r, dis)
      BY <2>3 DEF Patch
    <3> QED BY <2>2, <3>1, <3>2, <3>3 DEF Handle
  <2> QED BY <2>1, <2>3
<1>2. TypeOK /\ [TierNext]_tierVars => [Claimed /\ ~ByHolder => Kept]_tierVars
  BY <1>1
<1> QED BY <1>2, TierTypes, PTL DEF TierSpec, CatalogueGuarded

\* No operation on accounts leaves nobody who can administer (the last-admin
\* guards of AccountStore, for roles that somebody built).
THEOREM SomebodyAdministers == TierSpec => PortalKept
<1>1. ASSUME TypeOK, TierNext, roles' = roles, NEW a \in Usable, Has(a, Portal)
      PROVE  \E x \in Usable' : Has(x, Portal)'
  <2>1. ASSUME NEW z \in Usable, Has(z, Portal), acct'[z] = acct[z] PROVE z \in Usable' /\ Has(z, Portal)'
    BY <1>1, <2>1, Untouched
  <2>2. ASSUME NEW x \in Accts, NEW y \in Accts, Delete(x, y) PROVE \E z \in Usable' : Has(z, Portal)'
    <3>1. \A z \in Usable \ {y} : acct'[z] = acct[z]
      BY <1>1, <2>2 DEF Delete, TypeOK, Usable
    <3>2. \E z \in Usable \ {y} : Has(z, Portal)
      BY <1>1, <2>2 DEF Delete, LastAdmin, Usable
    <3> QED BY <2>1, <3>1, <3>2
  <2>3. ASSUME NEW x \in Accts, NEW y \in Accts, NEW r \in Roles \cup {LeftOut},
               NEW dis \in BOOLEAN \cup {LeftOut}, Patch(x, y, r, dis)
        PROVE  \E z \in Usable' : Has(z, Portal)'
    <3> DEFINE role == IF r = LeftOut THEN acct[y].role ELSE r
               off == IF dis = LeftOut THEN acct[y].disabled ELSE dis
    <3>1. /\ acct'[y] # NoAcct /\ acct'[y].enrolled = acct[y].enrolled
          /\ acct'[y].role = role /\ acct'[y].disabled = off
          /\ \A z \in Accts \ {y} : acct'[z] = acct[z]
      BY <1>1, <2>3, PatchedRow
    <3>2. CASE \E z \in Usable \ {y} : Has(z, Portal)
      BY <2>1, <3>1, <3>2 DEF Usable
    <3>3. CASE ~\E z \in Usable \ {y} : Has(z, Portal)
      <4>1. a = y /\ CanSignIn(y) /\ LastAdmin(y)
        BY <1>1, <3>3 DEF LastAdmin, Usable
      <4>2. ~off /\ Portal \in Confers(roles, role)
        BY <2>3, <4>1 DEF Patch
      <4>3. y \in Usable'
        BY <3>1, <4>1, <4>2 DEF Usable, CanSignIn, Present
      <4>4. Confers(roles', acct'[y].role) = Confers(roles, role)
        BY <1>1, <3>1 DEF Confers, RolesInForce
      <4> QED BY <4>2, <4>3, <4>4 DEF Has
    <3> QED BY <3>2, <3>3
  <2>4. ASSUME NEW x \in Accts, NEW y \in Accts, NEW r \in Roles, Create(x, y, r)
        PROVE  \E z \in Usable' : Has(z, Portal)'
    <3>1. acct'[a] = acct[a]
      BY <1>1, <2>4 DEF Create, Usable, CanSignIn, TypeOK
    <3> QED BY <1>1, <2>1, <3>1
  <2>5. ASSUME NEW y \in Accts, Enrol(y) PROVE \E z \in Usable' : Has(z, Portal)'
    <3>1. acct'[a] = acct[a]
      BY <1>1, <2>5 DEF Enrol, Usable, CanSignIn, TypeOK
    <3> QED BY <1>1, <2>1, <3>1
  <2>6. CASE acct' = acct
    BY <1>1, <2>1, <2>6
  <2> QED BY <1>1, <2>2, <2>3, <2>4, <2>5, <2>6
          DEF TierNext, Begin, Admit, Refused, Handle, PutRoles
<1>2. TypeOK /\ [TierNext]_tierVars
        => [roles' = roles /\ (\E x \in Usable : Has(x, Portal))
              => \E x \in Usable' : Has(x, Portal)']_tierVars
  BY <1>1
<1> QED BY <1>2, TierTypes, PTL DEF TierSpec, PortalKept

\* Nobody without admin.roles hands out, at either door, more than they hold
\* (rule 2 of _require_role_authority, and may_grant).
THEOREM NobodyEscalates == TierSpec => NoEscalation
<1> DEFINE Widened(y) == AccountGrants(y)' \ AccountGrants(y)
           Promoted(g) == Confers(roles, people[g])' \ Confers(roles, people[g])
<1>1. ASSUME TypeOK, TierNext, NEW x \in Accts, Answers(x), Claimed, Super \notin Held(x)
      PROVE  /\ \A y \in Accts : Widened(y) \subseteq Held(x)
             /\ \A g \in Ghosts : Promoted(g) \subseteq Held(x)
  <2>1. ASSUME roles' = roles, NEW y \in Accts, acct'[y] = acct[y] PROVE Widened(y) = {}
    BY <2>1 DEF AccountGrants, Present, Confers, RolesInForce
  <2>2. ASSUME roles' = roles, NEW y \in Accts, NEW r \in Roles, acct'[y].role = r,
               Confers(roles, r) \subseteq Held(x)
        PROVE  Widened(y) \subseteq Held(x)
    <3>1. AccountGrants(y)' \subseteq Confers(roles, r)
      BY <2>2 DEF AccountGrants, Confers, RolesInForce
    <3> QED BY <2>2, <3>1
  <2>3. ASSUME roles' = roles, people' = people, NEW g \in Ghosts PROVE Promoted(g) = {}
    BY <2>3 DEF Confers, RolesInForce
  <2>4. ASSUME NEW doc \in Documents \cup {LeftOut}, NEW ppl \in RoleMaps \cup {LeftOut},
               NEW hid \in HiddenBlocks, PutRoles(x, doc, ppl, hid)
        PROVE  /\ \A y \in Accts : Widened(y) \subseteq Held(x)
               /\ \A g \in Ghosts : Promoted(g) \subseteq Held(x)
    <3>1. ~MayEdit(x)
      BY <1>1 DEF MayEdit
    <3>2. \A r : Confers(roles', r) = Confers(roles, r)
      BY <1>1, <2>4, <3>1, CatalogueKept
    <3>3. acct' = acct /\ \A y \in Accts : Widened(y) = {}
      <4>1. acct' = acct
        BY <2>4 DEF PutRoles
      <4> QED BY <3>2, <4>1 DEF AccountGrants, Present
    <3>4. CASE ppl = LeftOut
      <4>1. people' = people
        BY <2>4, <3>4 DEF PutRoles
      <4>2. \A g \in Ghosts : Confers(roles, people[g])' = Confers(roles', people[g])
        BY <4>1
      <4> QED BY <3>2, <3>3, <4>2
    <3>5. CASE ppl # LeftOut
      <4>1. people' = ppl /\ Beyond(x, ppl) = {}
        BY <2>4, <3>1, <3>5 DEF PutRoles, Permitted
      <4>2. ASSUME NEW g \in Ghosts PROVE Promoted(g) \subseteq Held(x)
        <5>1. Confers(roles, people[g])' = Confers(roles, ppl[g])
          BY <3>2, <4>1
        <5>2. CASE people[g] = ppl[g]
          BY <5>1, <5>2
        <5>3. CASE people[g] # ppl[g]
          <6>1. g \in {h \in Ghosts : people[h] # ppl[h]}
            BY <5>3
          <6>2. Moved(g, ppl) \ Held(x) \subseteq Beyond(x, ppl)
            BY <6>1 DEF Beyond
          <6> QED BY <4>1, <5>1, <6>2 DEF Moved
        <5> QED BY <5>2, <5>3
      <4> QED BY <3>3, <4>2
    <3> QED BY <3>4, <3>5
  <2>5. ASSUME NEW y \in Accts, NEW r \in Roles, Create(x, y, r)
        PROVE  \A z \in Accts : Widened(z) \subseteq Held(x)
    <3>1. roles' = roles /\ Confers(roles, r) \subseteq Held(x)
      BY <1>1, <2>5 DEF Create, MayAssign
    <3>2. acct'[y].role = r /\ \A z \in Accts \ {y} : acct'[z] = acct[z]
      BY <1>1, <2>5 DEF Create, TypeOK
    <3> QED BY <2>1, <2>2, <3>1, <3>2
  <2>6. ASSUME NEW y \in Accts, NEW r \in Roles \cup {LeftOut},
               NEW dis \in BOOLEAN \cup {LeftOut}, Patch(x, y, r, dis)
        PROVE  \A z \in Accts : Widened(z) \subseteq Held(x)
    <3>1. roles' = roles /\ y \in Present
      BY <2>6 DEF Patch
    <3>2. /\ acct'[y].role = IF r = LeftOut THEN acct[y].role ELSE r
          /\ acct'[y] # NoAcct /\ \A z \in Accts \ {y} : acct'[z] = acct[z]
      BY <1>1, <2>6, PatchedRow
    <3>3. CASE r = LeftOut
      <4>1. Widened(y) = {}
        BY <3>1, <3>2, <3>3 DEF AccountGrants, Present, Confers, RolesInForce
      <4> QED BY <2>1, <3>1, <3>2, <4>1
    <3>4. CASE r # LeftOut
      <4>1. r \in Roles /\ Confers(roles, r) \subseteq Held(x)
        BY <1>1, <2>6, <3>4 DEF Patch, MayAssign
      <4> QED BY <2>1, <2>2, <3>1, <3>2, <3>4, <4>1
    <3> QED BY <3>3, <3>4
  <2>7. ASSUME NEW y \in Accts, Delete(x, y) PROVE \A z \in Accts : Widened(z) \subseteq Held(x)
    <3>1. roles' = roles /\ acct'[y] = NoAcct /\ \A z \in Accts \ {y} : acct'[z] = acct[z]
      BY <1>1, <2>7 DEF Delete, TypeOK
    <3>2. Widened(y) = {}
      BY <3>1 DEF AccountGrants, Present
    <3> QED BY <2>1, <3>1, <3>2
  <2>8. CASE Refused(x)
    BY <2>1, <2>3, <2>8 DEF Refused
  <2>9. CASE Handle(x)
    <3>1. ASSUME roles' = roles, people' = people PROVE \A g \in Ghosts : Promoted(g) \subseteq Held(x)
      BY <2>3, <3>1
    <3>2. ASSUME NEW y \in Accts, NEW r \in Roles, Create(x, y, r)
          PROVE  \A g \in Ghosts : Promoted(g) \subseteq Held(x)
      BY <3>1, <3>2 DEF Create
    <3>3. ASSUME NEW y \in Accts, NEW r \in Roles \cup {LeftOut},
                 NEW dis \in BOOLEAN \cup {LeftOut}, Patch(x, y, r, dis)
          PROVE  \A g \in Ghosts : Promoted(g) \subseteq Held(x)
      BY <3>1, <3>3 DEF Patch
    <3>4. ASSUME NEW y \in Accts, Delete(x, y)
          PROVE  \A g \in Ghosts : Promoted(g) \subseteq Held(x)
      BY <3>1, <3>4 DEF Delete
    <3> QED BY <2>4, <2>5, <2>6, <2>7, <2>9, <3>2, <3>3, <3>4 DEF Handle
  <2> QED BY <1>1, <2>8, <2>9, OwnAnswer
<1>2. TypeOK /\ [TierNext]_tierVars
        => [\A x \in Accts : Answers(x) /\ Claimed /\ Super \notin Held(x) =>
              /\ \A y \in Accts : AccountGrants(y)' \ AccountGrants(y) \subseteq Held(x)
              /\ \A g \in Ghosts :
                    Confers(roles, people[g])' \ Confers(roles, people[g]) \subseteq Held(x)]_tierVars
  BY <1>1
<1> QED BY <1>2, TierTypes, PTL DEF TierSpec, NoEscalation

\* With the portal's whole documents, a tier that exists keeps a holder (the two
\* _guard_last_super).
THEOREM TierKeepsHolder == WholeDocuments => (TierSpec => TierSurvives)
<1>1. ASSUME TypeOK, TierNext, WholeDocuments, Usable' = Usable, Claimed, Carriers(roles') # {}
      PROVE  Claimed'
  <2>1. ASSUME NEW x \in Accts, NEW doc \in Documents \cup {LeftOut},
               NEW ppl \in RoleMaps \cup {LeftOut}, NEW hid \in HiddenBlocks,
               PutRoles(x, doc, ppl, hid)
        PROVE  Claimed'
    <3>1. doc # LeftOut /\ ppl # LeftOut /\ doc \in Stored
      BY <1>1, <2>1, RoleTierAssumption DEF PutRoles
    <3>2. /\ roles' = SavedRoles(doc, hid) /\ people' = ppl /\ acct' = acct
          /\ ~Orphans(doc, ppl)
      BY <2>1, <3>1 DEF PutRoles, Permitted, SavedRoles
    <3>3. Carriers(roles') = Carriers(doc)
      BY <3>1, <3>2, SaveLeaves DEF Carriers
    <3>4. \/ \E g \in Ghosts : ppl[g] \in Carriers(doc)
          \/ \E z \in Usable : acct[z].role \in Carriers(doc)
      BY <1>1, <3>1, <3>2, <3>3 DEF Orphans
    <3>5. CASE \E g \in Ghosts : ppl[g] \in Carriers(doc)
      BY <3>2, <3>3, <3>5 DEF Claimed, Carriers
    <3>6. CASE \E z \in Usable : acct[z].role \in Carriers(doc)
      <4>1. PICK z \in Usable : acct[z].role \in Carriers(roles')
        BY <3>3, <3>6
      <4>2. z \in Usable' /\ Has(z, Super)'
        BY <1>1, <3>2, <4>1 DEF Has, Carriers
      <4> QED BY <4>2 DEF Claimed
    <3> QED BY <3>4, <3>5, <3>6
  <2>2. ASSUME roles' = roles, people' = people, NEW a \in Usable, Has(a, Super),
               Super \in Confers(roles, acct'[a].role)
        PROVE  Claimed'
    <3>1. Has(a, Super)'
      BY <2>2 DEF Has, Confers, RolesInForce
    <3> QED BY <1>1, <3>1 DEF Claimed
  <2>3. ASSUME roles' = roles, people' = people,
               \A a \in Usable : Has(a, Super) =>
                   \E b \in Usable : Has(b, Super) /\ Super \in Confers(roles, acct'[b].role)
        PROVE  Claimed'
    <3>1. CASE \E g \in Ghosts : people[g] \in Carriers(roles)
      BY <2>3, <3>1 DEF Claimed, Carriers, Confers, RolesInForce
    <3>2. CASE \E a \in Usable : Has(a, Super)
      BY <2>2, <2>3, <3>2
    <3> QED BY <1>1, <3>1, <3>2 DEF Claimed
  <2>4. ASSUME roles' = roles, people' = people, \A a \in Usable : acct'[a].role = acct[a].role
        PROVE  Claimed'
    BY <2>3, <2>4 DEF Has
  <2>5. ASSUME NEW x \in Accts, NEW y \in Accts, NEW r \in Roles, Create(x, y, r) PROVE Claimed'
    <3>1. \A a \in Usable : acct'[a] = acct[a]
      BY <1>1, <2>5 DEF Create, Usable, CanSignIn, TypeOK
    <3> QED BY <2>4, <2>5, <3>1 DEF Create
  <2>6. ASSUME NEW x \in Accts, NEW y \in Accts, NEW r \in Roles \cup {LeftOut},
               NEW dis \in BOOLEAN \cup {LeftOut}, Patch(x, y, r, dis)
        PROVE  Claimed'
    <3>1. /\ acct'[y].role = IF r = LeftOut THEN acct[y].role ELSE r
          /\ \A z \in Accts \ {y} : acct'[z] = acct[z]
      BY <1>1, <2>6, PatchedRow
    <3>2. roles' = roles /\ people' = people
      BY <2>6 DEF Patch
    <3>3. ASSUME NEW a \in Usable, Has(a, Super)
          PROVE  \E b \in Usable : Has(b, Super) /\ Super \in Confers(roles, acct'[b].role)
      <4>1. \A b \in Usable \ {y} : Has(b, Super) => Super \in Confers(roles, acct'[b].role)
        BY <3>1 DEF Has, Usable
      <4>2. CASE a # y
        BY <3>3, <4>1, <4>2
      <4>3. CASE a = y /\ Super \in Confers(roles, acct'[y].role)
        BY <3>3, <4>3
      <4>4. CASE a = y /\ Super \notin Confers(roles, acct'[y].role)
        <5>1. r # LeftOut /\ acct'[y].role = r
          BY <3>1, <3>3, <4>4 DEF Has
        <5>2. \E z \in Usable \ {y} : Has(z, Super)
          BY <1>1, <2>6, <3>3, <4>4, <5>1 DEF Patch, LastSuper
        <5> QED BY <4>1, <5>2
      <4> QED BY <4>2, <4>3, <4>4
    <3> QED BY <2>3, <3>2, <3>3
  <2>7. ASSUME NEW x \in Accts, NEW y \in Accts, Delete(x, y) PROVE Claimed'
    <3>1. acct'[y] = NoAcct /\ \A z \in Accts \ {y} : acct'[z] = acct[z]
      BY <1>1, <2>7 DEF Delete, TypeOK
    <3>2. y \notin Usable
      BY <1>1, <3>1 DEF Usable, CanSignIn, Present
    <3> QED BY <2>4, <2>7, <3>1, <3>2 DEF Delete, Usable
  <2>8. ASSUME NEW y \in Accts, Enrol(y) PROVE Claimed'
    <3>1. \A a \in Usable : acct'[a] = acct[a]
      BY <1>1, <2>8 DEF Enrol, Usable, CanSignIn, TypeOK
    <3> QED BY <2>4, <2>8, <3>1 DEF Enrol
  <2>9. CASE UNCHANGED <<roles, people, acct>>
    BY <2>4, <2>9
  <2> QED BY <1>1, <2>1, <2>5, <2>6, <2>7, <2>8, <2>9 DEF TierNext, Begin, Admit, Refused, Handle
<1>2. SUFFICES ASSUME WholeDocuments PROVE TierSpec => TierSurvives
  OBVIOUS
<1>3. TypeOK /\ [TierNext]_tierVars
        => [Usable' = Usable /\ Claimed /\ Carriers(roles') # {} => Claimed']_tierVars
  BY <1>1, <1>2
<1> QED BY <1>3, TierTypes, PTL DEF TierSpec, TierSurvives
============================================================================
