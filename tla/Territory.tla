----------------------------- MODULE Territory -----------------------------
(* Territories in a running server: the policy file and the copy of it in  *)
(* memory (PolicyStore of visibility.py), the saves of an administrator    *)
(* with their guard (admin_router.py), and the callers, who check venues   *)
(* in batches and read the sums (batch_router.py).  No handler here waits  *)
(* between reading the policy and using it, so each is one action; a run   *)
(* is many requests, and saves, restarts and other runs fall between them. *)
EXTENDS RollUp

CONSTANTS
    Persons,          \* identities
    Groups,           \* group ids
    AllAccess,        \* the id of the built-in group
    Unplaced,         \* nobody gave this person a group list
    Omitted,          \* a block the caller did not send
    Catalogues,       \* the resourceGroups documents an administrator sends
    Assignments,      \* the people documents
    Hides,            \* the check ids each person's role hides
    StartDisk,        \* the file the server starts from
    StartSnap,        \* the batch record the server starts from
    Listings,         \* the venue lists a dialog of each customer may hold
    Outcomes,         \* [attempt, summary]: what a poll may come back with
    MaxWrites,        \* bound: changes of the file
    MaxRuns           \* bound: runs on record

PeopleMaps == [Persons -> {Unplaced} \cup (SUBSET Groups)]
IsStored(gs) == DOMAIN gs \subseteq Groups /\ \A g \in DOMAIN gs : IsGroup(gs[g])
NoGroups == [g \in {} |-> {}]
NoPeople == [p \in Persons |-> Unplaced]
IsFile(f) ==
    /\ DOMAIN f = {"state", "stamp", "groups", "people"}
    /\ f.state \in {"ok", "damaged"} /\ f.stamp \in 0..MaxWrites
    /\ IsStored(f.groups) /\ f.people \in PeopleMaps
Unread == -1   \* _loaded is False

ASSUME TerritoryAssumption ==
    /\ AllAccess \in Groups
    /\ (\A cat \in Catalogues : IsStored(cat)) /\ Assignments \subseteq PeopleMaps
    /\ Hides \in [Persons -> SUBSET Checks]
    /\ IsFile(StartDisk) /\ IsSnapshot(StartSnap)
    /\ Listings \in [Tenants -> SUBSET (SUBSET Venues)]
    /\ \A gs \in SUBSET Groups : gs # Unplaced
    /\ MaxWrites \in Nat /\ MaxRuns \in Nat

VARIABLES
    disk,      \* the policy file
    mem,       \* PolicyStore: _stamp, _groups, _people
    snap,      \* the batch record
    known,     \* history: has this process held a policy that was in the file?
    echoed     \* history: was the last catalogue saved the built-in group and no other?
vars == <<disk, mem, snap, known, echoed>>

Unloaded == [stamp |-> Unread, groups |-> NoGroups, people |-> NoPeople]

---------------------------------------------------------------------------
\* _load(): read again when the stamp moved; a file that does not parse
\* leaves what is in memory.
MutPolicy ==
    IF mem.stamp = disk.stamp THEN mem
    ELSE IF disk.state = "damaged" THEN Unloaded
    ELSE [stamp |-> disk.stamp, groups |-> disk.groups, people |-> disk.people]
Policy ==
    IF mem.stamp = disk.stamp THEN mem
    ELSE IF disk.state = "damaged" THEN [mem EXCEPT !.stamp = disk.stamp]
    ELSE [stamp |-> disk.stamp, groups |-> disk.groups, people |-> disk.people]
Looks ==
    /\ mem' = Policy
    /\ known' = (known \/ disk.state = "ok")
\* A process that has held no policy, over a file that does not parse.
Blank == ~known /\ disk.state = "damaged"

InForce(pol) == DOMAIN pol.groups # {}
\* resolve(): the built-in, unless a stored group has its id
Builtin == [all |-> TRUE, ecs |-> NoMap]
Resolved(pol, g) ==
    IF g \in DOMAIN pol.groups THEN pol.groups[g]
    ELSE IF g = AllAccess THEN Builtin
    ELSE NoGroup
\* scope_for(): unrestricted until there is a group, then the person's groups
ScopeIn(pol, p) ==
    IF ~InForce(pol) THEN Unrestricted
    ELSE IF pol.people[p] = Unplaced THEN Nothing
    ELSE Union({Resolved(pol, g) : g \in pol.people[p]})
ScopeOf(p) == ScopeIn(Policy, p)

Init ==
    /\ disk = StartDisk
    /\ mem = Unloaded
    /\ snap = StartSnap
    /\ known = FALSE /\ echoed = FALSE

---------------------------------------------------------------------------
\* PUT /admin/roles, the blocks that decide reach.
Cleared(cat) == cat # Omitted /\ DOMAIN cat = {}
Holders(ppl) == {p \in Persons : ppl[p] \notin {Unplaced, {}}}
\* _guard_last_group: the people as submitted, or as stored
MutGuardLastGroup(cat, ppl) == TRUE
GuardLastGroup(cat, ppl) ==
    Cleared(cat) /\ InForce(Policy) =>
        Holders(IF ppl = Omitted THEN Policy.people ELSE ppl) = {}

\* save(): an omitted block stays as it is in memory; a built-in that was
\* not changed is not written back
Unechoed(cat) == [g \in {h \in DOMAIN cat : ~(h = AllAccess /\ cat[h] = Builtin)} |-> cat[g]]
Sent(cat) == IF cat = Omitted THEN Policy.groups ELSE cat
OnlyBuiltin(cat) == DOMAIN cat # {} /\ DOMAIN Unechoed(cat) = {}
Saved(cat, ppl) ==
    [groups |-> Unechoed(Sent(cat)),
     people |-> IF ppl = Omitted THEN Policy.people ELSE ppl]

Save(cat, ppl) ==
    /\ disk.stamp < MaxWrites
    /\ GuardLastGroup(cat, ppl)
    /\ LET doc == Saved(cat, ppl) IN
       /\ disk' = [state |-> "ok", stamp |-> disk.stamp + 1,
                   groups |-> doc.groups, people |-> doc.people]
       /\ mem' = [stamp |-> disk.stamp + 1, groups |-> doc.groups, people |-> doc.people]
    /\ known' = TRUE /\ echoed' = OnlyBuiltin(Sent(cat))
    /\ UNCHANGED snap

\* A save that is refused, or fails before the rename, has only read the file.
Reads ==
    /\ Looks
    /\ UNCHANGED <<disk, snap, echoed>>

\* The file is damaged from outside, and mended with what it held.
Damaged ==
    /\ disk.state = "ok" /\ disk.stamp < MaxWrites
    /\ disk' = [disk EXCEPT !.state = "damaged", !.stamp = @ + 1]
    /\ UNCHANGED <<mem, snap, known, echoed>>
Mended ==
    /\ disk.state = "damaged" /\ disk.stamp < MaxWrites
    /\ disk' = [disk EXCEPT !.state = "ok", !.stamp = @ + 1]
    /\ UNCHANGED <<mem, snap, known, echoed>>

\* The server starts again: the policy is not loaded, the record is.
Restart ==
    /\ mem' = Unloaded /\ known' = FALSE
    /\ UNCHANGED <<disk, snap, echoed>>

---------------------------------------------------------------------------
\* POST /batch/runs with the list of venues a dialog holds and those ticked in
\* it: each to be checked within the scope, and the whole list noted as the
\* customer's directory.
StartRun(p, t, listing, vs) ==
    /\ Cardinality(snap.runs) < MaxRuns
    /\ vs # {} /\ vs \subseteq listing
    /\ AllowsEc(ScopeOf(p), t)
    /\ \A v \in vs : AllowsVenue(ScopeOf(p), t, v)
    /\ Looks
    /\ snap' = [snap EXCEPT
          !.directory = [u \in DOMAIN @ \cup {t} |-> IF u = t THEN listing ELSE @[u]],
          !.runs = @ \cup {[tenant |-> t, planned |-> vs]}]
    /\ UNCHANGED <<disk, echoed>>

\* POST /batch/runs/../venues/..: one venue of a run, once its poll is back
\* (BatchRuns models the wait in between, and the runs that are finished)
Recorded(r, outcome) ==
    [complete |-> IF outcome.attempt = "ok" THEN outcome.summary ELSE r.complete,
     fresh |-> outcome.attempt = "ok" \/ r.fresh,
     attempt |-> outcome.attempt]
NoRecord == [complete |-> NoSummary, fresh |-> FALSE, attempt |-> "failed"]
CheckVenue(p, t, v, outcome) ==
    /\ \E run \in snap.runs : run.tenant = t /\ v \in run.planned
    /\ AllowsEc(ScopeOf(p), t) /\ AllowsVenue(ScopeOf(p), t, v)
    /\ Looks
    /\ LET was == IF <<t, v>> \in DOMAIN snap.checks THEN snap.checks[<<t, v>>] ELSE NoRecord
       IN  snap' = [snap EXCEPT !.checks =
               [q \in DOMAIN @ \cup {<<t, v>>} |->
                   IF q = <<t, v>> THEN Recorded(was, outcome) ELSE @[q]]]
    /\ UNCHANGED <<disk, echoed>>

\* A check is no longer fresh.
Ages(q) ==
    /\ q \in DOMAIN snap.checks /\ snap.checks[q].fresh
    /\ snap' = [snap EXCEPT !.checks[q].fresh = FALSE]
    /\ UNCHANGED <<disk, mem, known, echoed>>

---------------------------------------------------------------------------
\* What the roll-up routes answer: one customer, or all of them with the live
\* list of customers as a second source.
Readable(snapshot, s, hidden) == Narrowed(snapshot, s, hidden)
Estate(snapshot, s, hidden, live) ==
    MspRollup(Readable(snapshot, s, hidden), FilterEcs(s, live))
OneTenant(snapshot, s, hidden, t) == TenantRollup(Readable(snapshot, s, hidden), t)

---------------------------------------------------------------------------
Next ==
    \/ \E cat \in Catalogues \cup {Omitted}, ppl \in Assignments \cup {Omitted} : Save(cat, ppl)
    \/ Reads \/ Damaged \/ Mended \/ Restart
    \/ \E p \in Persons, t \in Tenants :
          \E listing \in Listings[t], vs \in SUBSET Venues : StartRun(p, t, listing, vs)
    \/ \E p \in Persons, t \in Tenants, v \in Venues, o \in Outcomes : CheckVenue(p, t, v, o)
    \/ \E q \in Pairs : Ages(q)
Spec == Init /\ [][Next]_vars

---------------------------------------------------------------------------
\* The record as it would be if a pair had never been listed or checked.
Without(q) ==
    [snap EXCEPT !.directory = [t \in DOMAIN @ |-> IF t = q[1] THEN @[t] \ {q[2]} ELSE @[t]],
                 !.checks = [r \in DOMAIN @ \ {q} |-> @[r]]]
\* Or a customer, or the history of runs.
WithoutTenant(t) == [snap EXCEPT !.directory = [u \in DOMAIN @ \ {t} |-> @[u]]]
WithoutRuns == [snap EXCEPT !.runs = {}]
Alike(p, other, live) ==
    LET s == ScopeOf(p) IN
    /\ Estate(snap, s, Hides[p], Tenants) = Estate(other, s, Hides[p], live)
    /\ \A t \in Tenants : AllowsEc(s, t) =>
          OneTenant(snap, s, Hides[p], t) = OneTenant(other, s, Hides[p], t)
\* No figure of a roll-up depends on what the caller may not see: take a venue,
\* a customer or the runs beyond the caller's reach out of the record, and
\* every count, sum and denominator is the same (rollup.restrict, and the live
\* list of customers in get_rollup_pdf).
RollUpBlind ==
    \A p \in Persons : LET s == ScopeOf(p) IN
        /\ \A q \in Pairs \ Reached(s) : Alike(p, Without(q), Tenants)
        /\ \A t \in Tenants : ~AllowsEc(s, t) => Alike(p, WithoutTenant(t), Tenants \ {t})
        /\ ~s.unrestricted => Alike(p, WithoutRuns, Tenants)

\* Ticking one more group never takes reach away, whatever the groups in force
\* say (resource_groups.union).
GroupsAdd ==
    \A p \in Persons, g \in Groups :
        Policy.people[p] # Unplaced =>
            Reached(ScopeOf(p)) \subseteq
                Reached(ScopeIn([Policy EXCEPT !.people[p] = @ \cup {g}], p))

\* A step that leaves what the file says alone - a damaged or mended file, a
\* reload, a restart, an answer - widens nobody's reach, unless it leaves a process
\* that has held no policy over a file that does not parse (PolicyStore._load).
DamageWidensNobody ==
    [][ disk'.groups = disk.groups /\ disk'.people = disk.people /\ ~Blank'
        => \A p \in Persons : Reached(ScopeOf(p))' \subseteq Reached(ScopeOf(p)) ]_vars

\* The group model is not switched off while somebody still holds a group, but by a
\* process that has held no policy or by the built-in group sent back alone
\* (admin_router._guard_last_group, PolicyStore.save).
SwitchedOff == DOMAIN disk.groups # {} /\ DOMAIN disk'.groups = {}
TurnedOffKnowingly == [][ SwitchedOff => Holders(disk'.people) = {} \/ Blank \/ echoed' ]_vars
============================================================================
