--------------------------- MODULE MCTerritory ---------------------------
(* Territory on a small instance: a boss who reaches everything and a desk *)
(* that is given this or that, two customers with two venues and one.      *)
EXTENDS Territory, TLC

CONSTANTS boss, desk, t1, t2, v1, v2, v3, north, south, everything, c1

MCPersons == {boss, desk}
MCTenants == {t1, t2}
MCVenues == {v1, v2, v3}
MCGroups == {north, south, everything}
MCListings == t1 :> {{v1}, {v1, v2}} @@ t2 :> {{v3}}

One(vs) == [all |-> FALSE, ecs |-> t1 :> vs]
Both == north :> One({v1}) @@ south :> One(AllVenues)
\* One group, two that overlap, none, the built-in sent back.
MCCatalogues == {north :> One({v1}), Both, NoGroups, everything :> Builtin}
People(b, d) == boss :> b @@ desk :> d
MCAssignments == {People({everything}, {north}), People({everything}, {south}),
                  People(Unplaced, {})}
MCHides == boss :> {} @@ desk :> {c1}
MCDisk == [state |-> "ok", stamp |-> 0, groups |-> Both, people |-> People({everything}, {north})]

Told(critical, named) ==
    [counts |-> [sev \in Severities |-> IF sev = "critical" THEN critical ELSE 0],
     named |-> named]
Naming(cs) == [sev \in Severities |-> IF sev = "critical" THEN cs ELSE {}]
\* A task of a known check, and a poll that did not read everything.
MCOutcomes == {[attempt |-> "ok", summary |-> Told(1, Naming({c1}))],
               [attempt |-> "partial", summary |-> NoSummary]}
\* The second customer was batched before the server started.
MCSnap == [directory |-> t2 :> {v3},
           checks |-> <<t2, v3>> :> [complete |-> Told(1, Naming({c1})), fresh |-> FALSE,
                                     attempt |-> "partial"],
           runs |-> {[tenant |-> t2, planned |-> {v3}]}]
===========================================================================
