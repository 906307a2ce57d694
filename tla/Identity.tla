------------------------------ MODULE Identity -----------------------------
(* DPSK and the policies behind it: the pools this venue reaches, the policy *)
(* sets in scope, the chain from a set to a rate tier, and the checks over   *)
(* them (shape.py, checks.py).                                             *)
EXTENDS Findings

CONSTANTS NoSet, NoPool, NoRadius
Unread == -1        \* a passphrase count that could not be read

\* dpsk_card(): a pool is this venue's by an activated network, or by an identity
\* group of its property.
LinkedGroups(pool, groups) == {g \in groups : g.pool = pool.id}
PoolRow(pool, groups, activated, count) ==
    [id |-> pool.id, set |-> pool.set, rejects |-> pool.rejects,
     networks |-> pool.networks,
     here     |-> pool.networks \cap activated,
     groups   |-> LinkedGroups(pool, groups),
     count    |-> count]
UsedHere(pool, groups, activated) ==
    \/ pool.networks \cap activated # {}
    \/ \E g \in LinkedGroups(pool, groups) : g.property
PoolRows(pools, groups, activated, counts) ==
    {PoolRow(p, groups, activated, counts[p.id]) : p \in {q \in pools : UsedHere(q, groups, activated)}}
\* The property's groups on none of these pools; their rows carry no policy set.
OtherGroups(pools, groups, activated) ==
    {[id |-> g.id, set |-> NoSet] :
        g \in {h \in groups : h.property /\ h.pool \notin {p.id : p \in {q \in pools : UsedHere(q, groups, activated)}}}}

\* scoped_policy_set_ids(): what the pools and the other groups name, and every set
\* assigned to one of the pools.
ScopedSets(rows, others, sets) ==
    (({r.set : r \in rows} \cup {g.set : g \in others}) \ {NoSet})
    \cup {s.id : s \in {t \in sets : t.pools \cap {r.id : r \in rows} # {}}}

\* policy_card(): a set's members resolved against the policies, and each policy's
\* rate tier against the RADIUS groups.
Resolved(members, policies) == {p \in policies : p.id \in members}
SetRow(s, members, policies, radius) ==
    [id         |-> s.id,
     policies   |-> Resolved(members, policies),
     unresolved |-> members \ {p.id : p \in policies},
     missing    |-> {p \in Resolved(members, policies) : p.radius # NoRadius /\ p.radius \notin {g.id : g \in radius}}]
RadiusRow(g, assignments, policies) ==
    [id |-> g.id, uses |-> {p.id : p \in {q \in policies : q.radius = g.id}},
     orphaned |-> assignments \ {p.id : p \in policies}]
PolicyCard(scoped, sets, policies, radius, members, assignments) ==
    LET rows == {SetRow(s, members[s.id], policies, radius) : s \in {t \in sets : t.id \in scoped}}
        used == {p.radius : p \in UNION {r.policies : r \in rows}}
    IN  [sets |-> rows,
         radius |-> {RadiusRow(g, assignments[g.id], policies) : g \in {h \in radius : h.id \in used}}]

---------------------------------------------------------------------------
Pools(rows) == {<<"pool", r.id>> : r \in rows}
DpskInUse(rows) == Finding("dpsk-in-use", IF rows = {} THEN "skipped" ELSE "ok", Pools(rows))
DpskPassphrases(rows) ==
    LET empty == {r \in rows : r.count = 0} IN
    CASE empty # {} -> Finding("dpsk-passphrases", "critical", Pools(empty))
      [] empty = {} /\ (rows = {} \/ \E r \in rows : r.count = Unread) -> Finding("dpsk-passphrases", "skipped", {})
      [] OTHER -> Finding("dpsk-passphrases", "ok", {})
\* A pool is an orphan only against a list of groups known to be whole.
DpskIdentityGroups(rows, complete) ==
    Judged("dpsk-identity-groups", rows = {} \/ ~complete, Pools({r \in rows : r.groups = {}}), "warning")
PolicyChain(card) ==
    Judged("policy-chain", card.sets = {},
           {<<"policy", pid>> : pid \in UNION {r.unresolved : r \in card.sets}}
           \cup {<<"policy", p.id>> : p \in UNION {r.missing : r \in card.sets}}, "warning")
PolicySetPopulated(card) ==
    Judged("policy-set-empty", card.sets = {}, {<<"set", r.id>> : r \in {q \in card.sets : q.policies = {}}}, "warning")
RadiusOrphans(card) ==
    Judged("radius-group-orphans", card.sets = {},
           {<<"radius", r.id>> : r \in {q \in card.radius : q.orphaned # {}}}, "warning")
============================================================================
