------------------------------- MODULE Reach -------------------------------
(* Whose networks somebody may look at: the scope of scope.py and the      *)
(* resource groups of resource_groups.py it is made from.  A scope is      *)
(* either unrestricted or a map from customers to their venues, or to all  *)
(* of them.  An empty map reaches nothing.                                 *)
EXTENDS FiniteSets, Integers

CONSTANTS
    Tenants,      \* customers (MSP-ECs)
    Venues,       \* venue ids
    AllVenues,    \* ALL_VENUES: every venue of the customer, later ones included
    NoGroup,      \* an id that names no group
    NoId          \* a row that carries no id

ASSUME ReachAssumption ==
    /\ \A vs \in SUBSET Venues : vs # AllVenues
    /\ NoId \notin Tenants

\* An explicit list of venues may be empty, and then it means none.
Coverage == {AllVenues} \cup (SUBSET Venues)
IsMap(f) == DOMAIN f \subseteq Tenants /\ f \in [DOMAIN f -> Coverage]
IsGroup(g) == g.all \in BOOLEAN /\ IsMap(g.ecs)

NoMap == [t \in {} |-> {}]
Unrestricted == [unrestricted |-> TRUE, ecs |-> NoMap]
Nothing == [unrestricted |-> FALSE, ecs |-> NoMap]

Covers(vs, v) == v \in (IF vs = AllVenues THEN Venues ELSE vs)

---------------------------------------------------------------------------
\* The two questions the routes ask.
AllowsEc(s, t) == s.unrestricted \/ t \in DOMAIN s.ecs
AllowsVenue(s, t, v) == s.unrestricted \/ (t \in DOMAIN s.ecs /\ Covers(s.ecs[t], v))

\* And the two lists they filter.  A row without an id cannot be vouched for.
FilterEcs(s, rows) == IF s.unrestricted THEN rows ELSE rows \cap DOMAIN s.ecs
FilterVenues(s, t, vs) ==
    IF s.unrestricted THEN vs
    ELSE IF t \notin DOMAIN s.ecs THEN {}
    ELSE {v \in vs : Covers(s.ecs[t], v)}

\* What a scope reaches, as pairs: for the properties, not in the code.
Reached(s) == {p \in Tenants \X Venues : AllowsVenue(s, p[1], p[2])}

---------------------------------------------------------------------------
\* resource_groups.union(): a group that is everything wins, all venues of a
\* customer absorb a list of them, and a group that is gone adds nothing.
Live(gs) == gs \ {NoGroup}
Holding(gs, t) == {g \in Live(gs) : t \in DOMAIN g.ecs}
MutJoined(gs, t) ==
    IF \A g \in Holding(gs, t) : g.ecs[t] = AllVenues
    THEN AllVenues
    ELSE UNION {g.ecs[t] : g \in {h \in Holding(gs, t) : h.ecs[t] # AllVenues}}
Joined(gs, t) ==
    IF \E g \in Holding(gs, t) : g.ecs[t] = AllVenues
    THEN AllVenues
    ELSE UNION {g.ecs[t] : g \in Holding(gs, t)}
Union(gs) ==
    IF \E g \in Live(gs) : g.all THEN Unrestricted
    ELSE [unrestricted |-> FALSE,
          ecs |-> [t \in UNION {DOMAIN g.ecs : g \in Live(gs)} |-> Joined(gs, t)]]
============================================================================
