------------------------------- MODULE Trace -------------------------------
(* The identity trace (trace.py): a DPSK username followed to the policy     *)
(* that catches it, the networks that policy names, its VLAN and the APs.     *)
(* A regex is what it matches, or Invalid when Python's re cannot compile it; *)
(* a policy is found in its set by priority, the lowest first.               *)
EXTENDS Identity

CONSTANTS NoPolicy, NoVlan, Invalid

\* _all_match(): conditions of one kind are joined; an answer "no" needs only one.
AllMatch(patterns, name) ==
    CASE \E p \in patterns : p # Invalid /\ name \notin p -> "no"
      [] (~\E p \in patterns : p # Invalid /\ name \notin p) /\ Invalid \in patterns -> "unknown"
      [] OTHER -> "yes"

\* What the trace has to go on: the policies of each scoped set, and only those.
SetPolicies(t, setId) ==
    IF setId \in t.scoped THEN {p \in t.policies : p.id \in t.members[setId]} ELSE {}
UserSet(e, pool) ==
    IF pool.set # NoSet THEN pool.set
    ELSE IF \E g \in pool.groups : g.id = e.group THEN (CHOOSE g \in pool.groups : g.id = e.group).set ELSE NoSet
Candidates(t, e, setId) ==
    {p \in SetPolicies(t, setId) : p.read /\ AllMatch(p.users, e.name) = "yes"}
First(policies) == CHOOSE p \in policies : \A q \in policies : p.priority <= q.priority
Winner(t, e, pool) == First(Candidates(t, e, UserSet(e, pool)))
Named(t, e, setId) == {p \in SetPolicies(t, setId) : p.id = e.policyNamed}

\* networks_for(): every network of the tenant whose SSID matches.
Hits(t, patterns) == {n \in t.networks : AllMatch(patterns, n.ssid) = "yes"}
Ids(networks) == {n.id : n \in networks}
Activated(t) == {a.network : a \in t.activations}
GroupsOf(t, nid) ==
    UNION {IF a.all THEN t.groups ELSE a.groups : a \in {b \in t.activations : b.network = nid}}
HasAps(t, nid) == \E v \in t.aps : v.group \in GroupsOf(t, nid)
NetworksOf(t, pool, policy) ==
    IF policy.ssids # {} THEN Ids(Hits(t, policy.ssids)) ELSE pool.networks \cap Activated(t)

\* The issues of a user some policy catches: where that policy's SSID leads.
CaughtIssues(t, e, pool, policy) ==
    LET nets == NetworksOf(t, pool, policy)
        here == nets \cap Activated(t)
        unsure == \E n \in t.networks : AllMatch(policy.ssids, n.ssid) = "unknown"
    IN  {i \in {"shadowed", "regex-invalid", "ssid-no-network", "no-ssid-condition", "ssid-not-here", "ssid-not-pool", "no-aps"} :
            CASE i = "shadowed"          -> \E q \in Candidates(t, e, UserSet(e, pool)) \ {policy} : q.users # {}
              [] i = "regex-invalid"     -> policy.ssids # {} /\ nets = {} /\ unsure
              [] i = "ssid-no-network"   -> policy.ssids # {} /\ nets = {} /\ ~unsure
              [] i = "no-ssid-condition" -> policy.ssids = {}
              [] i = "ssid-not-here"     -> nets # {} /\ here = {}
              [] i = "ssid-not-pool"     -> here # {} /\ pool.networks # {} /\ here \cap pool.networks = {}
              [] i = "no-aps"            -> here # {} /\ ~\E n \in here : HasAps(t, n)}
\* The issues of a user none does: a verdict only when everything could be read.
MutUncaughtIssues(t, e, pool) ==
    {IF pool.rejects THEN "rejected" ELSE "default-access"}
UncaughtIssues(t, e, pool) ==
    LET ps == SetPolicies(t, UserSet(e, pool)) IN
    CASE \E p \in ps : ~p.read -> {"conditions-unread"}
      [] (\A p \in ps : p.read) /\ \E p \in ps : AllMatch(p.users, e.name) = "unknown" -> {}
      [] OTHER -> {IF pool.rejects THEN "rejected" ELSE "default-access"}
\* Those either may have: a regex nobody can evaluate, a name its own policy misses.
SharedIssues(t, e, pool) ==
    LET ps == SetPolicies(t, UserSet(e, pool)) IN
    {i \in {"regex-invalid", "regex-typo"} :
        CASE i = "regex-invalid" -> \E p \in ps : p.read /\ AllMatch(p.users, e.name) = "unknown"
          [] i = "regex-typo"    -> \E p \in Named(t, e, UserSet(e, pool)) : p.read /\ AllMatch(p.users, e.name) = "no"}
Issues(t, e, pool) ==
    IF UserSet(e, pool) = NoSet THEN {"no-set"}
    ELSE SharedIssues(t, e, pool)
         \cup (IF Candidates(t, e, UserSet(e, pool)) # {} THEN CaughtIssues(t, e, pool, Winner(t, e, pool))
               ELSE UncaughtIssues(t, e, pool))
\* The row's status is its worst issue; a note never makes it worse.
Severity(issue) ==
    CASE issue \in {"no-set", "rejected", "regex-typo", "ssid-no-network", "ssid-not-here"} -> "error"
      [] issue \in {"default-access", "ssid-not-pool", "shadowed", "no-aps"} -> "warning"
      [] issue \in {"conditions-unread", "regex-invalid"} -> "unknown"
      [] OTHER -> "note"
Status(issues) ==
    LET has(level) == \E i \in issues : Severity(i) = level IN
    CASE has("error") -> "error"
      [] ~has("error") /\ has("warning") -> "warning"
      [] ~has("error") /\ ~has("warning") /\ has("unknown") -> "unknown"
      [] OTHER -> "ok"

---------------------------------------------------------------------------
\* _resolve_vlans(): the passphrase's, or else the identity's, or else that of the
\* network this user was sent to; never that of the whole pool.
DefaultVlans(t, nid) ==
    LET here == {a \in t.activations : a.network = nid}
        set == UNION {a.vlans : a \in here}
    IN  IF set # {} THEN set ELSE {n.vlan : n \in {m \in t.networks : m.id = nid}} \ {NoVlan}
\* their_networks(): the strongest evidence of where a user nobody caught belongs.
TheirNetworks(t, e, pool) ==
    LET used == e.devices \cap Activated(t)
        meant == UNION {Ids(Hits(t, p.ssids)) : p \in {q \in Named(t, e, UserSet(e, pool)) : q.ssids # {}}} \cap Activated(t)
        only == pool.networks \cap Activated(t)
    IN  CASE used # {} -> used
          [] used = {} /\ meant # {} -> meant
          [] used = {} /\ meant = {} /\ Cardinality(only) = 1 -> only
          [] OTHER -> {}
Caught(t, e, pool) ==
    UserSet(e, pool) # NoSet /\ Candidates(t, e, UserSet(e, pool)) # {}
RowNetworks(t, e, pool) ==
    IF Caught(t, e, pool) THEN NetworksOf(t, pool, Winner(t, e, pool)) ELSE {}
RowVlans(t, e, pool) ==
    LET sent == RowNetworks(t, e, pool) \cap Activated(t)
        fallback == IF "rejected" \in Issues(t, e, pool) THEN {} ELSE TheirNetworks(t, e, pool)
        from(nids) == UNION {DefaultVlans(t, n) : n \in nids}
    IN  CASE e.vlan # NoVlan -> {e.vlan}
          [] e.vlan = NoVlan /\ e.identityVlan # NoVlan -> {e.identityVlan}
          [] OTHER -> from(IF RowNetworks(t, e, pool) # {} THEN sent ELSE fallback)

\* identity_trace(): one row per username of each pool in scope.
TraceRow(t, e, pool) ==
    [user     |-> e.name,
     set      |-> UserSet(e, pool),
     policy   |-> IF Caught(t, e, pool) THEN Winner(t, e, pool).id ELSE NoPolicy,
     networks |-> RowNetworks(t, e, pool),
     issues   |-> Issues(t, e, pool),
     status   |-> Status(Issues(t, e, pool)),
     vlans    |-> RowVlans(t, e, pool)]
IdentityTrace(t) ==
    UNION {{TraceRow(t, e, pool) : e \in {d \in t.users : d.pool = pool.id}} : pool \in t.pools}
============================================================================
