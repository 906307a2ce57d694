------------------------------ MODULE Wireless -----------------------------
(* The SSIDs of a venue: where each is activated, what beacons it, who is   *)
(* on it and what it is tunnelled through, and the checks over them         *)
(* (shape.py, checks.py).                                                  *)
EXTENDS Wired, Sequences

CONSTANT SsidLimit      \* AP_GROUP_SSID_LIMIT: 15
AllGroups == "All AP groups"

\* A printable name for an AP group, never an id: the default one has no name.
GroupLabel(gid, groups) ==
    CASE \E g \in groups : g.id = gid /\ g.name # "" -> (CHOOSE g \in groups : g.id = gid).name
      [] \E g \in groups : g.id = gid /\ g.name = "" -> "Default"
      [] OTHER -> "Unknown group " \o gid
\* aps_in_group(): by the id, and by the group's name when the id finds none.
ApsInGroup(gid, groups, views) ==
    LET direct == {v \in views : v.group = gid}
        named  == {v \in views : v.groupName # "" /\ \E g \in groups : g.id = gid /\ g.name = v.groupName}
    IN  IF direct # {} THEN direct ELSE named
\* An activation on the whole venue is one scope; else one for each group named.
WholeVenue(a) == a.all \/ a.groups = {}
Scope(label, aps, online) == [group |-> label, aps |-> aps, online |-> online]
Scopes(a, groups, views) ==
    IF WholeVenue(a) THEN {Scope(AllGroups, views, Online(views))}
    ELSE {Scope(GroupLabel(gid, groups), ApsInGroup(gid, groups, views), ApsInGroup(gid, groups, Online(views))) :
            gid \in a.groups}
\* Only an online AP says what is on the air.
Beaconing(ssid, views) == {v.serial : v \in {w \in Online(views) : ssid \in w.beacons}}
\* The row of an activation: what the tenant's list of networks knows of it, by id.
Network(a, networks) == {n \in networks : n.id = a.network}
VlansOf(a, networks) ==
    LET set == a.vlans \ {0} IN IF set # {} THEN set ELSE {n.vlan : n \in Network(a, networks)} \ {0}
SsidRow(a, networks, groups, views, clients) ==
    LET known == Network(a, networks)
        ssid == IF known = {} THEN a.network ELSE (CHOOSE n \in known : TRUE).ssid
    IN  [network |-> a.network, resolved |-> known # {}, ssid |-> ssid, all |-> a.all,
         vlans   |-> VlansOf(a, networks),
         scopes  |-> Scopes(a, groups, views),
         onAir   |-> Beaconing(ssid, views),
         clients |-> {c.mac : c \in {d \in clients : d.ssid = ssid}},
         tunnel  |-> {}]
SsidRows(networks, activations, groups, views, clients) ==
    {SsidRow(a, networks, groups, views, clients) : a \in activations}

\* How many SSIDs sit on each group: a venue-wide one takes a slot on every group.
PerGroup(rows, groups) ==
    LET wide == {r \in rows : r.all}
        scoped == {s.group : s \in UNION {r.scopes : r \in rows \ wide}}
        every == IF groups = {} THEN {AllGroups} ELSE {GroupLabel(g.id, groups) : g \in groups}
        labels == scoped \cup (IF wide = {} THEN {} ELSE every)
    IN  [label \in labels |->
            Cardinality({r \in rows \ wide : \E s \in r.scopes : s.group = label})
            + (IF label \in every THEN Cardinality(wide) ELSE 0)]

\* attach_tunnels(): only a profile of this venue, or one that names no venue at all.
Tunnels(network, venue, softgre, edge) ==
    {p.name : p \in {q \in softgre : <<venue, network>> \in q.activations}}
    \cup {p.name : p \in {q \in edge :
            IF q.pairs # {} THEN <<venue, network>> \in q.pairs ELSE network \in q.networks}}

---------------------------------------------------------------------------
Ssids(rows) == {<<"ssid", r.ssid>> : r \in rows}
SsidsActivated(rows) == Finding("ssids-activated", IF rows = {} THEN "critical" ELSE "ok", Ssids(rows))
SsidsCarrying(rows) ==
    LET quiet == {r \in rows : r.clients = {}} IN
    CASE rows = {} -> Finding("ssids-carrying", "skipped", {})
      [] rows # {} /\ quiet = rows -> Finding("ssids-carrying", "warning", Ssids(rows))
      [] quiet # {} /\ quiet # rows -> Finding("ssids-carrying", "info", Ssids(rows))
      [] OTHER -> Finding("ssids-carrying", "ok", Ssids(rows))
SsidsBroadcasting(rows, views) ==
    IF rows = {} \/ Online(views) = {} THEN Finding("ssids-broadcasting", "skipped", {})
    ELSE Judged("ssids-broadcasting", FALSE, Ssids({r \in rows : r.onAir = {}}), "warning")
\* Over the limit, or within two of it.
SsidsPerGroup(counts) ==
    LET at(least) == {<<"group", g>> : g \in {h \in DOMAIN counts : counts[h] >= least}} IN
    CASE DOMAIN counts = {} -> Finding("ap-group-ssid-limit", "skipped", {})
      [] at(SsidLimit + 1) # {} -> Finding("ap-group-ssid-limit", "critical", at(SsidLimit + 1))
      [] at(SsidLimit + 1) = {} /\ at(SsidLimit - 2) # {} ->
            Finding("ap-group-ssid-limit", "warning", at(SsidLimit - 2))
      [] OTHER -> Finding("ap-group-ssid-limit", "ok", {})
\* check_empty_ap_groups(): an accusation needs the whole list of APs and a join
\* that has worked for at least one scope.
EmptyScopes(rows) == {<<"scope", s.group>> : s \in {t \in UNION {r.scopes : r \in rows} : t.aps = {}}} \ {<<"scope", AllGroups>>}
Populated(rows) == {s \in UNION {r.scopes : r \in rows} : s.aps # {}}
SsidScope(rows, views, truncated) ==
    Judged("ssid-scope",
           rows = {} \/ truncated \/ views = {} \/ (EmptyScopes(rows) # {} /\ Populated(rows) = {}),
           EmptyScopes(rows), "warning")

============================================================================
