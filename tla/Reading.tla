------------------------------ MODULE Reading ------------------------------
(* One poll of one venue put together (collect.py): the reads, each of which *)
(* may fail and leave an empty answer, the cards shaped from what came back, *)
(* every check over them, the identity trace of the same venue, and what one *)
(* reader is served of it.                                                  *)
EXTENDS Wireless, Subnets, Channels, Trace, Redaction, Advice

CONSTANTS
    Scenes,         \* families of venues: what RUCKUS ONE holds of each, a field for each
                    \* read, which of the reads may fail and which readers ask for it
    Here,           \* the venue's id
    MaxLost         \* bound on the reads that fail

\* What the parsers of the reads make sure of: a policy has the fields the trace
\* reads, an AP has its radios and its addresses, and a channel is a number.  The
\* order lists the gateway of every AP that reports no mask, each once.  APs are
\* finitely many, and the passphrases of every pool, the members of every set and the
\* assignments of every RADIUS group are asked for by its id.  A document of
\* recommendations has a section per level, an old one the venue's only.
ASSUME ReadingAssumption ==
    \A family \in Scenes : \A sc \in family :
        /\ \A p \in sc.policies : {"id", "read", "users"} \subseteq DOMAIN p
        /\ \A a \in sc.aps : "radios" \in DOMAIN a /\ \A r \in a.radios : r.channel \in Nat
        /\ \A entry \in sc.radio : entry.allowed \subseteq Nat
        /\ \A a \in sc.aps :
            /\ {"ip", "mask", "gateway"} \subseteq DOMAIN a
            /\ a.ip \in Address /\ a.mask \in 0..Bits \cup {NoMask} /\ a.gateway \in Address \cup {NoGateway}
            /\ a.mask = NoMask /\ a.gateway # NoGateway => \E i \in DOMAIN sc.order : sc.order[i] = a.gateway
        /\ IsFiniteSet(sc.aps)
        /\ {p.id : p \in sc.dpskPools} \subseteq DOMAIN sc.counts
        /\ {s.id : s \in sc.policySets} \subseteq DOMAIN sc.members
        /\ {g.id : g \in sc.radiusGroups} \subseteq DOMAIN sc.assignments
        /\ sc.order \in Seq(Address) /\ IsInjective(sc.order)
        /\ LET doc == sc.advice.doc IN
            /\ DOMAIN doc.levels = Levels
            /\ doc.flat => \A l \in Levels \ {"venue"} : doc.levels[l] = Nothing
            /\ \A s \in Range(doc.levels) \cup {g.section : g \in Range(doc.groups)} : s = [values |-> s.values, na |-> s.na]
            /\ \A g \in Range(doc.groups) : {"id", "match", "section"} \subseteq DOMAIN g
            /\ doc.groups \in Seq(Range(doc.groups))
        /\ sc.advice.networks \in Seq(Range(sc.advice.networks))

VARIABLES
    scene,          \* the venue that is polled
    lost,           \* the reads that raised
    served          \* the ids withheld from the reader it was served to

vars == <<scene, lost, served>>
NotServed == {"not served"}
NoTotal == -1

---------------------------------------------------------------------------
Reads == {"venue", "mgmtVlan", "dhcpPools", "apGroups", "radio", "aps", "apTotal", "switches", "ports", "clients",
          "wiredClients", "incidents", "networks", "activations", "dpskPools", "identityGroups", "policySets",
          "policies", "radiusGroups", "softGre", "edgeTunnels", "counts", "members", "assignments"}
\* What stands for a read that raised; a count that did is known to be unread.
Empty(sc, read) ==
    CASE read = "identityGroups" -> [rows |-> {}, complete |-> TRUE]
      [] read = "mgmtVlan" -> 0
      [] read = "apTotal" -> NoTotal
      [] read = "counts" -> [p \in DOMAIN sc.counts |-> Unread]
      [] read \in {"members", "assignments"} -> [x \in DOMAIN sc[read] |-> {}]
      [] OTHER -> {}
Raw(sc, missing) == [r \in Reads |-> IF r \in missing THEN Empty(sc, r) ELSE sc[r]]

\* The cards, from the reads: build_report() up to the checks.
PoolsOf(raw) ==
    PoolRows(raw["dpskPools"], raw["identityGroups"].rows, {a.network : a \in raw["activations"]}, raw["counts"])
ScopeOf(raw) ==
    ScopedSets(PoolsOf(raw),
               OtherGroups(raw["dpskPools"], raw["identityGroups"].rows, {a.network : a \in raw["activations"]}),
               raw["policySets"])
RowsOf(raw, views) ==
    {[r EXCEPT !.tunnel = Tunnels(r.network, Here, raw["softGre"], raw["edgeTunnels"])] :
        r \in SsidRows(raw["networks"], raw["activations"], raw["apGroups"], views, raw["clients"])}
Addressed(devices) == {d \in devices : d.ip # 0}
Cards(sc, missing) ==
    LET raw == Raw(sc, missing)
        views == Views(raw["aps"])
        rows == RowsOf(raw, views)
    IN  [views    |-> views,
         switches |-> raw["switches"],
         clients  |-> raw["clients"],
         plans    |-> raw["venue"],
         rows     |-> rows,
         perGroup |-> PerGroup(rows, raw["apGroups"]),
         groups   |-> raw["apGroups"],
         truncated |-> raw["apTotal"] # NoTotal /\ raw["apTotal"] > Cardinality(raw["aps"]),
         vlans    |-> VlanCard(raw["ports"], rows, raw["mgmtVlan"], raw["dhcpPools"], views, raw["clients"]),
         poe      |-> PoeCard(raw["switches"], raw["ports"], views),
         ports    |-> PortCard(raw["ports"], views, raw["switches"]),
         wired    |-> WiredClients(raw["wiredClients"], raw["ports"], views, raw["switches"]),
         subnets  |-> SubnetGroups(Addressed(views), sc.order),
         switchSubnets |-> SubnetGroups(Addressed(raw["switches"]), sc.order),
         missing  |-> {v \in Online(views) : v.ip = 0},
         external |-> {v.ext : v \in views} \ {0},
         dhcp     |-> raw["dhcpPools"],
         plan     |-> ChannelPlan(raw["radio"], views),
         pools    |-> PoolsOf(raw),
         others   |-> OtherGroups(raw["dpskPools"], raw["identityGroups"].rows, {a.network : a \in raw["activations"]}),
         complete |-> raw["identityGroups"].complete,
         policy   |-> PolicyCard(ScopeOf(raw), raw["policySets"], raw["policies"], raw["radiusGroups"],
                                 raw["members"], raw["assignments"])]
\* CHECKS: every check, over the cards.
Checks(c) ==
    {ApsOnline(c.views), SwitchesOnline(c.switches), ApsProvisioned(c.views), SsidsActivated(c.rows),
     SsidsCarrying(c.rows), SsidsBroadcasting(c.rows, c.views), SsidVlansCarried(c.vlans), UndeclaredVlans(c.vlans),
     SsidsPerGroup(c.perGroup), SsidScope(c.rows, c.views, c.truncated), PoeBudget(c.poe), UplinkSpeed(c.poe),
     PortErrors(c.ports), LinkSpeed(c.ports), Firmware("ap-firmware", c.views),
     Firmware("switch-firmware", c.switches), ConfigSync(c.switches), ManagementVlan(c.vlans),
     ApAddressing(c.subnets, c.missing), ExternalIp(c.external), DhcpPools(c.dhcp), DpskInUse(c.pools),
     PolicyChain(c.policy), PolicySetPopulated(c.policy), RadiusOrphans(c.policy), DpskPassphrases(c.pools),
     DpskIdentityGroups(c.pools, c.complete), ChannelPlan24(c.plan), Placement(c.views), FloorPlans(c.plans),
     Naming(c.views), MeshFallback(c.views), Uptime(c.views), ClientsPresent(c.views, c.clients)}
Found(sc, missing) == RunChecks(Checks(Cards(sc, missing)), sc.broken)
\* The report, each path with what it holds; the tallies by one field are left out.
Report(sc, missing) ==
    LET c == Cards(sc, missing)
        found == RunChecks(Checks(c), sc.broken)
    IN  [data |-> [p \in {"incidents", "inventory.aps", "inventory.rows.aps", "inventory.rows.switches", "apDetail",
                          "wireless.rows", "wireless.groups", "wireless.perApGroup", "radios.plan", "wiredClients",
                          "ports.slowLinks", "ports.errored", "vlans", "poe.switches", "poe.apsOnPoe",
                          "addressing.apSubnets", "addressing.switchSubnets", "addressing.external",
                          "addressing.dhcpPools", "dpsk.pools", "dpsk.otherIdentityGroups", "policy.sets",
                          "policy.radiusGroups"} |->
            CASE p = "incidents" -> Raw(sc, missing)["incidents"]
              [] p = "inventory.aps" -> {Inventory(c.views)}
              [] p = "inventory.rows.aps" -> c.views
              [] p = "inventory.rows.switches" -> c.switches
              [] p = "apDetail" -> Detail(c.views, c.clients)
              [] p = "wireless.rows" -> c.rows
              [] p = "wireless.groups" -> c.groups
              [] p = "wireless.perApGroup" -> {c.perGroup}
              [] p = "radios.plan" -> c.plan
              [] p = "wiredClients" -> {c.wired}
              [] p = "ports.slowLinks" -> c.ports.slow
              [] p = "ports.errored" -> c.ports.errored
              [] p = "vlans" -> {c.vlans}
              [] p = "poe.switches" -> c.poe.switches
              [] p = "poe.apsOnPoe" -> c.poe.aps
              [] p = "addressing.apSubnets" -> c.subnets
              [] p = "addressing.switchSubnets" -> c.switchSubnets
              [] p = "addressing.external" -> c.external
              [] p = "addressing.dhcpPools" -> c.dhcp
              [] p = "dpsk.pools" -> c.pools
              [] p = "dpsk.otherIdentityGroups" -> c.others
              [] p = "policy.sets" -> c.policy.sets
              [] p = "policy.radiusGroups" -> c.policy.radius],
         categories   |-> sc.config,
         verification |-> Verification(found),
         punchlist    |-> PunchList(found)]

\* get_identity_trace(): the same scoping over reads of its own.  Its first reads
\* must all answer; a policy whose conditions raised is one that was not read.
Traced(sc, missing) ==
    LET raw == Raw(sc, missing \cap {"members"}) IN
    [scoped      |-> ScopeOf(raw),
     policies    |-> {[p EXCEPT !.read = @ /\ p.id \notin missing] : p \in sc.policies},
     members     |-> raw["members"],
     networks    |-> sc.networks,
     activations |-> sc.activations,
     groups      |-> {g.id : g \in sc.apGroups},
     aps         |-> Views(sc.aps),
     users       |-> sc.users,
     pools       |-> PoolsOf(raw)]

\* The config tab, with the recommendations an admin saved and this process read back.
Saved(sc) == ReadBack(IF sc.advice.doc.flat THEN sc.advice.doc ELSE Save(sc.advice.doc))
Shown(sc) == Clusters(sc.advice.networks, Saved(sc), sc.advice.ruckus)
LevelRows(sc, level) == ConfigRows(sc.advice.settings, level, NoGroup, Saved(sc), sc.advice.ruckus)

---------------------------------------------------------------------------
Init ==
    /\ \E family \in Scenes : scene \in family
    /\ lost = {} /\ served = NotServed
\* gather(return_exceptions=True): one read raises, the others are kept.
ReadFails(read) ==
    /\ served = NotServed /\ read \notin lost /\ Cardinality(lost) < MaxLost
    /\ lost' = lost \cup {read}
    /\ UNCHANGED <<scene, served>>
\* The report is built, and redacted for the reader who asked.
Serve(hidden) ==
    /\ served = NotServed
    /\ served' = hidden
    /\ UNCHANGED <<scene, lost>>
Next ==
    \/ \E read \in scene.failing : ReadFails(read)
    \/ \E hidden \in scene.readers : Serve(hidden)
Spec == Init /\ [][Next]_vars

---------------------------------------------------------------------------
\* The checks that are silent when a read they stand on is missing.  The others take
\* an empty answer for an empty venue: the SSIDs that are activated and that carry
\* anybody, the clients, the floor plans, the chain of policies, the limit of an AP
\* group without the groups' names, VLANs only a DHCP pool declares.
Takers == {"ssids-activated", "ssids-broadcasting", "ssids-carrying", "ssid-scope", "ap-group-ssid-limit",
           "clients-present", "dpsk-identity-groups", "policy-chain", "policy-set-empty", "floorplans", "undeclared-vlans"}
Alarms(findings) == {f \in findings : f.check \notin Takers /\ f.severity \in {"critical", "warning"}}
\* NoFalseAlarm: a read that failed never makes one of those checks raise an alarm
\* the venue does not deserve, nor name a row it would not name.
NoFalseAlarm ==
    served = NotServed /\ lost # {} =>
        \A f \in Alarms(Found(scene, lost)) :
            \E g \in Alarms(Found(scene, {})) :
                g.check = f.check /\ (f.severity = "critical" => g.severity = "critical") /\ f.evidence \subseteq g.evidence

\* EachCountedOnce: every device with an address is counted in exactly one subnet,
\* one that holds the address, and no subnet is listed twice; what is inferred of
\* a gateway whose devices are too far apart for one network is left out.
Clamped(r) == r.source = "inferred" /\ r.net.prefix = Widest
EachCountedOnce ==
    LET devices == Addressed(Views(Raw(scene, lost)["aps"]))
        rows == SubnetGroups(devices, scene.order)
    IN  served = NotServed =>
        /\ \A d \in devices : Cardinality({r \in rows : d \in r.devices}) = 1
        /\ \A r \in rows : r.devices # {} /\ (Clamped(r) \/ \A d \in r.devices : Inside(d.ip, r.net))
        /\ \A r, q \in rows : r.net = q.net => r = q \/ Clamped(r) \/ Clamped(q)

\* ChartTrue: in a row of the channel chart no two blocks share a channel and each
\* is one stretch of the row's width; a radio of 20 MHz is on exactly one, or its
\* channel is nowhere in the band and it is on none, whatever its width.
ChartTrue ==
    served = NotServed => \A p \in ChannelPlan(scene.radio, Views(scene.aps)) : \A w \in DOMAIN p.chart :
        /\ \A b \in p.chart[w] :
            LET at == {Centre(p.band, c) : c \in b.channels} IN
            Cardinality(at) = w \div 20 /\ \A x, y \in at : x - y < w
        /\ \A b, c \in p.chart[w] : b.channels \cap c.channels # {} => b = c
        /\ \A r \in RadiosOn(p.band, Views(scene.aps)) :
            IF HasCentre(p.band, r[2])
            THEN w = 20 /\ r[3] = 20 => \E b \in p.chart[w] : r \in b.radios
            ELSE \A b \in p.chart[w] : r \notin b.radios

\* VerdictTrue: a username the trace says no policy catches is matched by no policy
\* of its set, whichever conditions could be read; for a set in scope whose
\* members were listed.
Truly(policy, name) == AllMatch(policy.users, name) = "yes"
Unmatched(t) == {r \in IdentityTrace(t) : r.issues \cap {"rejected", "default-access"} # {}}
VerdictTrue ==
    LET t == Traced(scene, lost) IN
    served = NotServed /\ "members" \notin lost =>
        \A r \in Unmatched(t) :
            r.set \in t.scoped => ~\E p \in scene.policies : p.id \in scene.members[r.set] /\ Truly(p, r.user)
\* ScopeReaches: the same of every set a username's own pool or group names, as
\* scoped_policy_set_ids() promises of the sets it collects.
ScopeReaches ==
    served = NotServed /\ lost = {} =>
        \A r \in Unmatched(Traced(scene, lost)) :
            ~\E p \in scene.policies : p.id \in scene.members[r.set] /\ Truly(p, r.user)

\* AdviceMeant: every network is in one cluster, and what its row says of a setting
\* that is not a network's own is what the admin meant for that very network: the
\* opinion of the first group that covers it where it has one, the default's
\* elsewhere; of groups with no id or one that is taken nothing is meant.  What a group
\* or another level says never shows at the venue's level, and a cluster with two
\* SSIDs, names, VLANs or DPSKs says so, of lists and of trees with leaves of other
\* names excepted.
Meant(sections, key) ==
    LET says == {i \in DOMAIN sections : key \in (DOMAIN sections[i].values) \cup sections[i].na}
        first == sections[FirstOf(says)]
    IN  CASE says = {} -> [said |-> "nothing"]
          [] says # {} /\ key \in DOMAIN first.values -> [said |-> "value", value |-> first.values[key]]
          [] OTHER -> [said |-> "not applicable"]
Agrees(row, value, meant) ==
    CASE row.org = "matches" -> meant.said = "value" /\ meant.value = value
      [] row.org = "differs" -> meant.said = "value" /\ meant.value # value
      [] OTHER -> meant.said = row.org
Covering(groups, n) ==
    {i \in DOMAIN groups : groups[i].id \notin {NoGroup} \cup {groups[j].id : j \in 1..(i - 1)} /\ Covers(groups[i].match, n)}
Applying(doc, n) ==
    LET covering == Covering(doc.groups, n) IN
    IF covering = {} THEN <<doc.levels["network"]>> ELSE <<doc.groups[FirstOf(covering)].section, doc.levels["network"]>>
Differ(n, m, keys) == \E k \in keys \cap (DOMAIN n.settings) \cap DOMAIN m.settings : n.settings[k] # m.settings[k]
AdviceMeant ==
    LET doc == scene.advice.doc
    IN  served = NotServed =>
        /\ \A n \in Range(scene.advice.networks) : Cardinality({c \in Shown(scene) : n \in c.members}) = 1
        /\ \A c \in Shown(scene) : \A n, m \in c.members :
            /\ \A r \in c.rows : r.key \notin Own => Agrees(r, n.settings[r.key], Meant(Applying(doc, n), r.key))
            /\ n.ssid # m.ssid => "SSID" \in c.varies
            /\ n.name # m.name => "name" \in c.varies
            /\ Differ(n, m, VlanKeys \ BuriedKeys) => "VLAN" \in c.varies
            /\ Differ(n, m, DpskKeys \ BuriedKeys) => "DPSK" \in c.varies
        /\ \A level \in {"venue", "apgroup"} : \A r \in LevelRows(scene, level) :
            Agrees(r, r.value, Meant(<<doc.levels[level]>>, r.key))

\* HiddenStaysHidden: what is served holds nothing a hidden id owns, no task over a
\* finding that is not shown and no credential, and its tallies are of what it shows.
HoldsNothing(shown, hidden) ==
    /\ \A p \in PathsFor(hidden) \cap DOMAIN shown.data : shown.data[p] = {}
    /\ \A c \in ColumnsFor(hidden) : c.path \in DOMAIN shown.data => \A row \in shown.data[c.path] : row[c.field] = {}
    /\ \A f \in shown.verification.findings : f.crashed \/ f.check \notin ChecksFor(hidden) \cup hidden
    /\ shown.punchlist.tasks \subseteq shown.verification.findings
    /\ shown.verification.counts = Tally(shown.verification.findings)
    /\ \A c \in shown.categories : ConfigId(c.slug) \notin hidden /\ \A f \in c.fields : IsSecret(f[1]) => f[2] \in {"", Redacted}
HiddenStaysHidden == served # NotServed => HoldsNothing(Redact(Report(scene, lost), served), served)
============================================================================
