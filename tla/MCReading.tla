----------------------------- MODULE MCReading -----------------------------
(* Reading over venues of a few devices: a venue where all is well, and     *)
(* families of it that each vary one part of an install through the cases    *)
(* its cards and checks tell apart.                                         *)
EXTENDS Reading

Device(serial, name) ==
    [serial |-> serial, name |-> name, status |-> "Operational", state |-> "other", failed |-> FALSE,
     meshing |-> FALSE, role |-> "ROOT", firmware |-> "7.1", uptime |-> 90000, placed |-> TRUE,
     radios |-> {[band |-> "5", channel |-> 36, width |-> 80]}, speed |-> 1000, group |-> "g1", groupName |-> "Lobby",
     mac |-> serial, mgmt |-> 5, beacons |-> {"guest"}, ip |-> 17, mask |-> 4, gateway |-> 18, ext |-> 60]
a1 == Device("m1", "ap1")
a2 == [Device("m2", "ap2") EXCEPT !.ip = 19]
a3 == [Device("m3", "ap3") EXCEPT !.ip = 20]
sw == [name |-> "core", mac |-> "s1", status |-> "ONLINE", firmware |-> "10", synced |-> TRUE, capacity |-> 100,
       allocated |-> 40, ip |-> 21, mask |-> NoMask, gateway |-> NoGateway]
Port(id, mac) ==
    [id |-> id, switch |-> "s1", switchName |-> "core", up |-> TRUE, speed |-> 1000, untagged |-> 5, tagged |-> {10},
     errors |-> 0, mac |-> mac, portMac |-> Nobody, name |-> Nobody, draw |-> 12]
guest == [network |-> "n1", all |-> TRUE, groups |-> {}, vlans |-> {10}]
client == [mac |-> "c1", ap |-> "m1", ssid |-> "guest", vlan |-> 10, weak |-> FALSE]
s1 == [id |-> "set1", pools |-> {}]
pool == [id |-> "pool1", set |-> "set1", rejects |-> TRUE, networks |-> {"n1"}]
family == [id |-> "ig1", pool |-> "pool1", property |-> TRUE, set |-> NoSet]
policy(id, priority, users) ==
    [id |-> id, radius |-> "rg1", priority |-> priority, read |-> TRUE, users |-> users, ssids |-> {{"guest"}}]
user(name) ==
    [name |-> name, pool |-> "pool1", group |-> "ig1", policyNamed |-> "q1", devices |-> {}, vlan |-> NoVlan,
     identityVlan |-> NoVlan]

Untold == [flat |-> FALSE, levels |-> [l \in Levels |-> Nothing], groups |-> <<>>]

\* A venue where all is well.
Well == [
    venue |-> {[name |-> "floor", scaled |-> TRUE, image |-> TRUE]}, mgmtVlan |-> 5,
    dhcpPools |-> {[name |-> "lan", full |-> FALSE, vlan |-> 10]}, apGroups |-> {[id |-> "g1", name |-> "Lobby"]},
    radio |-> {[band |-> "2.4", allowed |-> {1, 6, 11}], [band |-> "5", allowed |-> {36, 40, 44, 48}]},
    aps |-> {a1, a2, a3}, apTotal |-> 3, switches |-> {sw}, ports |-> {Port("1/1", "m1"), Port("1/2", "m2")},
    clients |-> {client}, wiredClients |-> {}, incidents |-> {"alarm"},
    networks |-> {[id |-> "n1", ssid |-> "guest", vlan |-> 10]}, activations |-> {guest},
    dpskPools |-> {pool}, identityGroups |-> [rows |-> {family}, complete |-> TRUE], policySets |-> {s1},
    policies |-> {policy("q1", 1, {{"ann"}})}, radiusGroups |-> {[id |-> "rg1"]},
    softGre |-> {}, edgeTunnels |-> {[name |-> "edge", pairs |-> {}, networks |-> {"n1"}]},
    counts |-> [pool1 |-> 2], members |-> [set1 |-> {"q1"}, set2 |-> {}, set3 |-> {"q1"}],
    assignments |-> [rg1 |-> {"q1"}], users |-> {user("ann")}, order |-> <<18, 34>>, broken |-> {},
    config |-> {[slug |-> "venue", fields |-> {<<"name", "x">>, <<"loginPassword", "x">>, <<"passphraseCount", "2">>}]},
    failing |-> {}, readers |-> {},
    advice |-> [doc |-> Untold, networks |-> <<>>, ruckus |-> Untold.levels, settings |-> [band |-> "on"]]]

\* Without the channel chart, for the families that are not about it.
Quiet == [Well EXCEPT !.radio = {}]
\* APs in each state, with a failed update, a name worn twice, a mesh, their uptimes.
Statuses == {"Operational", "OFFLINE", "DisconnectedFromCloud", "NeverContactedCloud", "FirmwareUpdateFailed", "Initializing"}
Up3(x, y, z) == {[a1 EXCEPT !.uptime = x], [a2 EXCEPT !.uptime = y], [a3 EXCEPT !.uptime = z]}
DeviceScenes ==
    {[Quiet EXCEPT !.aps = {[a1 EXCEPT !.status = x], [a2 EXCEPT !.status = y], a3}, !.failing = {"aps", "clients"}] :
        x \in Statuses, y \in Statuses}
    \cup {[Quiet EXCEPT !.aps = Up3(x, y, z)] : x \in {60, 5000, 90000}, y \in {60, 5000, 90000}, z \in {0, 60, 90000}}
    \cup {[Quiet EXCEPT !.aps = {[a1 EXCEPT !.name = n, !.role = r, !.placed = p], a2}, !.apTotal = 2, !.venue = v, !.failing = {"venue", "aps"}] :
            n \in {"m1", "", "ap2"}, r \in {"MAP", "new"}, p \in BOOLEAN,
            v \in {{}, {[name |-> "floor", scaled |-> FALSE, image |-> FALSE]}, {[name |-> "floor", scaled |-> TRUE, image |-> FALSE]}}}
\* Ports with and without the VLAN of an SSID, slow, full, with errors; two switches of one name.
Old == [sw EXCEPT !.mac = "s2", !.allocated = 96, !.status = "OFFLINE", !.synced = FALSE, !.firmware = "9"]
WiredScenes ==
    {[Quiet EXCEPT !.ports = {[Port("1/1", "m1") EXCEPT !.tagged = tagged, !.speed = speed, !.up = up, !.errors = 3], Port("1/2", n)},
                  !.clients = {[client EXCEPT !.vlan = vlan]}, !.switches = sws, !.dhcpPools = pools,
                  !.wiredClients = {[mac |-> "m1", switch |-> "s1", port |-> "1/1"], [mac |-> "d1", switch |-> "s1", port |-> "1/2"]},
                  !.failing = Reads \ {"venue", "radio"}] :
        tagged \in {{}, {10}}, speed \in {100, 1000}, up \in BOOLEAN, n \in {Nobody, "m2", "s2"}, vlan \in {10, 20},
        sws \in {{sw}, {sw, Old}}, pools \in {{}, {[name |-> "lan", full |-> TRUE, vlan |-> 20]}}}
\* SSIDs on the whole venue, on a group, on an empty one, on a group nobody lists.
g2 == [id |-> "g2", name |-> ""]
staff == [network |-> "n2", all |-> FALSE, groups |-> {"g1"}, vlans |-> {}]
WirelessScenes ==
    {[Quiet EXCEPT !.activations = acts, !.apGroups = groups, !.aps = aps, !.apTotal = total, !.clients = cs,
                  !.networks = @ \cup {[id |-> "n2", ssid |-> "staff", vlan |-> 20]},
                  !.softGre = {[name |-> "tunnel", activations |-> {<<"v1", "n2">>}]},
                  !.failing = {"aps", "apTotal", "apGroups", "networks", "activations", "clients"}] :
        acts \in {{}, {guest}, {guest, staff}, {staff}, {guest, [staff EXCEPT !.groups = {"g2"}]},
                  {[guest EXCEPT !.all = FALSE], [staff EXCEPT !.groups = {"g1", "gone"}]},
                  {guest, staff, [network |-> "n3", all |-> TRUE, groups |-> {}, vlans |-> {}]}},
        groups \in {{}, Well.apGroups, Well.apGroups \cup {g2}},
        aps \in {{}, {a1, a2}, {[a1 EXCEPT !.group = "x", !.beacons = {"staff"}], a2}, {[a1 EXCEPT !.group = "x", !.groupName = "", !.status = "OFFLINE"]}},
        total \in {2, 3}, cs \in {{}, {client}}}
\* Devices with a mask, behind a gateway, or with neither, on a few addresses.
Addresses ==
    {[ip |-> i, mask |-> m, gateway |-> g] : i \in {5, 20, 37}, m \in {NoMask, 3}, g \in {NoGateway, 18, 34}}
    \cup {[ip |-> i, mask |-> m, gateway |-> NoGateway] : i \in {0, 6, 52}, m \in {NoMask, 4}}
At(a, place) == [a EXCEPT !.ip = place.ip, !.mask = place.mask, !.gateway = place.gateway]
SubnetScenes ==
    {[Quiet EXCEPT !.aps = {At(a1, x), At(a2, y), At([a3 EXCEPT !.ext = 61], z)}, !.order = order] :
        x \in Addresses, y \in {a \in Addresses : a.ip \in {0, 6, 20}}, z \in {a \in Addresses : a.ip \in {5, 37, 52}},
        order \in {<<18, 34>>, <<34, 18>>}}
\* Radios of each width on the three bands, on and off what the venue permits.
ChannelScenes ==
    {[Well EXCEPT !.radio = {[band |-> b, allowed |-> allowed]},
                  !.aps = {[a1 EXCEPT !.radios = {[band |-> b, channel |-> c, width |-> w]}],
                           [a2 EXCEPT !.radios = {[band |-> b, channel |-> d, width |-> 20]}]}] :
        b \in {"2.4", "5", "6"}, allowed \in {{}, {1, 6, 11, 36, 40, 44, 48, 149}}, c \in {0, 1, 14, 40, 165}, d \in {6, 36},
        w \in {20, 40, 80, 320}}
\* Pools, groups, sets and policies; patterns that match, miss or do not compile.
PolicyScenes ==
    {[Quiet EXCEPT !.identityGroups = [rows |-> {[family EXCEPT !.set = gs, !.property = here]}, complete |-> whole],
                  !.dpskPools = {[pool EXCEPT !.set = ps, !.rejects = whole, !.networks = nets]}, !.policySets = {s1, [id |-> "set3", pools |-> assigned]},
                  !.policies = {policy("q1", 1, p), policy("q2", 2, q)}, !.members = [@ EXCEPT !["set1"] = {"q1", "q2"}],
                  !.failing = {"members", "counts", "identityGroups", "policies", "radiusGroups", "activations", "q1", "q2"}] :
        gs \in {NoSet, "set3"}, here \in {TRUE}, whole \in BOOLEAN, ps \in {NoSet, "set1"}, nets \in {{}, {"n1"}},
        assigned \in {{}, {"pool1"}},
        p \in {{{"ann"}}, {{"bob"}}, {Invalid}}, q \in {{}, {{"ann"}}, {{"ann", "bob"}, Invalid}}}
\* Recommendations of an org and its groups over three networks of two units and the lobby.
Net(id, name, vlan, members, band) ==
    [id |-> id, name |-> name, ssid |-> name, kind |-> "dpsk",
     settings |-> [band |-> band, roaming |-> "on", vlanId |-> vlan, vlanMembers |-> members, dpskLength |-> "8", passphrase |-> id]]
Told(values, na) == [values |-> values, na |-> na]
Opinions == {Nothing, Told([band |-> "on"], {}), Told([band |-> "off"], {"band", "roaming"}), Told(<<>>, {"band"})}
NetGroup(id, by, of, section) == [id |-> id, match |-> [by |-> by, of |-> of], section |-> section]
AdviceScenes ==
    {[Quiet EXCEPT !.advice =
        [doc |-> [flat |-> flat, levels |-> [Untold.levels EXCEPT ![IF flat THEN "venue" ELSE "network"] = default,
                                                                 !["apgroup"] = IF flat THEN Nothing ELSE Told(<<>>, {"band"})],
                  groups |-> groups],
         ruckus |-> [Untold.levels EXCEPT !["network"] = default], settings |-> [band |-> "on", roaming |-> "on"],
         networks |-> <<Net("n1", "unit1", "10", {"30"}, "on"), Net("n2", "unit2", vlan, members, band), [Net("n3", "lobby", "20", {"30"}, "on") EXCEPT !.kind = "open"]>>]] :
        flat \in BOOLEAN, default \in Opinions, band \in {"on", "off"}, vlan \in {"10", "11"}, members \in {{"30"}, {"30", "31"}},
        groups \in {<<>>} \cup {<<NetGroup("units", "name", {"unit1", "unit2"}, section)>> : section \in Opinions}
                  \cup {<<NetGroup("one", "ids", {"n1"}, section), NetGroup("all", "type", {"dpsk", "open"}, Told([band |-> "on"], {})),
                          NetGroup("bad", "regex", {"n3"}, Told([band |-> "off"], {}))>> : section \in Opinions}
                  \cup {<<NetGroup("", "name", {"unit1"}, section), NetGroup("units", "name", {"unit2"}, section),
                          NetGroup("units", "type", {"dpsk"}, Told([band |-> "off"], {}))>> : section \in Opinions}}
\* Readers with sections, a column, one check, a category or something unknown hidden.
ReaderScenes ==
    {[sc EXCEPT !.readers = {{}, {"overview.verification"}, {"punchlist.tasks"}, {"overview.access-points"}, {"aps-online"},
                             {"wireless.ssids.col.vlan"}, {"wireless.ssids.col.tunnel", "addressing.external"}, {"config.venue"}, {"renamed"},
                             {"overview.access-points", "punchlist.tasks"}, {"wireless.ssids", "wireless.ssids.col.vlan"}},
                !.failing = {"activations", "apTotal"}, !.broken = broken] :
        broken \in {{}, {"aps-online"}},
        sc \in {Well, [Well EXCEPT !.aps = {[a1 EXCEPT !.status = "OFFLINE"], a2}, !.activations = {guest, staff}]}}
MCScenes == {DeviceScenes, WiredScenes, WirelessScenes, SubnetScenes, ChannelScenes, PolicyScenes,
                   AdviceScenes, ReaderScenes}
============================================================================
