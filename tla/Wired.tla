------------------------------- MODULE Wired -------------------------------
(* The wired half of a report: where each VLAN is declared and seen, power, *)
(* port health and what the switches have learned, with the checks over    *)
(* them (shape.py, checks.py).  Nobody is the name or address of nothing.   *)
EXTENDS Devices

CONSTANT Nobody

---------------------------------------------------------------------------
\* vlan_card(): each VLAN with what declares it and who is seen on it.
OnPorts(vlan, ports) == {p \in ports : vlan = p.untagged \/ vlan \in p.tagged}
DeclaredBy(vlan, ports, ssids, mgmt, pools) ==
    {by \in {"untagged", "tagged", "ssid", "dhcp", "venue-mgmt"} :
        CASE by = "untagged"   -> \E p \in ports : p.untagged = vlan
          [] by = "tagged"     -> \E p \in ports : vlan \in p.tagged
          [] by = "ssid"       -> \E s \in ssids : vlan \in s.vlans
          [] by = "dhcp"       -> \E q \in pools : q.vlan = vlan
          [] by = "venue-mgmt" -> mgmt = vlan}
\* 0 is the VLAN nothing names.
EveryVlan(ports, ssids, mgmt, pools, views, clients) ==
    ({p.untagged : p \in ports} \cup (UNION {p.tagged : p \in ports}) \cup (UNION {s.vlans : s \in ssids})
     \cup {q.vlan : q \in pools} \cup {v.mgmt : v \in views} \cup {c.vlan : c \in clients} \cup {mgmt}) \ {0}
VlanCard(ports, ssids, mgmt, pools, views, clients) ==
    [mgmt    |-> mgmt,
     apMgmt  |-> {v.mgmt : v \in views} \ {0},
     seen    |-> ports # {},
     rows    |-> {[vlan     |-> vlan,
                   ports    |-> OnPorts(vlan, ports),
                   ssids    |-> {s.ssid : s \in {t \in ssids : vlan \in t.vlans}},
                   declared |-> DeclaredBy(vlan, ports, ssids, mgmt, pools),
                   clients  |-> {c.mac : c \in {d \in clients : d.vlan = vlan}}] :
                     vlan \in EveryVlan(ports, ssids, mgmt, pools, views, clients)}]

Vlans(rows) == {<<"vlan", r.vlan>> : r \in rows}
MutSsidVlansCarried(card) ==
    Judged("ssid-vlan-carried", ~\E r \in card.rows : r.ssids # {},
           Vlans({r \in card.rows : r.ssids # {} /\ r.ports = {}}), "warning")
SsidVlansCarried(card) ==
    Judged("ssid-vlan-carried", ~card.seen \/ ~\E r \in card.rows : r.ssids # {},
           Vlans({r \in card.rows : r.ssids # {} /\ r.ports = {}}), "warning")
\* Seen in traffic and declared nowhere: only an alarm once ports were read.
UndeclaredVlans(card) ==
    Judged("undeclared-vlans", card.rows = {},
           Vlans({r \in card.rows : r.declared = {} /\ r.clients # {}}), IF card.seen THEN "warning" ELSE "info")
\* What the venue sets, what the APs report and what the wire carries agree.
ManagementVlan(card) ==
    LET reported == {<<"vlan", v>> : v \in card.apMgmt}
        carried == \E r \in card.rows : r.vlan = card.mgmt /\ r.ports # {}
        set == card.mgmt # 0
    IN  CASE Cardinality(card.apMgmt) > 1 -> Finding("mgmt-vlan", "warning", reported)
          [] Cardinality(card.apMgmt) <= 1 /\ ~set ->
                Finding("mgmt-vlan", IF card.apMgmt = {} THEN "skipped" ELSE "ok", {})
          [] Cardinality(card.apMgmt) = 1 /\ set /\ card.apMgmt # {card.mgmt} ->
                Finding("mgmt-vlan", "warning", reported)
          [] OTHER -> Finding("mgmt-vlan", IF card.seen /\ ~carried THEN "warning" ELSE "ok", {})

---------------------------------------------------------------------------
\* LLDP names the neighbour of a port, by its address before its name.
NeighbourAps(port, views) ==
    LET byMac == {v \in views : v.mac = port.mac /\ port.mac # Nobody}
        byName == {v \in views : v.name = port.name /\ port.name # Nobody}
    IN  IF byMac # {} THEN byMac ELSE byName
LinkKind(port, views, switches) ==
    CASE NeighbourAps(port, views) # {} -> "ap"
      [] NeighbourAps(port, views) = {} /\ \E s \in switches :
            (s.mac = port.mac /\ port.mac # Nobody) \/ (s.name = port.name /\ port.name # Nobody) -> "switch"
      [] OTHER -> "endpoint"
\* poe_card(): draw is summed under a switch's name, ports are counted by its address.
Powered(ports) == {p \in ports : p.draw > 0}
PoeCard(switches, ports, views) ==
    [switches |-> {[name      |-> s.name,
                    pct       |-> (100 * s.allocated) \div s.capacity,
                    consumers |-> {p.id : p \in {q \in Powered(ports) : q.switchName = s.name}},
                    powered   |-> {p.id : p \in {q \in Powered(ports) : q.switch = s.mac}}] :
                        s \in {t \in switches : t.capacity > 0}},
     aps      |-> {[name |-> v.name, state |-> v.state, speed |-> v.speed,
                    found |-> \E p \in ports : v \in NeighbourAps(p, views)] : v \in views}]
WarnPct == 85
CritPct == 95
PoeBudget(poe) ==
    LET full(pct) == {s \in poe.switches : s.pct >= pct} IN
    Judged("poe-budget", poe.switches = {}, Switch(full(WarnPct)), IF full(CritPct) # {} THEN "critical" ELSE "warning")
\* An AP that is not online may keep a speed from before: it proves nothing.
UplinkSpeed(poe) ==
    LET linked == {a \in poe.aps : a.speed > 0 /\ a.state = "online"} IN
    Judged("ap-uplink-speed", linked = {}, Ap({a \in linked : a.speed < 1000}), "warning")

\* port_card(): what is up, slow with what hangs off it, or counting errors.
Up(ports) == {p \in ports : p.up}
PortCard(ports, views, switches) ==
    [total   |-> ports,
     up      |-> Up(ports),
     slow    |-> {[port |-> p.id, kind |-> LinkKind(p, views, switches)] : p \in {q \in Up(ports) : q.speed \in 1..999}},
     errored |-> {p \in Up(ports) : p.errors > 0}]
Ports(rows) == {<<"port", r>> : r \in rows}
PortErrors(card) ==
    Judged("port-errors", card.total = {}, Ports({p.id : p \in card.errored}), "warning")
LinkSpeed(card) ==
    Judged("port-link-speed", card.total = {}, Ports({r.port : r \in card.slow}),
           IF \E r \in card.slow : r.kind \in {"ap", "switch"} THEN "warning" ELSE "info")

---------------------------------------------------------------------------
\* wired_client_card(): the rows of the address tables, sorted into the devices
\* of the install, what an AP's port has learned, and what is plugged in.
ApPorts(ports, views) ==
    {<<p.switch, p.id>> : p \in {q \in ports : \E v \in views :
        \/ v.mac \in {q.mac, IF q.mac = Nobody THEN q.portMac ELSE q.mac} \ {Nobody}
        \/ v.name = q.name /\ q.name # Nobody}}
WiredClients(learned, ports, views, switches) ==
    LET own == ({v.mac : v \in views} \cup {s.mac : s \in switches}) \ {Nobody}
        infrastructure == {r \in learned : r.mac \in own}
        behind == {r \in learned \ infrastructure : <<r.switch, r.port>> \in ApPorts(ports, views)}
    IN  [learned |-> learned, behind |-> behind, infrastructure |-> infrastructure,
         total |-> (learned \ infrastructure) \ behind]
============================================================================
