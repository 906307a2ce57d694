----------------------------- MODULE Redaction -----------------------------
(* What of a report leaves the process for one reader: credentials replaced *)
(* for everybody, and what the reader's role does not see emptied           *)
(* (sections.py, redact.py, scrub.py).                                      *)
EXTENDS Findings, Sequences

CONSTANTS
    SafeKeys,       \* keys that match the rules below and are no credential
    SecretKeys,     \* keys a compound term or a whole token gives away
    Redacted        \* what stands for a credential

---------------------------------------------------------------------------
(* The catalogue: a section, the paths it owns, the checks that make sense  *)
(* beside it and the columns of its table.                                  *)
Column(id, path, field) == [id |-> id, path |-> path, field |-> field]
Section(id, paths, checks) == [id |-> id, paths |-> paths, checks |-> checks, columns |-> {}]
\* One category of raw configuration for each endpoint, known by its slug.
Slugs == {"venue", "radio", "mesh", "mgmt-vlan", "load-balancing", "available-channels", "client-admission",
          "directed-multicast", "smart-monitor", "band-mode", "lan-ports", "model-capabilities", "models", "aaa",
          "dos-protection", "rogue-ap", "syslog", "snmp", "led", "bss-coloring", "cellular", "antenna-type",
          "external-antenna", "mdns-fencing", "radius-options", "reboot-timeout", "tls-key", "usb-ports",
          "rogue-policy", "wifi-settings", "regulatory-channels", "syslog-profile", "dhcp-service-profile",
          "trusted-ports", "radius-profiles", "ap-groups", "ap-overrides", "networks"}
ConfigId(slug) == "config." \o slug
\* Sections with nothing of their own to empty: tiles that read what others own.
Tiles == {Section("punchlist.summary", {}, {}), Section("overview.summary", {}, {"clients-present"}),
          Section("wired.ports", {}, {}), Section("poe.summary", {}, {})}
         \cup {Section(ConfigId(s), {}, {}) : s \in Slugs}
Overview == {
    Section("punchlist.tasks", {"punchlist"}, {}),
    Section("overview.verification", {"verification"}, {}),
    Section("overview.incidents", {"incidents"}, {}),
    Section("overview.access-points", {"inventory.aps"}, {"aps-online", "aps-provisioned", "ap-firmware"}),
    Section("overview.switches", {"inventory.switches"}, {"switches-online", "switch-firmware", "switch-config-sync"}),
    Section("config.venue-summary", {"venue.managementVlan", "venue.mesh", "venue.meshEnabled", "venue.meshZeroTouch",
                                     "venue.radio"}, {"mgmt-vlan"}),
    Section("overview.property", {"venue.property", "venue.isProperty"}, {})}
WirelessTab == {
    [Section("wireless.ssids", {"wireless.rows"},
             {"ssids-activated", "ssids-carrying", "ssids-broadcasting", "ssid-scope", "ssid-vlan-carried"})
        EXCEPT !.columns = {Column("wireless.ssids.col.vlan", "wireless.rows", "vlans"),
                            Column("wireless.ssids.col.tunnel", "wireless.rows", "tunnel")}],
    Section("wireless.clients-by-band", {"clients.byBand"}, {}),
    Section("wireless.signal-quality", {"clients.byRssi"}, {}),
    Section("wireless.clients-per-ssid", {"clients.bySsid"}, {}),
    Section("wireless.connection-health", {"clients.byHealth"}, {}),
    Section("wireless.busiest-aps", {"clients.topAps"}, {}),
    Section("wireless.channel-plan", {"radios.bands", "radios.plan"}, {"24ghz-channel-plan"}),
    Section("wireless.ap-groups", {"wireless.groups", "wireless.perApGroup"}, {"ap-group-ssid-limit"}),
    Section("wireless.ap-detail", {"apDetail"}, {})}
WiredTabs == {
    Section("wired.clients", {"wiredClients"}, {}),
    Section("wired.link-speeds", {"ports.bySpeed", "ports.slowLinks"}, {"port-link-speed"}),
    Section("wired.port-errors", {"ports.errored"}, {"port-errors"}),
    Section("wired.vlans", {"vlans"}, {"undeclared-vlans"}),
    Section("wired.port-list", {"ports.list", "ports.named"}, {}),
    Section("poe.budget", {"poe.switches"}, {"poe-budget"}),
    Section("poe.standard", {"poe.byType"}, {}),
    Section("poe.aps-on-ports", {"poe.apsOnPoe"}, {"ap-uplink-speed"}),
    Section("addressing.ap-subnets", {"addressing.apSubnets", "addressing.apsWithoutIp"}, {"ap-addressing"}),
    Section("addressing.external", {"addressing.external"}, {"external-ip"}),
    Section("addressing.switch-subnets", {"addressing.switchSubnets"}, {}),
    Section("addressing.gateways", {"addressing.gateways"}, {}),
    Section("addressing.dns", {"addressing.dns"}, {}),
    Section("addressing.dhcp-pools", {"addressing.dhcpPools"}, {"dhcp-pools"})}
IdentityTab == {
    Section("identity.dpsk-summary", {"dpsk.inUse", "dpsk.dpskSsids"}, {"dpsk-in-use"}),
    Section("identity.dpsk-pools", {"dpsk.pools"}, {"dpsk-passphrases"}),
    Section("identity.other-groups", {"dpsk.otherIdentityGroups"}, {"dpsk-identity-groups"}),
    Section("identity.policy-sets", {"policy.sets", "policy.inUse"}, {"policy-chain", "policy-set-empty"}),
    Section("identity.radius", {"policy.radiusGroups"}, {"radius-group-orphans"}),
    Section("devices.aps", {"inventory.rows.aps"},
            {"ap-naming", "ap-placement", "ap-mesh-fallback", "ap-uptime", "floorplans"}),
    Section("devices.switches", {"inventory.rows.switches"}, {}),
    Section("report.sources", {"meta.sources"}, {})}
Sections == Tiles \cup Overview \cup WirelessTab \cup WiredTabs \cup IdentityTab
Columns == UNION {s.columns : s \in Sections}
CheckIds == UNION {s.checks : s \in Sections}
\* What a list of hidden ids takes away; an id nobody knows takes nothing.
PathsFor(hidden) == UNION {s.paths : s \in {t \in Sections : t.id \in hidden}}
ChecksFor(hidden) == UNION {s.checks : s \in {t \in Sections : t.id \in hidden}}
LooseChecksFor(hidden) == hidden \cap CheckIds
ColumnsFor(hidden) == {c \in Columns : c.id \in hidden}

---------------------------------------------------------------------------
\* _is_secret() and scrub(): the key decides, an empty value stays as it is.
IsSecret(key) == key \in SecretKeys \ SafeKeys
Scrub(fields) == {IF IsSecret(f[1]) /\ f[2] # "" THEN <<f[1], Redacted>> ELSE f : f \in fields}
\* _blank_path and _blank_column.
BlankPath(data, paths) == [p \in DOMAIN data |-> IF p \in paths THEN {} ELSE data[p]]
BlankColumn(data, hidden) ==
    [p \in DOMAIN data |->
        LET fields == {c.field : c \in {d \in ColumnsFor(hidden) : d.path = p}}
        IN  IF fields = {} THEN data[p]
            ELSE {[f \in DOMAIN row |-> IF f \in fields THEN {} ELSE row[f]] : row \in data[p]}]
\* _filter_findings(): by id, and a check that errored goes by another name.
FilterFindings(v, checks) ==
    Verification({f \in v.findings : f.crashed \/ f.check \notin checks})

\* redact(): the punch list is made again from what is left, unless it is hidden.
MutRedact(report, hidden) ==
    LET clean == {[slug |-> c.slug, fields |-> Scrub(c.fields)] : c \in report.categories}
        found == FilterFindings(report.verification, ChecksFor(hidden) \cup LooseChecksFor(hidden))
    IN  [data |-> BlankColumn(BlankPath(report.data, PathsFor(hidden)), hidden),
         categories |-> {c \in clean : ConfigId(c.slug) \notin hidden},
         verification |-> IF "verification" \in PathsFor(hidden) THEN Verification({}) ELSE found,
         punchlist |-> IF "punchlist" \in PathsFor(hidden) THEN NoPunchList ELSE report.punchlist]
Redact(report, hidden) ==
    LET clean == {[slug |-> c.slug, fields |-> Scrub(c.fields)] : c \in report.categories}
        whole == IF "verification" \in PathsFor(hidden) THEN Verification({}) ELSE report.verification
        found == FilterFindings(whole, ChecksFor(hidden) \cup LooseChecksFor(hidden))
    IN  [data |-> BlankColumn(BlankPath(report.data, PathsFor(hidden)), hidden),
         categories |-> {c \in clean : ConfigId(c.slug) \notin hidden},
         verification |-> found,
         punchlist |-> IF "punchlist" \in PathsFor(hidden) THEN NoPunchList ELSE PunchList(found.findings)]
============================================================================
