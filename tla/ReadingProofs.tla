---------------------------- MODULE ReadingProofs ----------------------------
(* One poll of one venue: what is served, the verdict of a trace, the        *)
(* channel chart, the subnets, the recommendations and the alarms, for any   *)
(* venue, lost reads, hidden ids, usernames, bands, addresses and documents. *)
EXTENDS Reading, WellFoundedInduction, FiniteSetTheorems, TLAPS

---------------------------------------------------------------------------
(* What is served.  Every check goes by an id of the catalogue, so hiding an *)
(* id hides its finding.                                                    *)

LEMMA KnownIds ==
    /\ {"clients-present", "aps-online", "aps-provisioned", "ap-firmware", "switches-online", "switch-firmware",
        "switch-config-sync", "mgmt-vlan"} \subseteq CheckIds
    /\ {"ssids-activated", "ssids-carrying", "ssids-broadcasting", "ssid-scope", "ssid-vlan-carried",
        "24ghz-channel-plan", "ap-group-ssid-limit"} \subseteq CheckIds
    /\ {"port-link-speed", "port-errors", "undeclared-vlans", "poe-budget", "ap-uplink-speed", "ap-addressing",
        "external-ip", "dhcp-pools"} \subseteq CheckIds
    /\ {"dpsk-in-use", "dpsk-passphrases", "dpsk-identity-groups", "policy-chain", "policy-set-empty",
        "radius-group-orphans", "ap-naming", "ap-placement", "ap-mesh-fallback", "ap-uptime", "floorplans"}
       \subseteq CheckIds
<1>1. \A s \in Tiles \cup Overview \cup WirelessTab \cup WiredTabs \cup IdentityTab : s.checks \subseteq CheckIds
  BY DEF CheckIds, Sections
<1>2. \E s \in Tiles : s.checks = {"clients-present"}
  <2>1. Section("overview.summary", {}, {"clients-present"}) \in Tiles
    BY DEF Tiles
  <2> QED BY <2>1 DEF Section
<1>3. /\ \E s \in Overview : s.checks = {"aps-online", "aps-provisioned", "ap-firmware"}
      /\ \E s \in Overview : s.checks = {"switches-online", "switch-firmware", "switch-config-sync"}
      /\ \E s \in Overview : s.checks = {"mgmt-vlan"}
  BY DEF Overview, Section
<1>4. /\ \E s \in WirelessTab : s.checks = {"ssids-activated", "ssids-carrying", "ssids-broadcasting", "ssid-scope",
                                           "ssid-vlan-carried"}
      /\ \E s \in WirelessTab : s.checks = {"24ghz-channel-plan"}
      /\ \E s \in WirelessTab : s.checks = {"ap-group-ssid-limit"}
  BY DEF WirelessTab, Section
<1>5. /\ \E s \in WiredTabs : s.checks = {"port-link-speed"}
      /\ \E s \in WiredTabs : s.checks = {"port-errors"}
      /\ \E s \in WiredTabs : s.checks = {"undeclared-vlans"}
      /\ \E s \in WiredTabs : s.checks = {"poe-budget"}
  BY DEF WiredTabs, Section
<1>6. /\ \E s \in WiredTabs : s.checks = {"ap-uplink-speed"}
      /\ \E s \in WiredTabs : s.checks = {"ap-addressing"}
      /\ \E s \in WiredTabs : s.checks = {"external-ip"}
      /\ \E s \in WiredTabs : s.checks = {"dhcp-pools"}
  BY DEF WiredTabs, Section
<1>7. /\ \E s \in IdentityTab : s.checks = {"dpsk-in-use"}
      /\ \E s \in IdentityTab : s.checks = {"dpsk-passphrases"}
      /\ \E s \in IdentityTab : s.checks = {"dpsk-identity-groups"}
      /\ \E s \in IdentityTab : s.checks = {"policy-chain", "policy-set-empty"}
  BY DEF IdentityTab, Section
<1>8. /\ \E s \in IdentityTab : s.checks = {"radius-group-orphans"}
      /\ \E s \in IdentityTab : s.checks = {"ap-naming", "ap-placement", "ap-mesh-fallback", "ap-uptime", "floorplans"}
  BY DEF IdentityTab, Section
<1> QED BY <1>1, <1>2, <1>3, <1>4, <1>5, <1>6, <1>7, <1>8

LEMMA FindingId ==
    /\ \A check, severity, evidence : Finding(check, severity, evidence).check = check
    /\ \A check, nothing, bad, severity : Judged(check, nothing, bad, severity).check = check
BY DEF Judged, Finding

LEMMA FirmwareId ==
    ASSUME NEW check, NEW rows
    PROVE  Firmware(check, rows).check = check
<1> DEFINE versions == {r.firmware : r \in rows} \ {""}
           told == IF Cardinality(versions) > 1 THEN {<<"version", v>> : v \in versions} ELSE {}
<1>1. Firmware(check, rows) = Judged(check, versions = {}, told, "warning")
  BY DEF Firmware
<1> HIDE DEF versions, told
<1> QED BY <1>1, FindingId

LEMMA ChecksKnown ==
    ASSUME NEW c
    PROVE  /\ \A f \in Checks(c) : f.check \in CheckIds
           /\ \A f \in {SsidsActivated(c.rows), SsidsCarrying(c.rows), SsidsBroadcasting(c.rows, c.views), UndeclaredVlans(c.vlans),
                    SsidsPerGroup(c.perGroup), SsidScope(c.rows, c.views, c.truncated), PolicyChain(c.policy),
                    PolicySetPopulated(c.policy), DpskIdentityGroups(c.pools, c.complete), FloorPlans(c.plans),
                    ClientsPresent(c.views, c.clients)} : f.check \in Takers
<1>1. ApsOnline(c.views).check = "aps-online"
  BY FindingId DEF ApsOnline
<1>2. ApsProvisioned(c.views).check = "aps-provisioned"
  BY FindingId DEF ApsProvisioned
<1>3. SwitchesOnline(c.switches).check = "switches-online"
  BY FindingId DEF SwitchesOnline
<1>4. Firmware("ap-firmware", c.views).check = "ap-firmware"
  BY FirmwareId
<1>5. Firmware("switch-firmware", c.switches).check = "switch-firmware"
  BY FirmwareId
<1>6. ConfigSync(c.switches).check = "switch-config-sync"
  BY FindingId DEF ConfigSync
<1>7. MeshFallback(c.views).check = "ap-mesh-fallback"
  BY FindingId DEF MeshFallback
<1>8. Uptime(c.views).check = "ap-uptime"
  BY FindingId DEF Uptime
<1>9. FloorPlans(c.plans).check = "floorplans"
  BY FindingId DEF FloorPlans
<1>10. Placement(c.views).check = "ap-placement"
  BY FindingId DEF Placement
<1>11. Naming(c.views).check = "ap-naming"
  <2> DEFINE bad == {v \in c.views : \/ v.name \in {"", v.serial}
                                     \/ \E w \in c.views : w.serial # v.serial /\ w.name = v.name}
  <2>1. Naming(c.views) = Judged("ap-naming", c.views = {}, Ap(bad), "warning")
    BY DEF Naming
  <2> HIDE DEF bad
  <2> QED BY <2>1, FindingId
<1>12. ClientsPresent(c.views, c.clients).check = "clients-present"
  BY FindingId DEF ClientsPresent
<1>13. SsidsActivated(c.rows).check = "ssids-activated"
  BY FindingId DEF SsidsActivated
<1>14. SsidsCarrying(c.rows).check = "ssids-carrying"
  BY FindingId DEF SsidsCarrying
<1>15. SsidsBroadcasting(c.rows, c.views).check = "ssids-broadcasting"
  <2> DEFINE told == Judged("ssids-broadcasting", FALSE, Ssids({r \in c.rows : r.onAir = {}}), "warning")
             silent == Finding("ssids-broadcasting", "skipped", {})
  <2>1. SsidsBroadcasting(c.rows, c.views) \in {silent, told}
    BY DEF SsidsBroadcasting
  <2>2. told.check = "ssids-broadcasting" /\ silent.check = "ssids-broadcasting"
    BY DEF Judged, Finding
  <2> HIDE DEF silent, told
  <2> QED BY <2>1, <2>2
<1>16. SsidsPerGroup(c.perGroup).check = "ap-group-ssid-limit"
  BY FindingId DEF SsidsPerGroup
<1>17. SsidScope(c.rows, c.views, c.truncated).check = "ssid-scope"
  BY FindingId DEF SsidScope
<1>18. ChannelPlan24(c.plan).check = "24ghz-channel-plan"
  BY FindingId DEF ChannelPlan24
<1>19. SsidVlansCarried(c.vlans).check = "ssid-vlan-carried"
  BY FindingId DEF SsidVlansCarried
<1>20. UndeclaredVlans(c.vlans).check = "undeclared-vlans"
  BY FindingId DEF UndeclaredVlans
<1>21. ManagementVlan(c.vlans).check = "mgmt-vlan"
  BY FindingId DEF ManagementVlan
<1>22. PoeBudget(c.poe).check = "poe-budget"
  BY FindingId DEF PoeBudget
<1>23. UplinkSpeed(c.poe).check = "ap-uplink-speed"
  BY FindingId DEF UplinkSpeed
<1>24. PortErrors(c.ports).check = "port-errors"
  BY FindingId DEF PortErrors
<1>25. LinkSpeed(c.ports).check = "port-link-speed"
  BY FindingId DEF LinkSpeed
<1>26. ApAddressing(c.subnets, c.missing).check = "ap-addressing"
  BY FindingId DEF ApAddressing
<1>27. ExternalIp(c.external).check = "external-ip"
  BY FindingId DEF ExternalIp
<1>28. DhcpPools(c.dhcp).check = "dhcp-pools"
  BY FindingId DEF DhcpPools
<1>29. DpskInUse(c.pools).check = "dpsk-in-use"
  BY FindingId DEF DpskInUse
<1>30. PolicyChain(c.policy).check = "policy-chain"
  BY FindingId DEF PolicyChain
<1>31. PolicySetPopulated(c.policy).check = "policy-set-empty"
  BY FindingId DEF PolicySetPopulated
<1>32. RadiusOrphans(c.policy).check = "radius-group-orphans"
  BY FindingId DEF RadiusOrphans
<1>33. DpskPassphrases(c.pools).check = "dpsk-passphrases"
  BY FindingId DEF DpskPassphrases
<1>34. DpskIdentityGroups(c.pools, c.complete).check = "dpsk-identity-groups"
  BY FindingId DEF DpskIdentityGroups
<1>35. \A f \in Checks(c) : f.check \in CheckIds
  BY <1>1, <1>2, <1>3, <1>4, <1>5, <1>6, <1>7, <1>8, <1>9, <1>10, <1>11, <1>12,
          <1>13, <1>14, <1>15, <1>16, <1>17, <1>18, <1>19, <1>20, <1>21, <1>22, <1>23, <1>24,
          <1>25, <1>26, <1>27, <1>28, <1>29, <1>30, <1>31, <1>32, <1>33, <1>34, KnownIds
       DEF Checks
<1>36. \A f \in {SsidsActivated(c.rows), SsidsCarrying(c.rows), SsidsBroadcasting(c.rows, c.views), UndeclaredVlans(c.vlans),
              SsidsPerGroup(c.perGroup), SsidScope(c.rows, c.views, c.truncated), PolicyChain(c.policy),
              PolicySetPopulated(c.policy), DpskIdentityGroups(c.pools, c.complete), FloorPlans(c.plans),
              ClientsPresent(c.views, c.clients)} : f.check \in Takers
  BY <1>9, <1>12, <1>13, <1>14, <1>15, <1>16, <1>17, <1>20, <1>30, <1>31, <1>34 DEF Takers
<1> QED BY <1>35, <1>36

\* Only two columns have an id, both of the SSID table.
LEMMA TwoColumns ==
    ASSUME NEW col \in Columns
    PROVE  col.path = "wireless.rows" /\ col.field \in {"vlans", "tunnel"}
<1>1. \A s \in Overview \cup WiredTabs \cup IdentityTab : s.columns = {}
  <2>1. \A s \in Overview : s.columns = {}
    BY DEF Overview, Section
  <2>2. \A s \in WiredTabs : s.columns = {}
    BY DEF WiredTabs, Section
  <2>3. \A s \in IdentityTab : s.columns = {}
    BY DEF IdentityTab, Section
  <2> QED BY <2>1, <2>2, <2>3
<1>2. \A s \in Tiles : s.columns = {}
  BY DEF Tiles, Section
<1>3. \A s \in WirelessTab : \A k \in s.columns : k.path = "wireless.rows" /\ k.field \in {"vlans", "tunnel"}
  BY DEF WirelessTab, Section, Column
<1> QED BY <1>1, <1>2, <1>3 DEF Columns, Sections

\* Every row of that table has both.
LEMMA RowsHaveThem ==
    ASSUME NEW raw, NEW views, NEW row \in RowsOf(raw, views)
    PROVE  {"vlans", "tunnel"} \subseteq DOMAIN row
BY DEF RowsOf, SsidRows, SsidRow

\* The paths of a report that a column is of: the rows of the SSID table.
LEMMA ReportRows ==
    ASSUME NEW sc, NEW missing, NEW row \in Report(sc, missing).data["wireless.rows"]
    PROVE  {"vlans", "tunnel"} \subseteq DOMAIN row
<1>1. Report(sc, missing).data["wireless.rows"] = Cards(sc, missing).rows
  BY DEF Report
<1>2. Cards(sc, missing).rows = RowsOf(Raw(sc, missing), Views(Raw(sc, missing)["aps"]))
  BY DEF Cards
<1> QED BY <1>1, <1>2, RowsHaveThem

LEMMA ReportFindings ==
    ASSUME NEW sc, NEW missing
    PROVE  \A f \in Report(sc, missing).verification.findings : f.crashed \/ f.check \in CheckIds
<1>1. Report(sc, missing).verification.findings = RunChecks(Checks(Cards(sc, missing)), sc.broken)
  BY DEF Report, Verification
<1>2. \A f \in Checks(Cards(sc, missing)) : f.check \in CheckIds
  BY ChecksKnown
<1> HIDE DEF Checks
<1>3. \A f \in RunChecks(Checks(Cards(sc, missing)), sc.broken) : f.crashed \/ f.check \in CheckIds
  BY <1>2 DEF RunChecks, Crashed
<1> QED BY <1>1, <1>3

\* Whatever a report is, as long as its checks go by known ids and the rows of
\* the SSID table have the columns it has.
LEMMA Redacts ==
    ASSUME NEW report, NEW hidden,
           \A f \in report.verification.findings : f.crashed \/ f.check \in CheckIds,
           "wireless.rows" \in DOMAIN report.data,
           \A row \in report.data["wireless.rows"] : {"vlans", "tunnel"} \subseteq DOMAIN row
    PROVE  HoldsNothing(Redact(report, hidden), hidden)
<1> DEFINE shown == Redact(report, hidden)
           blank == BlankPath(report.data, PathsFor(hidden))
           checks == ChecksFor(hidden) \cup LooseChecksFor(hidden)
           whole == IF "verification" \in PathsFor(hidden) THEN Verification({}) ELSE report.verification
           found == FilterFindings(whole, checks)
           clean == {[slug |-> c.slug, fields |-> Scrub(c.fields)] : c \in report.categories}
<1>1. /\ shown.data = BlankColumn(blank, hidden)
      /\ shown.categories = {c \in clean : ConfigId(c.slug) \notin hidden}
      /\ shown.verification = found
      /\ shown.punchlist = IF "punchlist" \in PathsFor(hidden) THEN NoPunchList ELSE PunchList(found.findings)
  BY DEF Redact
<1>2. /\ DOMAIN blank = DOMAIN report.data
      /\ \A p \in DOMAIN blank : blank[p] = IF p \in PathsFor(hidden) THEN {} ELSE report.data[p]
  BY DEF BlankPath
<1> HIDE DEF shown, blank
<1>3. DOMAIN shown.data = DOMAIN report.data
  BY <1>1, <1>2 DEF BlankColumn
<1>4. ASSUME NEW p \in PathsFor(hidden), p \in DOMAIN shown.data PROVE shown.data[p] = {}
  <2>1. blank[p] = {} /\ p \in DOMAIN blank
    BY <1>2, <1>3, <1>4
  <2> QED BY <1>1, <2>1 DEF BlankColumn
<1>5. ASSUME NEW k \in ColumnsFor(hidden), k.path \in DOMAIN shown.data, NEW row \in shown.data[k.path]
      PROVE  row[k.field] = {}
  <2> DEFINE p == k.path
             fields == {d.field : d \in {e \in ColumnsFor(hidden) : e.path = p}}
  <2>1. p = "wireless.rows" /\ k.field \in {"vlans", "tunnel"} /\ k.field \in fields
    BY <1>5, TwoColumns DEF ColumnsFor
  <2>2. shown.data[p] = {[f \in DOMAIN old |-> IF f \in fields THEN {} ELSE old[f]] : old \in blank[p]}
    BY <1>1, <1>2, <1>3, <1>5, <2>1 DEF BlankColumn
  <2>3. \A old \in blank[p] : k.field \in DOMAIN old
    BY <1>2, <1>3, <1>5, <2>1
  <2> QED BY <1>5, <2>1, <2>2, <2>3
<1>6. /\ found.findings = {f \in whole.findings : f.crashed \/ f.check \notin checks}
      /\ found.counts = Tally(found.findings)
  BY DEF FilterFindings, Verification
<1>7. \A f \in whole.findings : f.crashed \/ f.check \in CheckIds
  BY DEF Verification
<1> HIDE DEF whole, found
<1>8. \A f \in found.findings : f.crashed \/ f.check \notin ChecksFor(hidden) \cup hidden
  BY <1>6, <1>7 DEF LooseChecksFor
<1>9. shown.punchlist.tasks \subseteq found.findings
  BY <1>1 DEF NoPunchList, PunchList, Tasks
<1>10. ASSUME NEW c \in shown.categories
       PROVE  ConfigId(c.slug) \notin hidden /\ \A f \in c.fields : IsSecret(f[1]) => f[2] \in {"", Redacted}
  <2>1. PICK old \in report.categories : c = [slug |-> old.slug, fields |-> Scrub(old.fields)]
    BY <1>1, <1>10
  <2>2. \A f \in Scrub(old.fields) : IsSecret(f[1]) => f[2] \in {"", Redacted}
    <3> SUFFICES ASSUME NEW f \in Scrub(old.fields), IsSecret(f[1]) PROVE f[2] \in {"", Redacted}
      OBVIOUS
    <3>1. PICK g \in old.fields : f = IF IsSecret(g[1]) /\ g[2] # "" THEN <<g[1], Redacted>> ELSE g
      BY DEF Scrub
    <3>2. CASE IsSecret(g[1]) /\ g[2] # ""
      <4>1. f = <<g[1], Redacted>>
        BY <3>1, <3>2
      <4> QED BY <4>1
    <3>3. CASE ~(IsSecret(g[1]) /\ g[2] # "")
      <4>1. f = g
        BY <3>1, <3>3
      <4> QED BY <3>3, <4>1
    <3> QED BY <3>2, <3>3
  <2> QED BY <1>1, <1>10, <2>1, <2>2
<1> QED BY <1>1, <1>4, <1>5, <1>6, <1>8, <1>9, <1>10 DEF HoldsNothing, shown

\* Nothing hidden leaves: not by a path, a column, a finding, a task over one, a
\* category or a credential, for any venue, reads that failed and hidden ids
\* (redact.py, scrub.py, the catalogue of sections.py and every check).
THEOREM NothingHiddenLeaves == Spec => []HiddenStaysHidden
<1>1. HiddenStaysHidden
  <2>1. "wireless.rows" \in DOMAIN Report(scene, lost).data
    BY DEF Report
  <2> QED BY <2>1, ReportFindings, ReportRows, Redacts DEF HiddenStaysHidden
<1> QED BY <1>1, PTL

---------------------------------------------------------------------------
(* The trace.                                                               *)

SceneKnown == \E family \in Scenes : scene \in family

LEMMA SceneStays == Spec => []SceneKnown
<1>1. Init => SceneKnown
  BY DEF Init, SceneKnown
<1>2. SceneKnown /\ [Next]_vars => SceneKnown'
  BY DEF SceneKnown, Next, ReadFails, Serve, vars
<1> QED BY <1>1, <1>2, PTL DEF Spec

\* A verdict of "nobody catches this name" has read every policy of the set.
LEMMA NobodyCatches ==
    ASSUME NEW t, NEW e, NEW pool,
           Issues(t, e, pool) \cap {"rejected", "default-access"} # {},
           UserSet(e, pool) \in t.scoped
    PROVE  \A p \in t.policies : p.id \in t.members[UserSet(e, pool)] => p.read /\ AllMatch(p.users, e.name) # "yes"
<1> DEFINE set == UserSet(e, pool)
           ps == SetPolicies(t, set)
<1>1. ps = {p \in t.policies : p.id \in t.members[set]}
  BY DEF SetPolicies
<1>2. SharedIssues(t, e, pool) \cap {"rejected", "default-access"} = {}
  BY DEF SharedIssues
<1>3. CaughtIssues(t, e, pool, Winner(t, e, pool)) \cap {"rejected", "default-access"} = {}
  BY DEF CaughtIssues
<1>4. Candidates(t, e, set) = {} /\ UncaughtIssues(t, e, pool) \cap {"rejected", "default-access"} # {}
  BY <1>2, <1>3 DEF Issues
<1>5. \A p \in ps : p.read
  BY <1>4 DEF UncaughtIssues
<1> QED BY <1>1, <1>4, <1>5 DEF Candidates

\* The trace knows each policy of the venue, but for whether it could be read,
\* and each member of a set when the members were listed.
LEMMA TracedPolicies ==
    ASSUME SceneKnown, "members" \notin lost
    PROVE  LET t == Traced(scene, lost) IN
           /\ t.members = scene.members
           /\ \A p \in scene.policies : \E q \in t.policies : q.id = p.id /\ q.users = p.users
<1> DEFINE t == Traced(scene, lost)
           known(p) == [p EXCEPT !.read = @ /\ p.id \notin lost]
<1>1. t.members = Raw(scene, lost \cap {"members"})["members"] /\ t.policies = {known(p) : p \in scene.policies}
  BY DEF Traced
<1>2. Raw(scene, lost \cap {"members"})["members"] = scene["members"]
  BY DEF Raw, Reads
<1>3. ASSUME NEW p \in scene.policies PROVE known(p).id = p.id /\ known(p).users = p.users
  <2>1. {"id", "read", "users"} \subseteq DOMAIN p
    BY ReadingAssumption DEF SceneKnown
  <2> QED BY <2>1
<1> QED BY <1>1, <1>2, <1>3

\* Whichever conditions could be read, a username that is called rejected or left
\* to the default is caught by no policy of its set (trace.identity_trace).
THEOREM VerdictsAreTrue == Spec => []VerdictTrue
<1>1. SceneKnown => VerdictTrue
  <2> DEFINE t == Traced(scene, lost)
  <2> SUFFICES ASSUME SceneKnown, "members" \notin lost, NEW r \in Unmatched(t), r.set \in t.scoped,
                      NEW p \in scene.policies, p.id \in scene.members[r.set], Truly(p, r.user)
               PROVE  FALSE
    BY DEF VerdictTrue
  <2> HIDE DEF t
  <2>1. PICK pool \in t.pools : \E e \in t.users : r = TraceRow(t, e, pool)
    BY DEF Unmatched, IdentityTrace
  <2>2. PICK e \in t.users : r = TraceRow(t, e, pool)
    BY <2>1
  <2>3. r.user = e.name /\ r.set = UserSet(e, pool) /\ r.issues = Issues(t, e, pool)
    BY <2>2 DEF TraceRow
  <2>4. Issues(t, e, pool) \cap {"rejected", "default-access"} # {} /\ UserSet(e, pool) \in t.scoped
    BY <2>3 DEF Unmatched
  <2>5. PICK q \in t.policies : q.id = p.id /\ q.users = p.users
    BY TracedPolicies DEF t
  <2>6. q.id \in t.members[UserSet(e, pool)]
    BY <2>3, <2>5, TracedPolicies DEF t
  <2>7. AllMatch(q.users, e.name) # "yes"
    BY <2>4, <2>6, NobodyCatches
  <2> QED BY <2>3, <2>5, <2>7 DEF Truly
<1> QED BY <1>1, SceneStays, PTL

---------------------------------------------------------------------------
(* The channel chart.                                                       *)

LEMMA LeastNumber ==
    ASSUME NEW S \in SUBSET Nat, S # {}
    PROVE  \E m \in S : \A x \in S : m <= x
<1>1. PICK m \in S : \A x \in S : ~(<<x, m>> \in OpToRel(<, Nat))
  BY WFMin, NatLessThanWellFounded
<1>2. \A x \in S : m <= x
  <2> SUFFICES ASSUME NEW x \in S PROVE m <= x
    OBVIOUS
  <2>1. <<x, m>> \in Nat \X Nat /\ ~(x < m)
    BY <1>1 DEF OpToRel
  <2> QED BY <2>1
<1> QED BY <1>2

\* A channel has a place of its own in its band, and grows with its number.
LEMMA Centres ==
    ASSUME NEW band, NEW c \in Nat, NEW d \in Nat
    PROVE  /\ Centre(band, c) \in Nat /\ c <= Centre(band, c)
           /\ Centre(band, c) = Centre(band, d) => c = d
           /\ Centre(band, c) - Centre(band, d) = 20 => d = c - 4
           /\ c < d /\ HasCentre(band, c) /\ HasCentre(band, d) => Centre(band, c) < Centre(band, d)
BY DEF Centre, HasCentre

\* The run a slot is in begins at the last slot before it that follows none: there
\* is one, for a slot follows only one of a lower number.
LEMMA RunStart ==
    ASSUME NEW band, NEW slots \in SUBSET Nat, NEW s \in slots
    PROVE  LET heads == slots \ Joined(band, slots)
               h == Starts(band, slots)[s]
           IN  h \in heads /\ h <= s /\ \A k \in heads : k <= s => k <= h
<1> DEFINE heads == slots \ Joined(band, slots)
           below == {x \in slots : x <= s}
           back == {s - x : x \in {y \in heads : y <= s}}
<1>1. PICK m \in below : \A x \in below : m <= x
  BY LeastNumber
<1>2. m \in heads /\ m <= s
  <2> SUFFICES m \notin Joined(band, slots)
    OBVIOUS
  <2> SUFFICES ASSUME NEW p \in slots, Centre(band, m) - Centre(band, p) = 20 PROVE FALSE
    BY DEF Joined
  <2>1. m \in Nat /\ p \in Nat /\ s \in Nat /\ m <= s
    OBVIOUS
  <2>2. p = m - 4
    BY <2>1, Centres
  <2>3. p \in below /\ p < m
    BY <2>1, <2>2
  <2> QED BY <1>1, <2>1, <2>3
<1>3. back \in SUBSET Nat /\ back # {}
  BY <1>2
<1> HIDE DEF below
<1>4. PICK n \in back : \A x \in back : n <= x
  BY <1>3, LeastNumber
<1>5. PICK h \in heads : h <= s /\ n = s - h
  OBVIOUS
<1>6. \A k \in heads : k <= s => k <= h
  <2> SUFFICES ASSUME NEW k \in heads, k <= s PROVE k <= h
    OBVIOUS
  <2>1. s - k \in back /\ k \in Nat /\ h \in Nat /\ s \in Nat
    OBVIOUS
  <2> HIDE DEF back, heads
  <2>2. n <= s - k
    BY <1>4, <2>1
  <2> QED BY <1>5, <2>1, <2>2
<1> HIDE DEF heads, back
<1>7. Starts(band, slots)[s] = CHOOSE x \in heads : x <= s /\ \A k \in heads : k <= s => k <= x
  BY DEF Starts, heads
<1> QED BY <1>5, <1>6, <1>7 DEF heads

\* Two slots of one place in their run are less than its width apart.
Place(band, slots, width, t) == (Centre(band, t) - Centre(band, Starts(band, slots)[t])) \div width
BlockOf(band, slots, width, s) ==
    {t \in slots : /\ Starts(band, slots)[t] = Starts(band, slots)[s]
                   /\ Place(band, slots, width, t) = Place(band, slots, width, s)}

LEMMA BondBlocks ==
    ASSUME NEW band, NEW slots, NEW width
    PROVE  Bond(band, slots, width) =
             {b \in {BlockOf(band, slots, width, s) : s \in slots} : Cardinality(b) = width \div 20}
BY DEF Bond, BlockOf, Place

LEMMA Near ==
    ASSUME NEW x \in Int, NEW y \in Int, NEW width \in BondingWidths, x \div width = y \div width
    PROVE  x - y < width
<1>1. CASE width = 20
  BY <1>1
<1>2. CASE width = 40
  BY <1>2
<1>3. CASE width = 80
  BY <1>3
<1>4. CASE width = 160
  BY <1>4
<1>5. CASE width = 320
  BY <1>5
<1> QED BY <1>1, <1>2, <1>3, <1>4, <1>5 DEF BondingWidths

LEMMA BlockNear ==
    ASSUME NEW band, NEW slots \in SUBSET Nat, NEW width \in BondingWidths, NEW s \in slots,
           NEW x \in BlockOf(band, slots, width, s), NEW y \in BlockOf(band, slots, width, s)
    PROVE  Centre(band, x) - Centre(band, y) < width
<1> DEFINE h == Starts(band, slots)[s]
<1>1. x \in slots /\ y \in slots /\ Starts(band, slots)[x] = h /\ Starts(band, slots)[y] = h
      /\ Place(band, slots, width, x) = Place(band, slots, width, y)
  BY DEF BlockOf
<1>2. h \in Nat
  BY RunStart
<1>3. Centre(band, x) \in Nat /\ Centre(band, y) \in Nat /\ Centre(band, h) \in Nat
  BY <1>1, <1>2, Centres
<1> HIDE DEF h
<1>4. (Centre(band, x) - Centre(band, h)) \div width = (Centre(band, y) - Centre(band, h)) \div width
  BY <1>1 DEF Place
<1>5. (Centre(band, x) - Centre(band, h)) - (Centre(band, y) - Centre(band, h)) < width
  BY <1>3, <1>4, Near
<1> QED BY <1>3, <1>5

\* So a block is finite, with as many places as it has slots.
LEMMA BlockPlaces ==
    ASSUME NEW band, NEW slots \in SUBSET Nat, NEW width \in BondingWidths, NEW s \in slots
    PROVE  LET b == BlockOf(band, slots, width, s) IN
           Cardinality({Centre(band, c) : c \in b}) = Cardinality(b)
<1> DEFINE b == BlockOf(band, slots, width, s)
           at == {Centre(band, c) : c \in b}
           f == [c \in b |-> Centre(band, c)]
           top == Centre(band, s) + width
<1>1. s \in b /\ b \in SUBSET Nat
  BY DEF BlockOf
<1>2. top \in Nat
  BY Centres DEF BondingWidths
<1>3. b \in SUBSET (0..top)
  <2> SUFFICES ASSUME NEW c \in b PROVE c \in 0..top
    OBVIOUS
  <2>1. Centre(band, c) - Centre(band, s) < width
    BY <1>1, BlockNear
  <2>2. c \in Nat /\ Centre(band, c) \in Nat /\ c <= Centre(band, c) /\ Centre(band, s) \in Nat /\ width \in Nat
    BY <1>1, Centres DEF BondingWidths
  <2> HIDE DEF b
  <2> QED BY <2>1, <2>2
<1> HIDE DEF b, top
<1>4. IsFiniteSet(b)
  <2>1. IsFiniteSet(0..top)
    BY <1>2, FS_Interval
  <2> QED BY <1>3, <2>1, FS_Subset
<1>5. f \in Bijection(b, at)
  <2>1. \A c, d \in b : f[c] = f[d] => c = d
    BY <1>1, Centres
  <2> QED BY <2>1 DEF Bijection, Injection, Surjection, IsInjective
<1> HIDE DEF f, at
<1>6. Cardinality(at) = Cardinality(b)
  BY <1>4, <1>5, FS_Bijection DEF ExistsBijection
<1> QED BY <1>6 DEF at, b

\* A slot that is in nobody's way alone makes a block of 20 MHz, for the next one
\* of its run is 20 MHz on.
LEMMA AloneAt20 ==
    ASSUME NEW band, NEW slots \in SUBSET Nat, \A c \in slots : HasCentre(band, c), NEW s \in slots
    PROVE  BlockOf(band, slots, 20, s) = {s}
<1>1. s \in BlockOf(band, slots, 20, s) /\ 20 \in BondingWidths
  BY DEF BlockOf, BondingWidths
<1>2. ASSUME NEW x \in slots, NEW y \in slots, x < y,
             Starts(band, slots)[x] = Starts(band, slots)[y]
      PROVE  Centre(band, y) - Centre(band, x) >= 20
  <2>1. x \in Nat /\ y \in Nat /\ Centre(band, x) \in Nat /\ Centre(band, y) \in Nat
    BY Centres
  <2>2. y \in Joined(band, slots)
    <3> SUFFICES ASSUME y \notin Joined(band, slots) PROVE FALSE
      OBVIOUS
    <3>1. y <= Starts(band, slots)[y]
      BY <2>1, RunStart
    <3>2. Starts(band, slots)[x] <= x /\ Starts(band, slots)[x] \in Nat
      BY RunStart
    <3> QED BY <1>2, <2>1, <3>1, <3>2
  <2>3. \A q \in slots : Centre(band, y) - Centre(band, q) \notin 1..19
    BY <2>2 DEF Joined
  <2>4. Centre(band, x) < Centre(band, y)
    BY <1>2, <2>1, Centres
  <2> QED BY <2>1, <2>3, <2>4
<1>3. ASSUME NEW x \in BlockOf(band, slots, 20, s) PROVE x = s
  <2>1. x \in slots /\ Starts(band, slots)[x] = Starts(band, slots)[s]
    BY DEF BlockOf
  <2>2. /\ Centre(band, x) - Centre(band, s) < 20 /\ Centre(band, s) - Centre(band, x) < 20
        /\ x \in Nat /\ s \in Nat /\ Centre(band, x) \in Nat /\ Centre(band, s) \in Nat
    BY <1>1, <2>1, BlockNear, Centres
  <2>3. ~(x < s) /\ ~(s < x)
    BY <1>2, <2>1, <2>2
  <2> QED BY <2>2, <2>3
<1> QED BY <1>1, <1>3

\* One row of the chart, over any channels.
LEMMA RowTrue ==
    ASSUME NEW band, NEW width \in BondingWidths, NEW allowed \in SUBSET Nat,
           NEW radios, \A r \in radios : r[2] \in Nat
    PROVE  LET row == Row(band, width, allowed, radios) IN
           /\ \A b \in row : LET at == {Centre(band, c) : c \in b.channels} IN
                 Cardinality(at) = width \div 20 /\ \A x, y \in at : x - y < width
           /\ \A b, c \in row : b.channels \cap c.channels # {} => b = c
           /\ \A r \in radios :
                IF HasCentre(band, r[2])
                THEN width = 20 /\ r[3] = 20 => \E b \in row : r \in b.radios
                ELSE \A b \in row : r \notin b.radios
<1> DEFINE slots == Slots(band, allowed, radios)
           block(s) == BlockOf(band, slots, width, s)
           row == Row(band, width, allowed, radios)
           entry(b) == [channels |-> b, radios |-> On(b, width, radios), allowed |-> b \subseteq allowed,
                        offPlan |-> On(b, width, radios) # {} /\ ~(b \subseteq allowed)]
<1>1. /\ slots \in SUBSET Nat
      /\ \A c \in slots : HasCentre(band, c)
      /\ \A r \in radios : HasCentre(band, r[2]) => r[2] \in slots
  <2>1. BandChannels(band) \subseteq Nat
    BY DEF BandChannels
  <2> QED BY <2>1 DEF Slots
<1>2. row = {entry(b) : b \in Bond(band, slots, width)}
  BY DEF Row
<1>3. Bond(band, slots, width) = {b \in {block(s) : s \in slots} : Cardinality(b) = width \div 20}
  BY BondBlocks
<1> HIDE DEF slots, row
<1>4. \A b \in row : \E s \in slots :
           b = entry(block(s)) /\ b.channels = block(s) /\ Cardinality(block(s)) = width \div 20
  BY <1>2, <1>3
<1>5. ASSUME NEW b \in row
      PROVE  LET at == {Centre(band, c) : c \in b.channels} IN
             Cardinality(at) = width \div 20 /\ \A x, y \in at : x - y < width
  <2>1. PICK s \in slots : b.channels = block(s) /\ Cardinality(block(s)) = width \div 20
    BY <1>4
  <2>2. Cardinality({Centre(band, c) : c \in block(s)}) = width \div 20
    BY <1>1, <2>1, BlockPlaces
  <2>3. \A c, d \in block(s) : Centre(band, c) - Centre(band, d) < width
    BY <1>1, BlockNear
  <2> QED BY <2>1, <2>2, <2>3
<1>6. ASSUME NEW b \in row, NEW c \in row, b.channels \cap c.channels # {} PROVE b = c
  <2>1. PICK s \in slots : b = entry(block(s)) /\ b.channels = block(s)
    BY <1>4
  <2>2. PICK z \in slots : c = entry(block(z)) /\ c.channels = block(z)
    BY <1>4
  <2>3. block(s) = block(z)
    BY <1>6, <2>1, <2>2 DEF BlockOf
  <2> QED BY <2>1, <2>2, <2>3
<1>7. ASSUME width = 20, NEW r \in radios, HasCentre(band, r[2]), r[3] = 20
      PROVE  \E b \in row : r \in b.radios
  <2>1. r[2] \in slots /\ block(r[2]) = {r[2]}
    BY <1>1, <1>7, AloneAt20
  <2>2. Cardinality({r[2]}) = 1 /\ width \div 20 = 1
    <3>1. Cardinality({r[2]}) = 1
      BY FS_Singleton
    <3> QED BY <1>7, <3>1
  <2>3. {r[2]} \in Bond(band, slots, width)
    BY <1>3, <2>1, <2>2
  <2>4. r \in On({r[2]}, width, radios)
    BY <1>7 DEF On
  <2>5. entry({r[2]}) \in row
    BY <1>2, <2>3
  <2>6. entry({r[2]}).radios = On({r[2]}, width, radios)
    OBVIOUS
  <2> HIDE DEF entry
  <2> QED BY <2>4, <2>5, <2>6
<1>8. ASSUME NEW r \in radios, ~HasCentre(band, r[2]), NEW b \in row PROVE r \notin b.radios
  <2>1. PICK s \in slots : b = entry(block(s))
    BY <1>4
  <2>2. b.radios = On(block(s), width, radios) /\ block(s) \subseteq slots
    BY <2>1 DEF BlockOf
  <2> QED BY <1>1, <1>8, <2>2 DEF On
<1> QED BY <1>5, <1>6, <1>7, <1>8 DEF row

\* In every band and row of the chart no two blocks share a channel, each is one
\* stretch of its width, and a radio of 20 MHz is on one and a radio whose
\* channel is nowhere in the band on none, whatever the venue permits and wherever
\* its radios are (shape.channel_plan, _bond, _channel_centre_mhz).
THEOREM ChartIsTrue == Spec => []ChartTrue
<1>1. SceneKnown => ChartTrue
  <2> DEFINE views == Views(scene.aps)
  <2> SUFFICES ASSUME SceneKnown, NEW p \in ChannelPlan(scene.radio, views), NEW w \in DOMAIN p.chart
               PROVE
        /\ \A b \in p.chart[w] :
            LET at == {Centre(p.band, c) : c \in b.channels} IN
            Cardinality(at) = w \div 20 /\ \A x, y \in at : x - y < w
        /\ \A b, c \in p.chart[w] : b.channels \cap c.channels # {} => b = c
        /\ \A r \in RadiosOn(p.band, views) :
            IF HasCentre(p.band, r[2])
            THEN w = 20 /\ r[3] = 20 => \E b \in p.chart[w] : r \in b.radios
            ELSE \A b \in p.chart[w] : r \notin b.radios
    BY DEF ChartTrue
  <2>1. PICK entry \in scene.radio : p = Plan(entry, views)
    BY DEF ChannelPlan
  <2> DEFINE radios == RadiosOn(p.band, views)
             allowed == entry.allowed \ {0}
  <2>2. allowed \in SUBSET Nat
    BY ReadingAssumption DEF SceneKnown
  <2>3. \A r \in radios : r[2] \in Nat
    <3>1. \A v \in views : \A r \in v.radios : r.channel \in Nat
      <4> SUFFICES ASSUME NEW a \in scene.aps PROVE \A r \in View(a).radios : r.channel \in Nat
        BY DEF Views
      <4>1. "radios" \in DOMAIN a /\ \A r \in a.radios : r.channel \in Nat
        BY ReadingAssumption DEF SceneKnown
      <4>2. View(a).radios = a.radios
        BY <4>1 DEF View
      <4> QED BY <4>1, <4>2
    <3> HIDE DEF views
    <3> QED BY <3>1 DEF RadiosOn
  <2> HIDE DEF views
  <2>4. p.band = entry.band /\ p.chart = Chart(p.band, allowed, radios)
    BY <2>1 DEF Plan
  <2> HIDE DEF radios, allowed
  <2>5. w \in BondingWidths /\ p.chart[w] = Row(p.band, w, allowed, radios)
    BY <2>4 DEF Chart
  <2>6. LET row == Row(p.band, w, allowed, radios) IN
           /\ \A b \in row : LET at == {Centre(p.band, c) : c \in b.channels} IN
                 Cardinality(at) = w \div 20 /\ \A x, y \in at : x - y < w
           /\ \A b, c \in row : b.channels \cap c.channels # {} => b = c
           /\ \A r \in radios :
                IF HasCentre(p.band, r[2])
                THEN w = 20 /\ r[3] = 20 => \E b \in row : r \in b.radios
                ELSE \A b \in row : r \notin b.radios
    BY <2>2, <2>3, <2>5, RowTrue
  <2> QED BY <2>5, <2>6 DEF radios
<1> QED BY <1>1, SceneStays, PTL

---------------------------------------------------------------------------
(* The subnets.  A recursive function is shown to be what its definition    *)
(* says, and to keep what it keeps, by its first counterexample.            *)

\* Powers is the function its definition says: there is one on every 0..n.
LEMMA PowersIs == Powers = [n \in 0..Bits |-> IF n = 0 THEN 1 ELSE 2 * Powers[n - 1]]
<1> DEFINE Upto(n, f) == f = [k \in 0..n |-> IF k = 0 THEN 1 ELSE 2 * f[k - 1]]
           none == {n \in Nat : ~\E f : Upto(n, f)}
<1>1. none = {}
  <2> SUFFICES ASSUME none # {} PROVE FALSE
    OBVIOUS
  <2>1. none \in SUBSET Nat
    OBVIOUS
  <2> HIDE DEF none
  <2>2. PICK m \in none : \A x \in none : m <= x
    BY <2>1, LeastNumber
  <2>3. m \in Nat
    BY <2>1
  <2>4. CASE m = 0
    <3>1. Upto(0, [k \in 0..0 |-> 1])
      OBVIOUS
    <3> QED BY <2>2, <2>4, <3>1 DEF none
  <2>5. CASE m # 0
    <3>1. m - 1 \in Nat /\ m - 1 \notin none
      BY <2>2, <2>3, <2>5
    <3>2. PICK g : Upto(m - 1, g)
      BY <3>1 DEF none
    <3> DEFINE f == [k \in 0..m |-> IF k = m THEN 2 * g[m - 1] ELSE g[k]]
    <3>3. \A k \in 0..m : f[k] = IF k = 0 THEN 1 ELSE 2 * f[k - 1]
      BY <2>3, <2>5, <3>2
    <3>4. f = [k \in 0..m |-> f[k]]
      OBVIOUS
    <3> HIDE DEF f
    <3>5. Upto(m, f)
      BY <3>3, <3>4
    <3> HIDE DEF Upto
    <3> QED BY <2>2, <3>5 DEF none
  <2> QED BY <2>4, <2>5
<1>2. \E f : Upto(Bits, f)
  BY <1>1, SubnetsAssumption
<1> QED BY <1>2 DEF Powers

\* A block has an address at least.
LEMMA SizePositive ==
    ASSUME NEW p \in 0..Bits
    PROVE  Size(p) \in Nat \ {0}
<1> DEFINE bad == {n \in 0..Bits : Powers[n] \notin Nat \ {0}}
<1>1. bad = {}
  <2> SUFFICES ASSUME bad # {} PROVE FALSE
    OBVIOUS
  <2>1. bad \in SUBSET Nat
    OBVIOUS
  <2>2. PICK m \in bad : \A x \in bad : m <= x
    BY <2>1, LeastNumber
  <2>3. m \in 0..Bits /\ m \in Nat
    BY SubnetsAssumption
  <2>4. Powers[m] = IF m = 0 THEN 1 ELSE 2 * Powers[m - 1]
    BY <2>3, PowersIs
  <2>5. CASE m = 0
    BY <2>4, <2>5
  <2>6. CASE m # 0
    <3>1. m - 1 \in 0..Bits /\ m - 1 < m
      BY <2>3, <2>6, SubnetsAssumption
    <3>2. Powers[m - 1] \in Nat \ {0}
      BY <2>2, <2>3, <3>1
    <3> QED BY <2>4, <2>6, <3>2
  <2> QED BY <2>5, <2>6
<1>2. Bits - p \in 0..Bits
  BY SubnetsAssumption
<1> QED BY <1>1, <1>2 DEF Size

\* The network of an address holds it, and one block holds every address.
LEMMA Nets ==
    ASSUME NEW addr \in Nat, NEW p \in 0..Bits
    PROVE  /\ NetOf(addr, p).prefix = p /\ NetOf(addr, p).base \in Nat
           /\ Inside(addr, NetOf(addr, p))
           /\ addr \in Address => NetOf(addr, 0).base = 0
<1>1. \A s \in Nat \ {0} : addr % s \in 0..(s - 1) /\ addr % s <= addr /\ (addr < s => addr % s = addr)
  OBVIOUS
<1>2. Size(p) \in Nat \ {0} /\ Size(0) \in Nat \ {0}
  BY SizePositive, SubnetsAssumption
<1>3. addr % Size(p) \in 0..(Size(p) - 1) /\ addr % Size(p) <= addr
  BY <1>1, <1>2
<1>4. addr \in Address => addr % Size(0) = addr
  BY <1>1, <1>2 DEF Address
<1> HIDE DEF Size
<1>5. addr - (addr % Size(p)) \in Nat /\ addr \in (addr - (addr % Size(p))) .. (addr - (addr % Size(p)) + Size(p) - 1)
  <2> DEFINE k == addr % Size(p)
             s == Size(p)
  <2>1. k \in 0..(s - 1) /\ k <= addr /\ s \in Nat
    BY <1>2, <1>3
  <2> HIDE DEF k, s
  <2>2. addr - k \in Nat /\ addr \in (addr - k) .. (addr - k + s - 1)
    BY <2>1
  <2> QED BY <2>2 DEF k, s
<1> QED BY <1>4, <1>5 DEF NetOf, Inside
\* Some numbers below a bound have a lowest and a highest.
LEMMA Extremes ==
    ASSUME NEW N \in Nat, NEW S \in SUBSET (0..N), S # {}
    PROVE  /\ Lowest(S) \in S /\ \A x \in S : Lowest(S) <= x
           /\ Highest(S) \in S /\ \A x \in S : x <= Highest(S)
<1>1. PICK low \in S : \A x \in S : low <= x
  BY LeastNumber
<1> DEFINE back == {N - x : x \in S}
<1>2. back \in SUBSET Nat /\ back # {}
  OBVIOUS
<1> HIDE DEF back
<1>3. PICK m \in back : \A x \in back : m <= x
  BY <1>2, LeastNumber
<1>4. PICK high \in S : m = N - high
  BY DEF back
<1>5. \A x \in S : x <= high
  <2> SUFFICES ASSUME NEW x \in S PROVE x <= high
    OBVIOUS
  <2>1. N - x \in back
    BY DEF back
  <2>2. m <= N - x
    BY <1>3, <2>1
  <2>3. x \in 0..N /\ high \in 0..N
    OBVIOUS
  <2> QED BY <1>4, <2>2, <2>3
<1>6. \A x \in S : high >= x
  BY <1>5
<1> QED BY <1>1, <1>6 DEF Lowest, Highest

\* The smallest network of some addresses holds them all, unless it is the widest
\* that is ever inferred.
LEMMA SmallestHolds ==
    ASSUME NEW addrs \in SUBSET Address, addrs # {}
    PROVE  LET net == SmallestNetwork(addrs) IN
           net.prefix \in 0..Bits /\ (net.prefix = Widest \/ \A a \in addrs : Inside(a, net))
<1> DEFINE low == Lowest(addrs)
           high == Highest(addrs)
           agree == {p \in 0..Bits : NetOf(low, p) = NetOf(high, p)}
           longest == Highest(agree)
           prefix == IF longest < Widest THEN Widest ELSE longest
<1>1. Size(0) \in Nat \ {0}
  BY SizePositive, SubnetsAssumption
<1>2. /\ low \in addrs /\ \A a \in addrs : low <= a
      /\ high \in addrs /\ \A a \in addrs : a <= high
  <2>1. Size(0) - 1 \in Nat
    BY <1>1
  <2> QED BY <2>1, Extremes DEF Address
<1>3. Address \subseteq Nat
  BY <1>1 DEF Address
<1> HIDE DEF low, high
<1>4. NetOf(low, 0) = NetOf(high, 0)
  <2>1. NetOf(low, 0).base = 0 /\ NetOf(high, 0).base = 0
    BY <1>2, <1>3, Nets, SubnetsAssumption
  <2> QED BY <2>1 DEF NetOf
<1>5. longest \in agree
  <2>1. 0 \in agree
    BY <1>4, SubnetsAssumption
  <2> QED BY <2>1, Extremes, SubnetsAssumption
<1>6. SmallestNetwork(addrs) = NetOf(low, prefix)
  BY DEF SmallestNetwork, low, high
<1>7. longest \in 0..Bits /\ prefix \in 0..Bits
  BY <1>5, SubnetsAssumption
<1>8. NetOf(low, prefix).prefix = prefix
  BY DEF NetOf
<1>9. ASSUME prefix # Widest, NEW a \in addrs PROVE Inside(a, NetOf(low, prefix))
  <2>1. prefix = longest
    BY <1>9
  <2> HIDE DEF prefix
  <2>2. NetOf(low, prefix) = NetOf(high, prefix)
    BY <1>5, <2>1
  <2> HIDE DEF longest, agree
  <2> DEFINE base == NetOf(low, prefix).base
  <2>3. Inside(low, NetOf(low, prefix)) /\ Inside(high, NetOf(low, prefix)) /\ base \in Nat
    BY <1>2, <1>3, <1>7, <2>2, Nets
  <2>4. Size(prefix) \in Nat
    BY <1>7, SizePositive
  <2>5. base <= low /\ high <= base + Size(prefix) - 1
    BY <1>2, <1>3, <1>8, <2>3, <2>4 DEF Inside
  <2>6. low <= a /\ a <= high /\ a \in Nat /\ low \in Nat /\ high \in Nat
    BY <1>2, <1>3, <1>9
  <2> HIDE DEF base
  <2>7. a \in base .. (base + Size(prefix) - 1)
    BY <2>3, <2>4, <2>5, <2>6 DEF base
  <2> QED BY <1>8, <2>7 DEF Inside, base
<1> HIDE DEF longest, prefix, agree
<1> QED BY <1>6, <1>7, <1>8, <1>9

\* The devices counted so far are in one row each, one that holds them; two rows
\* are of one network only where the devices behind a gateway were too far apart.
Counted(rows, seen) ==
    /\ \A r \in rows :
        /\ r = [net |-> r.net, source |-> r.source, devices |-> r.devices]
        /\ r.net.prefix \in 0..Bits
        /\ r.devices # {} /\ r.devices \subseteq seen
        /\ Clamped(r) \/ \A d \in r.devices : Inside(d.ip, r.net)
    /\ \A d \in seen : \E r \in rows : d \in r.devices
    /\ \A r, q \in rows : r.devices \cap q.devices # {} => r = q
    /\ \A r, q \in rows : r.net = q.net => r = q \/ Clamped(r) \/ Clamped(q)

Located(ds) == \A d \in ds : d.ip \in Address /\ d.mask \in 0..Bits \cup {NoMask}

\* The most specific of some rows is one of them.
LEMMA MostSpecificIs ==
    ASSUME NEW rows, rows # {}, \A r \in rows : r.net.prefix \in 0..Bits
    PROVE  MostSpecific(rows) \in rows
<1> DEFINE prefixes == {r.net.prefix : r \in rows}
<1>1. prefixes \in SUBSET (0..Bits) /\ prefixes # {}
  OBVIOUS
<1>2. \A p \in prefixes : \E r \in rows : r.net.prefix = p
  OBVIOUS
<1>3. \A r \in rows : r.net.prefix \in prefixes
  OBVIOUS
<1> HIDE DEF prefixes
<1>4. Highest(prefixes) \in prefixes /\ \A p \in prefixes : p <= Highest(prefixes)
  BY <1>1, Extremes, SubnetsAssumption
<1>5. PICK r \in rows : r.net.prefix = Highest(prefixes)
  BY <1>2, <1>4
<1>6. \A q \in rows : r.net.prefix >= q.net.prefix
  BY <1>1, <1>3, <1>4, <1>5
<1> QED BY <1>6 DEF MostSpecific
\* One step of the gateways: more devices in a row there is, or a row of their own.
LEMMA JoinsRow ==
    ASSUME NEW rows, NEW seen, Counted(rows, seen), NEW new, new \cap seen = {}, NEW row \in rows,
           \A d \in new : Inside(d.ip, row.net)
    PROVE  Counted(CountIn(rows, row, new), seen \cup new)
<1> DEFINE more == [net |-> row.net, source |-> row.source, devices |-> row.devices \cup new]
           after == (rows \ {row}) \cup {more}
<1>1. CountIn(rows, row, new) = after
  <2>1. row = [net |-> row.net, source |-> row.source, devices |-> row.devices]
    BY DEF Counted
  <2>2. [row EXCEPT !.devices = @ \cup new] = more
    BY <2>1
  <2> QED BY <2>2 DEF CountIn
<1>2. more.net = row.net /\ more.source = row.source /\ more.devices = row.devices \cup new
  OBVIOUS
<1>3. more = [net |-> more.net, source |-> more.source, devices |-> more.devices]
  OBVIOUS
<1> HIDE DEF more
<1>4. Clamped(more) <=> Clamped(row)
  BY <1>2 DEF Clamped
<1>5. \A r \in after : r = more \/ (r \in rows /\ r # row)
  OBVIOUS
<1>6. \A r \in after :
        /\ r = [net |-> r.net, source |-> r.source, devices |-> r.devices]
        /\ r.net.prefix \in 0..Bits
        /\ r.devices # {} /\ r.devices \subseteq seen \cup new
        /\ Clamped(r) \/ \A d \in r.devices : Inside(d.ip, r.net)
  <2> SUFFICES ASSUME NEW r \in after PROVE
        /\ r = [net |-> r.net, source |-> r.source, devices |-> r.devices]
        /\ r.net.prefix \in 0..Bits
        /\ r.devices # {} /\ r.devices \subseteq seen \cup new
        /\ Clamped(r) \/ \A d \in r.devices : Inside(d.ip, r.net)
    OBVIOUS
  <2>1. CASE r = more
    BY <1>2, <1>3, <1>4, <2>1 DEF Counted
  <2>2. CASE r \in rows
    BY <2>2 DEF Counted
  <2> QED BY <1>5, <2>1, <2>2
<1>7. \A d \in seen \cup new : \E r \in after : d \in r.devices
  BY <1>2 DEF Counted
<1>8. ASSUME NEW r \in after, NEW q \in after, r.devices \cap q.devices # {} PROVE r = q
  <2>1. PICK d \in r.devices : d \in q.devices
    BY <1>8
  <2>2. \A p \in rows : p.devices \subseteq seen /\ (p.devices \cap row.devices # {} => p = row)
    BY DEF Counted
  <2>3. \A p \in rows : p # row => p.devices \cap more.devices = {}
    BY <1>2, <2>2
  <2> QED BY <1>5, <2>1, <2>3 DEF Counted
<1>9. ASSUME NEW r \in after, NEW q \in after, r.net = q.net PROVE r = q \/ Clamped(r) \/ Clamped(q)
  BY <1>2, <1>4, <1>5, <1>9 DEF Counted
<1> HIDE DEF after
<1> QED BY <1>1, <1>6, <1>7, <1>8, <1>9 DEF Counted

\* A row of its own, of a network no other row has or one that was cut to the widest.
LEMMA OwnRow ==
    ASSUME NEW rows, NEW seen, Counted(rows, seen), NEW new, new # {}, new \cap seen = {},
           NEW row, row = [net |-> row.net, source |-> row.source, devices |-> new],
           row.net.prefix \in 0..Bits, Clamped(row) \/ \A d \in new : Inside(d.ip, row.net),
           ~Clamped(row) => \A r \in rows : r.net # row.net
    PROVE  Counted(rows \cup {row}, seen \cup new)
<1>1. row.devices = new
  OBVIOUS
<1>2. \A r \in rows : r.devices \subseteq seen
  BY DEF Counted
<1> DEFINE after == rows \cup {row}
<1>3. \A r \in after :
        /\ r = [net |-> r.net, source |-> r.source, devices |-> r.devices]
        /\ r.net.prefix \in 0..Bits
        /\ r.devices # {} /\ r.devices \subseteq seen \cup new
        /\ Clamped(r) \/ \A d \in r.devices : Inside(d.ip, r.net)
  <2>1. row = [net |-> row.net, source |-> row.source, devices |-> row.devices]
    BY <1>1
  <2> QED BY <1>1, <2>1 DEF Counted
<1>4. \A d \in seen \cup new : \E r \in after : d \in r.devices
  BY <1>1 DEF Counted
<1>5. ASSUME NEW r \in after, NEW q \in after, r.devices \cap q.devices # {} PROVE r = q
  <2>1. \A p \in rows : p.devices \cap row.devices = {}
    BY <1>1, <1>2
  <2> QED BY <1>5, <2>1 DEF Counted
<1>6. ASSUME NEW r \in after, NEW q \in after, r.net = q.net PROVE r = q \/ Clamped(r) \/ Clamped(q)
  BY <1>6 DEF Counted
<1> HIDE DEF after
<1>7. Counted(after, seen \cup new)
  BY <1>3, <1>4, <1>5, <1>6 DEF Counted
<1> QED BY <1>7 DEF after

\* The devices with a mask, in the networks they report.
LEMMA ReportedCounted ==
    ASSUME NEW ds, Located(ds)
    PROVE  Counted(Reported(ds), Masked(ds))
<1> DEFINE of(net) == {d \in Masked(ds) : NetOf(d.ip, d.mask) = net}
           rows == Reported(ds)
<1>1. \A r \in rows : \E d \in Masked(ds) :
        r = [net |-> NetOf(d.ip, d.mask), source |-> "reported", devices |-> of(NetOf(d.ip, d.mask))]
  BY DEF Reported
<1>2. \A r \in rows : r.devices = of(r.net) /\ r = [net |-> r.net, source |-> r.source, devices |-> r.devices]
  BY <1>1
<1>3. \A d \in Masked(ds) : \E r \in rows : r.net = NetOf(d.ip, d.mask)
  <2> SUFFICES ASSUME NEW d \in Masked(ds) PROVE \E r \in rows : r.net = NetOf(d.ip, d.mask)
    OBVIOUS
  <2> DEFINE net == NetOf(d.ip, d.mask)
             row == [net |-> net, source |-> "reported", devices |-> of(net)]
  <2>1. row \in rows
    BY DEF Reported
  <2>2. row.net = net
    OBVIOUS
  <2> QED BY <2>1, <2>2
<1>4. \A d \in Masked(ds) : d.ip \in Nat /\ d.mask \in 0..Bits
  <2>1. Size(0) \in Nat
    BY SizePositive, SubnetsAssumption
  <2> QED BY <2>1 DEF Located, Masked, Address
<1>5. \A r \in rows : \E d \in Masked(ds) : r.net = NetOf(d.ip, d.mask)
  BY <1>1
<1> HIDE DEF rows
<1>6. \A r \in rows : r.net.prefix \in 0..Bits /\ r.devices # {} /\ r.devices \subseteq Masked(ds)
  <2> SUFFICES ASSUME NEW r \in rows PROVE r.net.prefix \in 0..Bits /\ r.devices # {} /\ r.devices \subseteq Masked(ds)
    OBVIOUS
  <2>1. PICK d \in Masked(ds) : r.net = NetOf(d.ip, d.mask)
    BY <1>5
  <2>2. r.net.prefix = d.mask
    BY <1>4, <2>1, Nets
  <2> QED BY <1>2, <1>4, <2>1, <2>2
<1>7. ASSUME NEW r \in rows, NEW d \in r.devices PROVE Inside(d.ip, r.net)
  BY <1>2, <1>4, <1>7, Nets
<1>8. \A d \in Masked(ds) : \E r \in rows : d \in r.devices
  BY <1>2, <1>3
<1>9. \A r, q \in rows : r.net = q.net => r = q
  <2> SUFFICES ASSUME NEW r \in rows, NEW q \in rows, r.net = q.net PROVE r = q
    OBVIOUS
  <2> DEFINE row(net) == [net |-> net, source |-> "reported", devices |-> of(net)]
  <2>1. \A p \in rows : p = row(p.net)
    BY <1>1 DEF rows
  <2> HIDE DEF row
  <2> QED BY <2>1
<1>10. ASSUME NEW r \in rows, NEW q \in rows, r.devices \cap q.devices # {} PROVE r = q
  <2>1. r.net = q.net
    BY <1>2, <1>10
  <2> QED BY <1>9, <2>1
<1> QED BY <1>2, <1>6, <1>7, <1>8, <1>9, <1>10 DEF Counted, rows

\* The devices of one gateway, wherever they are put.
LEMMA GatewayCounted ==
    ASSUME NEW ds, Located(ds), NEW rows, NEW seen, Counted(rows, seen), NEW g \in Address,
           Behind(ds, g) # {}, Behind(ds, g) \cap seen = {}
    PROVE  Counted(PlaceGateway(ds, rows, g), seen \cup Behind(ds, g))
<1> DEFINE members == Behind(ds, g)
           addrs == {d.ip : d \in members} \cup {g}
           known == Containing(rows, addrs)
           net == SmallestNetwork(addrs)
           row == [net |-> net, source |-> "inferred", devices |-> members]
<1>1. addrs \in SUBSET Address /\ addrs # {} /\ \A d \in members : d.ip \in addrs
  BY DEF Located, Behind
<1>2. PlaceGateway(ds, rows, g) = IF known # {} THEN CountIn(rows, MostSpecific(known), members) ELSE rows \cup {row}
  BY DEF PlaceGateway
<1>3. CASE known # {}
  <2>1. \A r \in known : r \in rows /\ r.net.prefix \in 0..Bits /\ \A a \in addrs : Inside(a, r.net)
    BY DEF Containing, Counted
  <2> HIDE DEF known, addrs
  <2>2. MostSpecific(known) \in known
    BY <1>3, <2>1, MostSpecificIs
  <2>3. MostSpecific(known) \in rows /\ \A d \in members : Inside(d.ip, MostSpecific(known).net)
    BY <1>1, <2>1, <2>2
  <2>4. Counted(CountIn(rows, MostSpecific(known), members), seen \cup members)
    BY <2>3, JoinsRow
  <2> QED BY <1>2, <1>3, <2>4
<1>4. CASE known = {}
  <2>1. \A r \in rows : \E a \in addrs : ~Inside(a, r.net)
    BY <1>4 DEF Containing
  <2>2. row.net = net /\ row.source = "inferred" /\ row = [net |-> row.net, source |-> row.source, devices |-> members]
    OBVIOUS
  <2> HIDE DEF known, addrs
  <2>3. net.prefix \in 0..Bits /\ (net.prefix = Widest \/ \A a \in addrs : Inside(a, net))
    BY <1>1, SmallestHolds
  <2> HIDE DEF net, row
  <2>4. Clamped(row) \/ \A a \in addrs : Inside(a, row.net)
    BY <2>2, <2>3 DEF Clamped
  <2>5. ~Clamped(row) => \A r \in rows : r.net # row.net
    BY <2>1, <2>4
  <2>6. Clamped(row) \/ \A d \in members : Inside(d.ip, row.net)
    BY <1>1, <2>4
  <2>7. members # {} /\ members \cap seen = {} /\ row.net.prefix \in 0..Bits
    BY <2>2, <2>3
  <2> HIDE DEF members
  <2>8. Counted(rows \cup {row}, seen \cup members)
    BY <2>2, <2>5, <2>6, <2>7, OwnRow
  <2> QED BY <1>2, <1>4, <2>8 DEF members
<1> QED BY <1>3, <1>4

\* The devices with neither a mask nor a gateway join what holds them, and make the
\* rest of the rows.
LEMMA LooseCounted ==
    ASSUME NEW ds, Located(ds), NEW rows, NEW seen, Counted(rows, seen), Loose(ds) \cap seen = {}
    PROVE  Counted(PlaceLoose(ds, rows), seen \cup Loose(ds))
<1> DEFINE placed == {d \in Loose(ds) : Containing(rows, {d.ip}) # {}}
           home(d) == MostSpecific(Containing(rows, {d.ip}))
           mine(r) == {d \in placed : home(d) = r}
           more(r) == [net |-> r.net, source |-> r.source, devices |-> r.devices \cup mine(r)]
           joined == {more(r) : r \in rows}
           rest == Loose(ds) \ placed
           of(net) == {d \in rest : NetOf(d.ip, Bucket) = net}
           bucket(net) == [net |-> net, source |-> "assumed", devices |-> of(net)]
           buckets == {bucket(net) : net \in {NetOf(d.ip, Bucket) : d \in rest}}
<1>1. PlaceLoose(ds, rows) = joined \cup buckets
  <2>1. \A r \in rows : [r EXCEPT !.devices = @ \cup mine(r)] = more(r)
    <3> SUFFICES ASSUME NEW r \in rows PROVE [r EXCEPT !.devices = @ \cup mine(r)] = more(r)
      OBVIOUS
    <3>1. r = [net |-> r.net, source |-> r.source, devices |-> r.devices]
      BY DEF Counted
    <3> HIDE DEF mine
    <3> QED BY <3>1
  <2>2. {[r EXCEPT !.devices = @ \cup mine(r)] : r \in rows} = joined
    <3> HIDE DEF mine, more
    <3> QED BY <2>1
  <2> QED BY <2>2 DEF PlaceLoose
<1>2. \A d \in placed : home(d) \in rows /\ Inside(d.ip, home(d).net)
  <2> SUFFICES ASSUME NEW d \in placed PROVE home(d) \in rows /\ Inside(d.ip, home(d).net)
    OBVIOUS
  <2> DEFINE here == Containing(rows, {d.ip})
  <2>1. here # {} /\ \A r \in here : r \in rows /\ r.net.prefix \in 0..Bits /\ Inside(d.ip, r.net)
    BY DEF Containing, Counted
  <2> HIDE DEF here
  <2>2. MostSpecific(here) \in here
    BY <2>1, MostSpecificIs
  <2> QED BY <2>1, <2>2 DEF here
<1>3. \A d \in Loose(ds) : d \in placed \/ d \in rest
  OBVIOUS
<1>4. placed \subseteq Loose(ds) /\ rest \subseteq Loose(ds) /\ placed \cap rest = {}
  OBVIOUS
<1>5. \A d \in rest : \A r \in rows : ~Inside(d.ip, r.net)
  BY DEF Containing
<1>6. \A d \in Loose(ds) : d.ip \in Nat
  <2>1. Size(0) \in Nat
    BY SizePositive, SubnetsAssumption
  <2> QED BY <2>1 DEF Located, Loose, Behind, Address
<1> HIDE DEF placed, rest, home
<1>7. \A r \in rows : /\ more(r).net = r.net /\ more(r).devices = r.devices \cup mine(r)
                      /\ more(r) = [net |-> more(r).net, source |-> more(r).source, devices |-> more(r).devices]
                      /\ Clamped(more(r)) <=> Clamped(r)
  BY DEF Clamped
<1>8. \A d \in rest : LET b == bucket(NetOf(d.ip, Bucket)) IN
        /\ b.net = NetOf(d.ip, Bucket) /\ b.devices = of(b.net)
        /\ b = [net |-> b.net, source |-> b.source, devices |-> b.devices]
        /\ b.net.prefix \in 0..Bits /\ d \in b.devices
        /\ \A e \in b.devices : Inside(e.ip, b.net)
        /\ \A r \in rows : r.net # b.net
  <2> SUFFICES ASSUME NEW d \in rest, NEW b, b = bucket(NetOf(d.ip, Bucket)) PROVE
        /\ b.net = NetOf(d.ip, Bucket) /\ b.devices = of(b.net)
        /\ b = [net |-> b.net, source |-> b.source, devices |-> b.devices]
        /\ b.net.prefix \in 0..Bits /\ d \in b.devices
        /\ \A e \in b.devices : Inside(e.ip, b.net)
        /\ \A r \in rows : r.net # b.net
    OBVIOUS
  <2>1. /\ b.net = NetOf(d.ip, Bucket) /\ b.devices = of(b.net) /\ d \in b.devices
        /\ b = [net |-> b.net, source |-> b.source, devices |-> b.devices]
    OBVIOUS
  <2>2. \A e \in rest : NetOf(e.ip, Bucket).prefix = Bucket /\ Inside(e.ip, NetOf(e.ip, Bucket))
    BY <1>4, <1>6, Nets, SubnetsAssumption
  <2>3. b.net.prefix \in 0..Bits
    BY <2>1, <2>2, SubnetsAssumption
  <2>4. \A e \in b.devices : Inside(e.ip, b.net)
    BY <2>1, <2>2
  <2>5. \A r \in rows : r.net # b.net
    BY <1>5, <2>1, <2>2
  <2> QED BY <2>1, <2>3, <2>4, <2>5
<1> DEFINE after == joined \cup buckets
<1>9. \A x \in after : \/ \E r \in rows : x = more(r)
                       \/ \E d \in rest : x = bucket(NetOf(d.ip, Bucket))
  BY DEF joined, buckets
<1>10. /\ \A r \in rows : more(r) \in after
       /\ \A d \in rest : bucket(NetOf(d.ip, Bucket)) \in after
  BY DEF joined, buckets
<1>11. \A d : d \in mine(home(d)) <=> d \in placed
  BY DEF mine
<1>12. \A r \in rows : mine(r) \subseteq placed /\ \A d \in mine(r) : home(d) = r
  BY DEF mine
<1>13. \A net : of(net) \subseteq rest /\ \A d \in of(net) : NetOf(d.ip, Bucket) = net
  BY DEF of
<1> HIDE DEF more, bucket, mine, of, after, joined, buckets
<1>14. \A x \in after :
        /\ x = [net |-> x.net, source |-> x.source, devices |-> x.devices]
        /\ x.net.prefix \in 0..Bits
        /\ x.devices # {} /\ x.devices \subseteq seen \cup Loose(ds)
        /\ Clamped(x) \/ \A d \in x.devices : Inside(d.ip, x.net)
  <2> SUFFICES ASSUME NEW x \in after PROVE
        /\ x = [net |-> x.net, source |-> x.source, devices |-> x.devices]
        /\ x.net.prefix \in 0..Bits
        /\ x.devices # {} /\ x.devices \subseteq seen \cup Loose(ds)
        /\ Clamped(x) \/ \A d \in x.devices : Inside(d.ip, x.net)
    OBVIOUS
  <2>1. CASE \E r \in rows : x = more(r)
    <3>1. PICK r \in rows : x = more(r)
      BY <2>1
    <3>2. /\ r.net.prefix \in 0..Bits /\ r.devices # {} /\ r.devices \subseteq seen
          /\ Clamped(r) \/ \A d \in r.devices : Inside(d.ip, r.net)
      BY DEF Counted
    <3>3. \A d \in mine(r) : Inside(d.ip, r.net) /\ d \in Loose(ds)
      BY <1>2, <1>4, <1>12
    <3> QED BY <1>7, <3>1, <3>2, <3>3
  <2>2. CASE \E d \in rest : x = bucket(NetOf(d.ip, Bucket))
    BY <1>4, <1>8, <1>13, <2>2
  <2> QED BY <1>9, <2>1, <2>2
<1>15. ASSUME NEW d \in seen \cup Loose(ds) PROVE \E x \in after : d \in x.devices
  <2>1. CASE d \in seen
    <3>1. PICK r \in rows : d \in r.devices
      BY <2>1 DEF Counted
    <3> QED BY <1>7, <1>10, <3>1
  <2>2. CASE d \in placed
    <3>1. home(d) \in rows /\ d \in mine(home(d))
      BY <1>2, <1>11, <2>2
    <3> QED BY <1>7, <1>10, <3>1
  <2>3. CASE d \in rest
    BY <1>8, <1>10, <2>3
  <2> QED BY <1>3, <2>1, <2>2, <2>3
<1>16. /\ \A r \in rows : r.devices \subseteq seen
       /\ seen \cap placed = {} /\ seen \cap rest = {}
  BY <1>4 DEF Counted
<1>17. \A e \in rest : LET b == bucket(NetOf(e.ip, Bucket)) IN
         b.net = NetOf(e.ip, Bucket) /\ b.devices \subseteq rest /\ \A d \in b.devices : NetOf(d.ip, Bucket) = b.net
  <2> SUFFICES ASSUME NEW e \in rest, NEW b, b = bucket(NetOf(e.ip, Bucket))
               PROVE  b.net = NetOf(e.ip, Bucket) /\ b.devices \subseteq rest /\ \A d \in b.devices : NetOf(d.ip, Bucket) = b.net
    OBVIOUS
  <2>1. b.net = NetOf(e.ip, Bucket) /\ b.devices = of(b.net)
    BY <1>8
  <2> QED BY <1>13, <2>1
<1>18. ASSUME NEW x \in after, NEW d \in x.devices
       PROVE  \/ d \in seen /\ \E r \in rows : x = more(r) /\ d \in r.devices
              \/ d \in placed /\ home(d) \in rows /\ x = more(home(d))
              \/ d \in rest /\ x = bucket(NetOf(d.ip, Bucket))
  <2>1. CASE \E r \in rows : x = more(r)
    <3>1. PICK r \in rows : x = more(r)
      BY <2>1
    <3>2. d \in r.devices \/ d \in mine(r)
      BY <1>7, <1>18, <3>1
    <3> QED BY <1>12, <1>16, <3>1, <3>2
  <2>2. CASE \E e \in rest : x = bucket(NetOf(e.ip, Bucket))
    <3>1. PICK e \in rest : x = bucket(NetOf(e.ip, Bucket))
      BY <2>2
    <3>2. x.net = NetOf(e.ip, Bucket) /\ d \in rest /\ NetOf(d.ip, Bucket) = x.net
      BY <1>17, <1>18, <3>1
    <3> QED BY <3>1, <3>2
  <2> QED BY <1>9, <2>1, <2>2
<1>19. ASSUME NEW x \in after, NEW y \in after, x.devices \cap y.devices # {} PROVE x = y
  <2>1. PICK d \in x.devices : d \in y.devices
    BY <1>19
  <2>2. CASE d \in seen
    <3>1. d \notin placed /\ d \notin rest
      BY <1>16, <2>2
    <3>2. \A z \in after : d \in z.devices => \E r \in rows : z = more(r) /\ d \in r.devices
      BY <1>18, <3>1
    <3>3. PICK r \in rows : x = more(r) /\ d \in r.devices
      BY <2>1, <3>2
    <3>4. PICK q \in rows : y = more(q) /\ d \in q.devices
      BY <2>1, <3>2
    <3>5. r = q
      BY <3>3, <3>4 DEF Counted
    <3> QED BY <3>3, <3>4, <3>5
  <2>3. CASE d \notin seen
    <3>1. \A z \in after : d \in z.devices =>
            z = IF d \in placed THEN more(home(d)) ELSE bucket(NetOf(d.ip, Bucket))
      BY <1>4, <1>18, <2>3
    <3> QED BY <2>1, <3>1
  <2> QED BY <2>2, <2>3
<1>20. ASSUME NEW x \in after, NEW e \in rest, x.net = bucket(NetOf(e.ip, Bucket)).net
       PROVE  x = bucket(NetOf(e.ip, Bucket))
  <2>1. x.net = NetOf(e.ip, Bucket) /\ \A r \in rows : r.net # x.net
    BY <1>8, <1>20
  <2>2. ~\E r \in rows : x = more(r)
    BY <1>7, <2>1
  <2>3. PICK f \in rest : x = bucket(NetOf(f.ip, Bucket))
    BY <1>9, <2>2
  <2>4. x.net = NetOf(f.ip, Bucket)
    BY <1>17, <2>3
  <2> QED BY <2>1, <2>3, <2>4
<1>21. ASSUME NEW x \in after, NEW y \in after, x.net = y.net PROVE x = y \/ Clamped(x) \/ Clamped(y)
  <2>1. CASE \E e \in rest : x = bucket(NetOf(e.ip, Bucket))
    BY <1>20, <1>21, <2>1
  <2>2. CASE \E e \in rest : y = bucket(NetOf(e.ip, Bucket))
    BY <1>20, <1>21, <2>2
  <2>3. ASSUME NEW r \in rows, x = more(r), NEW q \in rows, y = more(q) PROVE x = y \/ Clamped(x) \/ Clamped(y)
    <3>1. r.net = q.net
      BY <1>7, <1>21, <2>3
    <3>2. r = q \/ Clamped(r) \/ Clamped(q)
      BY <3>1 DEF Counted
    <3> QED BY <1>7, <2>3, <3>2
  <2> QED BY <1>9, <2>1, <2>2, <2>3
<1>22. Counted(after, seen \cup Loose(ds))
  BY <1>14, <1>15, <1>19, <1>21 DEF Counted
<1> QED BY <1>1, <1>22 DEF after

\* Placing is the function its definition says, as Powers is.
LEMMA PlacingIs ==
    ASSUME NEW ds, NEW order, Len(order) \in Nat
    PROVE  /\ Placing(ds, order)[0] = Reported(ds)
           /\ \A i \in 1..Len(order) :
                Placing(ds, order)[i] = IF Behind(ds, order[i]) = {} THEN Placing(ds, order)[i - 1]
                                        ELSE PlaceGateway(ds, Placing(ds, order)[i - 1], order[i])
<1> DEFINE next(f, i) ==
             CASE i = 0 -> Reported(ds)
               [] i > 0 /\ Behind(ds, order[i]) = {} -> f[i - 1]
               [] OTHER -> PlaceGateway(ds, f[i - 1], order[i])
           Upto(n, f) == f = [i \in 0..n |-> next(f, i)]
           none == {n \in Nat : ~\E f : Upto(n, f)}
<1>1. none = {}
  <2> SUFFICES ASSUME none # {} PROVE FALSE
    OBVIOUS
  <2>1. none \in SUBSET Nat
    OBVIOUS
  <2> HIDE DEF none
  <2>2. PICK m \in none : \A x \in none : m <= x
    BY <2>1, LeastNumber
  <2>3. m \in Nat
    BY <2>1
  <2>4. CASE m = 0
    <3>1. Upto(0, [i \in 0..0 |-> Reported(ds)])
      OBVIOUS
    <3> HIDE DEF Upto
    <3> QED BY <2>2, <2>4, <3>1 DEF none
  <2>5. CASE m # 0
    <3>1. m - 1 \in Nat /\ m - 1 \notin none
      BY <2>2, <2>3, <2>5
    <3>2. PICK g : Upto(m - 1, g)
      <4> HIDE DEF Upto
      <4> QED BY <3>1 DEF none
    <3> DEFINE f == [i \in 0..m |-> IF i = m THEN next(g, m) ELSE g[i]]
    <3>3. \A i \in 0..m : f[i] = next(f, i)
      <4> SUFFICES ASSUME NEW i \in 0..m PROVE f[i] = next(f, i)
        OBVIOUS
      <4>1. i # 0 => i - 1 \in 0..m /\ i - 1 # m /\ f[i - 1] = g[i - 1]
        BY <2>3
      <4> HIDE DEF f
      <4>2. next(f, i) = next(g, i)
        BY <2>3, <4>1
      <4> HIDE DEF next
      <4>3. f[i] = next(g, i)
        BY <2>3, <3>2 DEF f
      <4> QED BY <4>2, <4>3
    <3>4. f = [i \in 0..m |-> f[i]]
      OBVIOUS
    <3> HIDE DEF f, next
    <3>5. Upto(m, f)
      BY <3>3, <3>4
    <3> HIDE DEF Upto
    <3> QED BY <2>2, <3>5 DEF none
  <2> QED BY <2>4, <2>5
<1>2. \E f : Upto(Len(order), f)
  <2> HIDE DEF Upto
  <2> QED BY <1>1
<1>3. Placing(ds, order) = CHOOSE f : Upto(Len(order), f)
  BY DEF Placing
<1> HIDE DEF next
<1> DEFINE placing == Placing(ds, order)
<1>4. Upto(Len(order), placing)
  <2> HIDE DEF Upto
  <2> QED BY <1>2, <1>3
<1> HIDE DEF placing
<1>5. \A i \in 0..Len(order) : placing[i] = next(placing, i)
  BY <1>4
<1>6. placing[0] = next(placing, 0) /\ \A i \in 1..Len(order) : i > 0 /\ i # 0 /\ placing[i] = next(placing, i)
  BY <1>5
<1>7. next(placing, 0) = Reported(ds)
  BY DEF next
<1>8. \A i : i > 0 /\ i # 0 => next(placing, i) =
        IF Behind(ds, order[i]) = {} THEN placing[i - 1] ELSE PlaceGateway(ds, placing[i - 1], order[i])
  BY DEF next
<1> HIDE DEF next
<1> QED BY <1>6, <1>7, <1>8 DEF placing

\* The devices behind the first gateways of the order; each gateway is placed once.
Ahead(ds, order, i) == {d \in ds : d.mask = NoMask /\ \E j \in 1..i : d.gateway = order[j]}

\* After so many gateways the devices with a mask and those behind them are counted.
LEMMA PlacingCounted ==
    ASSUME NEW ds, Located(ds), NEW order \in Seq(Address), IsInjective(order), NEW n \in 0..Len(order)
    PROVE  Counted(Placing(ds, order)[n], Masked(ds) \cup Ahead(ds, order, n))
<1> DEFINE before(i) == Masked(ds) \cup Ahead(ds, order, i)
           placing == Placing(ds, order)
           good(i) == Counted(placing[i], before(i))
           bad == {i \in 0..Len(order) : ~good(i)}
<1>1. Len(order) \in Nat
  OBVIOUS
<1>2. /\ placing[0] = Reported(ds)
      /\ \A i \in 1..Len(order) : placing[i] = IF Behind(ds, order[i]) = {} THEN placing[i - 1]
                                               ELSE PlaceGateway(ds, placing[i - 1], order[i])
  BY <1>1, PlacingIs
<1> HIDE DEF placing
<1>3. good(0)
  <2>1. before(0) = Masked(ds)
    BY DEF Ahead
  <2> QED BY <1>2, <2>1, ReportedCounted
<1>4. ASSUME NEW m \in 1..Len(order), good(m - 1) PROVE good(m)
  <2> DEFINE g == order[m]
             rows == placing[m - 1]
  <2>1. Counted(rows, before(m - 1))
    BY <1>4
  <2>2. g \in Address /\ \A j \in 1..(m - 1) : order[j] # g
    BY DEF IsInjective
  <2>3. Behind(ds, g) \cap before(m - 1) = {}
    BY <2>2 DEF Behind, Masked, Ahead
  <2>4. before(m) = before(m - 1) \cup Behind(ds, g)
    <3>1. 1..m = 1..(m - 1) \cup {m}
      OBVIOUS
    <3> QED BY <3>1 DEF Behind, Ahead
  <2>5. placing[m] = IF Behind(ds, g) = {} THEN rows ELSE PlaceGateway(ds, rows, g)
    BY <1>2
  <2> HIDE DEF g, rows, before
  <2>6. CASE Behind(ds, g) = {}
    BY <2>1, <2>4, <2>5, <2>6
  <2>7. CASE Behind(ds, g) # {}
    <3>1. Counted(PlaceGateway(ds, rows, g), before(m - 1) \cup Behind(ds, g))
      BY <2>1, <2>2, <2>3, <2>7, GatewayCounted
    <3> QED BY <2>4, <2>5, <2>7, <3>1
  <2> QED BY <2>6, <2>7
<1> HIDE DEF good
<1>5. bad = {}
  <2> SUFFICES ASSUME bad # {} PROVE FALSE
    OBVIOUS
  <2>1. bad \in SUBSET Nat
    OBVIOUS
  <2>2. PICK m \in bad : \A i \in bad : m <= i
    BY <2>1, LeastNumber
  <2>3. m # 0 => m \in 1..Len(order) /\ m - 1 \in 0..Len(order) /\ ~(m <= m - 1)
    BY <1>1
  <2> QED BY <1>3, <1>4, <2>2, <2>3
<1> QED BY <1>5 DEF good, placing

\* Every device with an address is in exactly one of the subnets, for any devices
\* whose gateways are listed.
LEMMA GroupsCounted ==
    ASSUME NEW ds, Located(ds), NEW order \in Seq(Address), IsInjective(order),
           \A d \in ds : d.mask = NoMask /\ d.gateway # NoGateway => \E i \in DOMAIN order : order[i] = d.gateway
    PROVE  Counted(SubnetGroups(ds, order), ds)
<1> DEFINE n == Len(order)
           rows == Placing(ds, order)[n]
           seen == Masked(ds) \cup Ahead(ds, order, n)
<1>1. n \in Nat /\ n \in 0..n /\ DOMAIN order = 1..n
  OBVIOUS
<1>2. Counted(rows, seen)
  BY <1>1, PlacingCounted
<1>3. Loose(ds) \cap seen = {}
  <2>1. \A j \in 1..n : order[j] # NoGateway
    <3>1. Size(0) \in Nat
      BY SizePositive, SubnetsAssumption
    <3>2. NoGateway \notin Address
      BY <3>1 DEF Address, NoGateway
    <3> QED BY <1>1, <3>2
  <2> QED BY <2>1 DEF Loose, Behind, Masked, Ahead
<1>4. seen \cup Loose(ds) = ds
  BY <1>1 DEF Loose, Behind, Masked, Ahead
<1> HIDE DEF rows, seen
<1>5. Counted(PlaceLoose(ds, rows), seen \cup Loose(ds))
  BY <1>2, <1>3, LooseCounted
<1> QED BY <1>4, <1>5 DEF SubnetGroups, rows

\* In every venue and whatever reads failed, every AP with an address is counted in
\* exactly one subnet, one that holds its address, and no network is listed twice;
\* a network inferred of a gateway whose devices are too far apart for one excepted
\* (shape._subnet_groups, _smallest_network).
THEOREM DevicesCountedOnce == Spec => []EachCountedOnce
<1> DEFINE devices == Addressed(Views(Raw(scene, lost)["aps"]))
           rows == SubnetGroups(devices, scene.order)
<1>1. SceneKnown => EachCountedOnce
  <2> SUFFICES ASSUME SceneKnown PROVE EachCountedOnce
    OBVIOUS
  <2>1. scene.order \in Seq(Address) /\ IsInjective(scene.order)
    BY ReadingAssumption DEF SceneKnown
  <2>2. \A a \in scene.aps :
          /\ {"ip", "mask", "gateway"} \subseteq DOMAIN a
          /\ a.ip \in Address /\ a.mask \in 0..Bits \cup {NoMask}
          /\ a.mask = NoMask /\ a.gateway # NoGateway => \E i \in DOMAIN scene.order : scene.order[i] = a.gateway
    BY ReadingAssumption DEF SceneKnown
  <2>3. \A a : {"ip", "mask", "gateway"} \subseteq DOMAIN a =>
          View(a).ip = a.ip /\ View(a).mask = a.mask /\ View(a).gateway = a.gateway
    BY DEF View
  <2>4. \A d \in devices : \E a \in scene.aps : d = View(a)
    <3>1. Raw(scene, lost)["aps"] = {} \/ Raw(scene, lost)["aps"] = scene.aps
      BY DEF Raw, Empty, Reads
    <3> QED BY <3>1 DEF Addressed, Views
  <2> HIDE DEF devices
  <2>5. \A d \in devices :
          /\ d.ip \in Address /\ d.mask \in 0..Bits \cup {NoMask}
          /\ d.mask = NoMask /\ d.gateway # NoGateway => \E i \in DOMAIN scene.order : scene.order[i] = d.gateway
    <3> SUFFICES ASSUME NEW d \in devices PROVE
          /\ d.ip \in Address /\ d.mask \in 0..Bits \cup {NoMask}
          /\ d.mask = NoMask /\ d.gateway # NoGateway => \E i \in DOMAIN scene.order : scene.order[i] = d.gateway
      OBVIOUS
    <3>1. PICK a \in scene.aps : d = View(a)
      BY <2>4
    <3>2. d.ip = a.ip /\ d.mask = a.mask /\ d.gateway = a.gateway
      BY <2>2, <2>3, <3>1
    <3> QED BY <2>2, <3>1, <3>2
  <2>6. Counted(rows, devices)
    BY <2>1, <2>5, GroupsCounted DEF Located
  <2> HIDE DEF rows
  <2>7. ASSUME NEW d \in devices PROVE Cardinality({r \in rows : d \in r.devices}) = 1
    <3>1. PICK q \in rows : d \in q.devices
      BY <2>6, <2>7 DEF Counted
    <3>2. \A r \in rows : d \in r.devices => r = q
      BY <2>6, <3>1 DEF Counted
    <3>3. {r \in rows : d \in r.devices} = {q}
      BY <3>1, <3>2
    <3> QED BY <3>3, FS_Singleton
  <2>8. \A r \in rows : r.devices # {} /\ (Clamped(r) \/ \A d \in r.devices : Inside(d.ip, r.net))
    BY <2>6 DEF Counted
  <2>9. \A r, q \in rows : r.net = q.net => r = q \/ Clamped(r) \/ Clamped(q)
    BY <2>6 DEF Counted
  <2> QED BY <2>7, <2>8, <2>9 DEF EachCountedOnce, rows, devices
<1> QED BY <1>1, SceneStays, PTL

---------------------------------------------------------------------------
(* The recommendations.                                                     *)

\* The first of some places is one of them and before the others.
LEMMA FirstPlace ==
    ASSUME NEW S \in SUBSET Nat, S # {}
    PROVE  FirstOf(S) \in S /\ \A x \in S : FirstOf(S) <= x
<1>1. \E m \in S : \A x \in S : m <= x
  BY LeastNumber
<1> QED BY <1>1 DEF FirstOf

\* What a section says does not change when it is cleaned.
LEMMA CleanSays ==
    ASSUME NEW s, s = [values |-> s.values, na |-> s.na], NEW key
    PROVE  Says(CleanSection(s), key) = Says(s, key)
<1>1. CleanSection(s) = [values |-> s.values, na |-> s.na \ DOMAIN s.values]
  BY DEF CleanSection
<1> DEFINE clean == CleanSection(s)
<1>2. clean.values = s.values /\ clean.na = s.na \ DOMAIN s.values
  BY <1>1
<1> HIDE DEF clean
<1>3. Says(clean, key) = Says(s, key)
  BY <1>2 DEF Says
<1> QED BY <1>3 DEF clean

\* Says has three answers.
LEMMA ThreeAnswers ==
    ASSUME NEW s, NEW key
    PROVE  /\ key \in DOMAIN s.values => Says(s, key) = [said |-> "value", value |-> s.values[key]] /\ Says(s, key).said = "value"
           /\ key \notin DOMAIN s.values /\ key \in s.na =>
                Says(s, key) = [said |-> "not applicable"] /\ Says(s, key).said = "not applicable"
           /\ key \notin (DOMAIN s.values) \cup s.na => Says(s, key) = [said |-> "nothing"] /\ Says(s, key).said = "nothing"
BY DEF Says

\* What is meant by one section, and by one that comes before another.
LEMMA MeantByOne ==
    ASSUME NEW s, NEW key
    PROVE  Meant(<<s>>, key) = Says(s, key)
<1> DEFINE sections == <<s>>
           says == {i \in DOMAIN sections : key \in (DOMAIN sections[i].values) \cup sections[i].na}
<1>1. says = IF key \in (DOMAIN s.values) \cup s.na THEN {1} ELSE {}
  OBVIOUS
<1>2. FirstOf({1}) = 1
  BY FirstPlace
<1>3. Meant(sections, key) =
        CASE says = {} -> [said |-> "nothing"]
          [] says # {} /\ key \in DOMAIN sections[FirstOf(says)].values ->
                [said |-> "value", value |-> sections[FirstOf(says)].values[key]]
          [] OTHER -> [said |-> "not applicable"]
  BY DEF Meant
<1>4. sections[1] = s
  OBVIOUS
<1> HIDE DEF sections, says
<1>5. CASE key \in (DOMAIN s.values) \cup s.na
  <2>1. says = {1} /\ sections[FirstOf(says)] = s
    BY <1>1, <1>2, <1>4, <1>5
  <2> QED BY <1>3, <1>5, <2>1, ThreeAnswers DEF sections
<1>6. CASE key \notin (DOMAIN s.values) \cup s.na
  BY <1>1, <1>3, <1>6, ThreeAnswers DEF sections
<1> QED BY <1>5, <1>6

\* The first section is asked before the second.
LEMMA MeantByTwo ==
    ASSUME NEW s, NEW t, NEW key
    PROVE  Meant(<<s, t>>, key) = IF Says(s, key).said # "nothing" THEN Says(s, key) ELSE Says(t, key)
<1> DEFINE sections == <<s, t>>
           speaks(x) == key \in (DOMAIN x.values) \cup x.na
           says == {i \in DOMAIN sections : key \in (DOMAIN sections[i].values) \cup sections[i].na}
           first == sections[FirstOf(says)]
<1>1. says = (IF speaks(s) THEN {1} ELSE {}) \cup (IF speaks(t) THEN {2} ELSE {})
  <2>1. DOMAIN sections = {1, 2} /\ sections[1] = s /\ sections[2] = t
    OBVIOUS
  <2> QED BY <2>1
<1>2. says \in SUBSET Nat
  BY <1>1
<1>3. sections[1] = s /\ sections[2] = t
  OBVIOUS
<1>4. Meant(sections, key) =
        CASE says = {} -> [said |-> "nothing"]
          [] says # {} /\ key \in DOMAIN first.values -> [said |-> "value", value |-> first.values[key]]
          [] OTHER -> [said |-> "not applicable"]
  BY DEF Meant
<1> HIDE DEF says
<1>5. speaks(s) => says # {} /\ FirstOf(says) = 1
  <2> SUFFICES ASSUME speaks(s) PROVE says # {} /\ FirstOf(says) = 1
    OBVIOUS
  <2>1. 1 \in says /\ \A x \in says : x = 1 \/ x = 2
    BY <1>1
  <2> HIDE DEF speaks
  <2>2. FirstOf(says) \in says /\ FirstOf(says) <= 1
    BY <1>2, <2>1, FirstPlace
  <2> QED BY <2>1, <2>2
<1>6. ~speaks(s) /\ speaks(t) => says # {} /\ FirstOf(says) = 2
  <2>1. ~speaks(s) /\ speaks(t) => says = {2}
    BY <1>1
  <2> HIDE DEF speaks
  <2> QED BY <1>2, <2>1, FirstPlace
<1>7. ~speaks(s) /\ ~speaks(t) => says = {}
  BY <1>1
<1> HIDE DEF sections
<1>8. CASE speaks(s)
  <2>1. first = s /\ says # {}
    BY <1>3, <1>5, <1>8
  <2> HIDE DEF first
  <2>2. Meant(sections, key) = Says(s, key) /\ Says(s, key).said # "nothing"
    BY <1>4, <1>8, <2>1, ThreeAnswers
  <2> QED BY <2>2 DEF sections
<1>9. CASE ~speaks(s) /\ speaks(t)
  <2>1. first = t /\ says # {}
    BY <1>3, <1>6, <1>9
  <2> HIDE DEF first
  <2>2. Meant(sections, key) = Says(t, key) /\ Says(s, key).said = "nothing"
    BY <1>4, <1>9, <2>1, ThreeAnswers
  <2> QED BY <2>2 DEF sections
<1>10. CASE ~speaks(s) /\ ~speaks(t)
  <2> HIDE DEF first
  <2>1. Meant(sections, key) = Says(t, key) /\ Says(s, key).said = "nothing"
    BY <1>4, <1>7, <1>10, ThreeAnswers
  <2> QED BY <2>1 DEF sections
<1> QED BY <1>8, <1>9, <1>10

\* A verdict agrees with the opinion it is made from.
LEMMA VerdictAgrees ==
    ASSUME NEW s, NEW key, NEW value, NEW row, row.org = Verdict(Says(s, key), value)
    PROVE  Agrees(row, value, Says(s, key))
<1> DEFINE opinion == Says(s, key)
<1>1. opinion.said \in {"value", "not applicable", "nothing"}
  BY ThreeAnswers
<1> HIDE DEF opinion
<1>2. row.org = Verdict(opinion, value)
  BY DEF opinion
<1>3. Agrees(row, value, opinion)
  BY <1>1, <1>2 DEF Agrees, Verdict
<1> QED BY <1>3 DEF opinion

\* A document whose parts have the fields they need.
Documented(doc) ==
    /\ DOMAIN doc.levels = Levels
    /\ doc.flat => \A l \in Levels \ {"venue"} : doc.levels[l] = Nothing
    /\ \A s \in Range(doc.levels) \cup {g.section : g \in Range(doc.groups)} : s = [values |-> s.values, na |-> s.na]
    /\ \A g \in Range(doc.groups) : {"id", "match", "section"} \subseteq DOMAIN g
    /\ doc.groups \in Seq(Range(doc.groups))

\* What this process reads back of what was saved.
Back(doc) == ReadBack(IF doc.flat THEN doc ELSE Save(doc))

\* A level says after saving and reading what it said before.
LEMMA LevelsKept ==
    ASSUME NEW doc, Documented(doc), NEW level \in Levels, NEW key
    PROVE  Says(Back(doc).levels[level], key) = Says(doc.levels[level], key)
<1>1. doc.levels[level] = [values |-> doc.levels[level].values, na |-> doc.levels[level].na]
  BY DEF Documented, Range
<1>2. CASE doc.flat
  <2>1. Back(doc).levels[level] = IF level # "venue" THEN Nothing ELSE doc.levels[level]
    BY <1>2 DEF Back, ReadBack
  <2>2. level # "venue" => doc.levels[level] = Nothing
    BY <1>2 DEF Documented
  <2> QED BY <2>1, <2>2
<1>3. CASE ~doc.flat
  <2>1. Save(doc).flat = FALSE /\ Save(doc).levels[level] = CleanSection(doc.levels[level])
    BY DEF Save
  <2>2. Back(doc) = ReadBack(Save(doc))
    BY <1>3 DEF Back
  <2>3. Back(doc).levels[level] = CleanSection(doc.levels[level])
    BY <2>1, <2>2 DEF ReadBack
  <2> QED BY <1>1, <2>3, CleanSays
<1> QED BY <1>2, <1>3

\* The groups that are left keep their rules and what they say, each under an id of its own.
LEMMA GroupsKept ==
    ASSUME NEW doc, Documented(doc)
    PROVE  LET groups == Back(doc).groups IN
           /\ DOMAIN groups \subseteq DOMAIN doc.groups
           /\ \A i \in DOMAIN doc.groups : i \in DOMAIN groups <=>
                 doc.groups[i].id \notin {NoGroup} \cup {doc.groups[j].id : j \in 1..(i - 1)}
           /\ \A i \in DOMAIN groups :
                 /\ groups[i].id = doc.groups[i].id /\ groups[i].match = doc.groups[i].match
                 /\ \A key : Says(groups[i].section, key) = Says(doc.groups[i].section, key)
           /\ \A i, j \in DOMAIN groups : groups[i].id = groups[j].id => i = j
<1> DEFINE raw == doc.groups
           groups == Back(doc).groups
           kept == {i \in DOMAIN raw : raw[i].id # NoGroup /\ \A j \in DOMAIN raw : j < i => raw[j].id # raw[i].id}
<1>1. groups = [i \in kept |-> [raw[i] EXCEPT !.section = CleanSection(@)]]
  <2>1. groups = CleanGroups(raw)
    <3>1. Save(doc).groups = raw
      BY DEF Save
    <3>2. Back(doc).groups = CleanGroups(raw)
      BY <3>1 DEF Back, ReadBack
    <3> QED BY <3>2
  <2> QED BY <2>1 DEF CleanGroups
<1>2. DOMAIN raw = 1..Len(raw) /\ Len(raw) \in Nat
  BY DEF Documented
<1>3. ASSUME NEW i \in DOMAIN raw
      PROVE  i \in kept <=> raw[i].id \notin {NoGroup} \cup {raw[j].id : j \in 1..(i - 1)}
  <2>1. \A j : j \in DOMAIN raw /\ j < i <=> j \in 1..(i - 1)
    BY <1>2
  <2> QED BY <2>1
<1>4. ASSUME NEW i \in kept
      PROVE  LET g == [raw[i] EXCEPT !.section = CleanSection(@)] IN
             g.id = raw[i].id /\ g.match = raw[i].match /\ g.section = CleanSection(raw[i].section)
  <2>1. {"id", "match", "section"} \subseteq DOMAIN raw[i]
    BY DEF Documented, Range
  <2> QED BY <2>1
<1>5. ASSUME NEW i \in kept, NEW key PROVE Says(CleanSection(raw[i].section), key) = Says(raw[i].section, key)
  <2>1. raw[i].section = [values |-> raw[i].section.values, na |-> raw[i].section.na]
    BY DEF Documented, Range
  <2> QED BY <2>1, CleanSays
<1>6. ASSUME NEW i \in kept, NEW j \in kept, raw[i].id = raw[j].id PROVE i = j
  <2>1. ~(i < j) /\ ~(j < i)
    BY <1>6
  <2>2. i \in Nat /\ j \in Nat
    BY <1>2
  <2> QED BY <2>1, <2>2
<1>7. DOMAIN groups = kept /\ \A i \in kept : groups[i] = [raw[i] EXCEPT !.section = CleanSection(@)]
  BY <1>1
<1>8. kept \subseteq DOMAIN raw
  OBVIOUS
<1>9. \A i \in kept : groups[i].id = raw[i].id /\ groups[i].match = raw[i].match
                      /\ groups[i].section = CleanSection(raw[i].section)
  BY <1>4, <1>7
<1> HIDE DEF groups, kept
<1> QED BY <1>3, <1>5, <1>6, <1>7, <1>8, <1>9 DEF groups

\* What a network is compared with is what was meant for it.
LEMMA NetworkMeant ==
    ASSUME NEW doc, Documented(doc), NEW n, NEW key
    PROVE  \E s : /\ OrgSays(Back(doc), key, "network", GroupFor(Back(doc), n)) = Says(s, key)
                  /\ Meant(Applying(doc, n), key) = Says(s, key)
<1> DEFINE org == Back(doc)
           groups == org.groups
           gid == GroupFor(org, n)
           hits == {i \in DOMAIN groups : Covers(groups[i].match, n)}
           covering == Covering(doc.groups, n)
           level == doc.levels["network"]
           of == {g \in Range(groups) : "network" = "network" /\ g.id = gid /\ Says(g.section, key).said # "nothing"}
<1>1. OrgSays(org, key, "network", gid) =
        IF of # {} THEN Says((CHOOSE g \in of : TRUE).section, key) ELSE Says(org.levels["network"], key)
  BY DEF OrgSays
<1>2. Says(org.levels["network"], key) = Says(level, key)
  BY LevelsKept DEF Levels
<1>3. /\ DOMAIN groups \subseteq DOMAIN doc.groups
      /\ \A i \in DOMAIN doc.groups : i \in DOMAIN groups <=>
            doc.groups[i].id \notin {NoGroup} \cup {doc.groups[j].id : j \in 1..(i - 1)}
      /\ \A i \in DOMAIN groups :
            /\ groups[i].id = doc.groups[i].id /\ groups[i].match = doc.groups[i].match
            /\ Says(groups[i].section, key) = Says(doc.groups[i].section, key)
      /\ \A i, j \in DOMAIN groups : groups[i].id = groups[j].id => i = j
  BY GroupsKept
<1>4. gid = IF hits = {} THEN NoGroup ELSE groups[FirstOf(hits)].id
  BY DEF GroupFor
<1>5. Applying(doc, n) = IF covering = {} THEN <<level>> ELSE <<doc.groups[FirstOf(covering)].section, level>>
  BY DEF Applying
<1>6. \A g : g \in Range(groups) <=> \E i \in DOMAIN groups : g = groups[i]
  BY DEF Range
<1>7. DOMAIN doc.groups \subseteq Nat
  BY DEF Documented
<1> HIDE DEF groups, gid, level
<1>8. hits = covering
  BY <1>3 DEF Covering
<1> HIDE DEF covering
<1>9. CASE hits = {}
  <2>1. of = {}
    BY <1>3, <1>4, <1>6, <1>9
  <2> HIDE DEF of, hits
  <2>2. Meant(Applying(doc, n), key) = Says(level, key)
    BY <1>5, <1>8, <1>9, MeantByOne
  <2> QED BY <1>1, <1>2, <2>1, <2>2 DEF gid
<1>10. CASE hits # {}
  <2> DEFINE i == FirstOf(hits)
             s == doc.groups[i].section
  <2>1. hits \in SUBSET Nat
    BY <1>3, <1>7
  <2>2. i \in hits
    BY <1>10, <2>1, FirstPlace
  <2>3. i \in DOMAIN groups
    BY <2>2
  <2>4. gid = groups[i].id /\ Applying(doc, n) = <<s, level>>
    BY <1>4, <1>5, <1>8, <1>10
  <2> HIDE DEF hits, i
  <2>5. Says(groups[i].section, key) = Says(s, key)
    BY <1>3, <2>3
  <2>6. \A g \in of : g = groups[i]
    BY <1>3, <1>6, <2>3, <2>4
  <2>7. Says(s, key).said # "nothing" => groups[i] \in of
    BY <1>6, <2>3, <2>4, <2>5
  <2>8. Says(s, key).said = "nothing" => of = {}
    BY <2>5, <2>6
  <2> HIDE DEF of, s
  <2>9. OrgSays(org, key, "network", gid) = IF Says(s, key).said # "nothing" THEN Says(s, key) ELSE Says(level, key)
    BY <1>1, <1>2, <2>5, <2>6, <2>7, <2>8
  <2>10. Meant(Applying(doc, n), key) = IF Says(s, key).said # "nothing" THEN Says(s, key) ELSE Says(level, key)
    BY <2>4, MeantByTwo
  <2> QED BY <2>9, <2>10 DEF gid
<1> QED BY <1>9, <1>10

\* Two values that something takes over a finite set are more than one.
LEMMA Several ==
    ASSUME NEW S, IsFiniteSet(S), NEW T, NEW f \in [S -> T], NEW x \in S, NEW y \in S, f[x] # f[y]
    PROVE  Cardinality({f[s] : s \in S}) > 1
<1> DEFINE image == {f[s] : s \in S}
<1>1. f \in Surjection(S, image)
  BY DEF Surjection
<1>2. IsFiniteSet(image) /\ Cardinality(image) \in Nat
  BY <1>1, FS_Surjection, FS_CardinalityType
<1>3. {f[x], f[y]} \subseteq image
  OBVIOUS
<1> HIDE DEF image
<1>4. Cardinality({f[x]}) = 1 /\ IsFiniteSet({f[x]})
  BY FS_Singleton
<1>5. Cardinality({f[x]} \cup {f[y]}) = 2
  BY <1>4, FS_AddElement
<1>6. Cardinality({f[x], f[y]}) = 2
  <2>1. {f[x], f[y]} = {f[x]} \cup {f[y]}
    OBVIOUS
  <2> QED BY <1>5, <2>1
<1>7. Cardinality({f[x], f[y]}) <= Cardinality(image)
  BY <1>2, <1>3, FS_Subset
<1>8. Cardinality(image) > 1
  BY <1>2, <1>6, <1>7
<1> QED BY <1>8 DEF image

\* The members of a cluster share a group and all that is not a network's own, and
\* where they differ in what is, the cluster says so.
LEMMA ClusterRows ==
    ASSUME NEW networks, networks \in Seq(Range(networks)), NEW org, NEW ruckus, NEW c \in Clusters(networks, org, ruckus),
           NEW n \in c.members
    PROVE  \A r \in c.rows : r.key \notin Own =>
             r.org = Verdict(OrgSays(org, r.key, "network", GroupFor(org, n)), n.settings[r.key])
<1> DEFINE bucket(m) == <<GroupFor(org, m), Fingerprint(m)>>
           of(b) == {i \in DOMAIN networks : bucket(networks[i]) = b}
           cluster(b) == [group |-> b[1], members |-> {networks[i] : i \in of(b)}, varies |-> Varies({networks[i] : i \in of(b)}),
                          rows |-> ConfigRows(networks[FirstOf(of(b))].settings, "network", b[1], org, ruckus)]
<1>1. PICK m \in Range(networks) : c = cluster(bucket(m))
  BY DEF Clusters
<1> DEFINE b == bucket(m)
           rep == networks[FirstOf(of(b))]
<1>2. c.members = {networks[i] : i \in of(b)} /\ c.rows = ConfigRows(rep.settings, "network", b[1], org, ruckus)
  BY <1>1
<1>3. of(b) # {} /\ of(b) \in SUBSET Nat
  <2>1. DOMAIN networks \subseteq Nat
    OBVIOUS
  <2>2. \E i \in DOMAIN networks : networks[i] = m
    BY DEF Range
  <2> QED BY <2>1, <2>2
<1>4. FirstOf(of(b)) \in of(b)
  <2> HIDE DEF of
  <2> QED BY <1>3, FirstPlace
<1>5. bucket(rep) = b
  BY <1>4
<1>6. bucket(n) = b
  BY <1>2
<1>7. GroupFor(org, n) = b[1] /\ Fingerprint(n) = Fingerprint(rep)
  BY <1>5, <1>6
<1> HIDE DEF rep, b, bucket, of, cluster
<1> SUFFICES ASSUME NEW r \in c.rows, r.key \notin Own
             PROVE  r.org = Verdict(OrgSays(org, r.key, "network", GroupFor(org, n)), n.settings[r.key])
  OBVIOUS
<1>8. PICK k \in DOMAIN rep.settings : r = ConfigRow(k, rep.settings[k], "network", b[1], org, ruckus)
  BY <1>2 DEF ConfigRows
<1>9. r.key = k /\ r.org = Verdict(OrgSays(org, k, "network", b[1]), rep.settings[k])
  BY <1>8 DEF ConfigRow
<1>10. n.settings[k] = rep.settings[k]
  <2>1. k \in DOMAIN rep.settings \ Own
    BY <1>9
  <2>2. [x \in DOMAIN n.settings \ Own |-> n.settings[x]] = [x \in DOMAIN rep.settings \ Own |-> rep.settings[x]]
    BY <1>7 DEF Fingerprint
  <2>3. k \in DOMAIN n.settings \ Own
    BY <2>1, <2>2
  <2> QED BY <2>1, <2>2, <2>3
<1> QED BY <1>7, <1>9, <1>10

\* A network is in the one cluster of its bucket.
LEMMA ClusterMembers ==
    ASSUME NEW networks, networks \in Seq(Range(networks)), NEW org, NEW ruckus
    PROVE  /\ \A c \in Clusters(networks, org, ruckus) : c.varies = Varies(c.members) /\ IsFiniteSet(c.members)
           /\ \A n \in Range(networks) : Cardinality({c \in Clusters(networks, org, ruckus) : n \in c.members}) = 1
<1> DEFINE bucket(m) == <<GroupFor(org, m), Fingerprint(m)>>
           of(b) == {i \in DOMAIN networks : bucket(networks[i]) = b}
           members(b) == {networks[i] : i \in of(b)}
           cluster(b) == [group |-> b[1], members |-> members(b), varies |-> Varies(members(b)),
                          rows |-> ConfigRows(networks[FirstOf(of(b))].settings, "network", b[1], org, ruckus)]
           clusters == Clusters(networks, org, ruckus)
<1>1. clusters = {cluster(b) : b \in {bucket(n) : n \in Range(networks)}}
  BY DEF Clusters
<1>2. \A b : cluster(b).members = members(b) /\ cluster(b).varies = Varies(members(b))
  OBVIOUS
<1>3. IsFiniteSet(Range(networks))
  <2>1. networks \in Surjection(1..Len(networks), Range(networks))
    BY DEF Surjection, Range
  <2>2. IsFiniteSet(1..Len(networks))
    BY FS_Interval
  <2> QED BY <2>1, <2>2, FS_Surjection
<1>4. \A b : members(b) \subseteq Range(networks)
  BY DEF Range
<1>5. \A n, b : n \in members(b) => bucket(n) = b
  OBVIOUS
<1>6. \A n \in Range(networks) : n \in members(bucket(n))
  BY DEF Range
<1> HIDE DEF cluster, members, clusters, bucket
<1>7. \A c \in clusters : c.varies = Varies(c.members) /\ IsFiniteSet(c.members)
  BY <1>1, <1>2, <1>3, <1>4, FS_Subset
<1>8. ASSUME NEW n \in Range(networks) PROVE Cardinality({c \in clusters : n \in c.members}) = 1
  <2>1. cluster(bucket(n)) \in clusters /\ n \in cluster(bucket(n)).members
    BY <1>1, <1>2, <1>6
  <2>2. \A c \in clusters : n \in c.members => c = cluster(bucket(n))
    BY <1>1, <1>2, <1>5
  <2>3. {c \in clusters : n \in c.members} = {cluster(bucket(n))}
    BY <2>1, <2>2
  <2> QED BY <2>3, FS_Singleton
<1> QED BY <1>7, <1>8 DEF clusters

\* Where two members differ the cluster varies.
LEMMA DifferencesSaid ==
    ASSUME NEW members, IsFiniteSet(members), NEW n \in members, NEW m \in members
    PROVE  /\ n.ssid # m.ssid => "SSID" \in Varies(members)
           /\ n.name # m.name => "name" \in Varies(members)
           /\ Differ(n, m, VlanKeys \ BuriedKeys) => "VLAN" \in Varies(members)
           /\ Differ(n, m, DpskKeys \ BuriedKeys) => "DPSK" \in Varies(members)
<1> DEFINE only(x, keys) == [k \in DOMAIN x.settings \cap keys |-> x.settings[k]]
<1>1. /\ Cardinality({x.ssid : x \in members}) > 1 => "SSID" \in Varies(members)
      /\ Cardinality({x.name : x \in members}) > 1 => "name" \in Varies(members)
      /\ Cardinality({only(x, VlanKeys \ BuriedKeys) : x \in members}) > 1 => "VLAN" \in Varies(members)
      /\ Cardinality({only(x, DpskKeys \ BuriedKeys) : x \in members}) > 1 => "DPSK" \in Varies(members)
  BY DEF Varies
<1>2. ASSUME n.ssid # m.ssid PROVE Cardinality({x.ssid : x \in members}) > 1
  <2> DEFINE f == [x \in members |-> x.ssid]
             all == {x.ssid : x \in members}
  <2>1. f \in [members -> all] /\ f[n] # f[m] /\ {f[x] : x \in members} = all
    BY <1>2
  <2> HIDE DEF f, all
  <2>2. Cardinality({f[x] : x \in members}) > 1
    BY <2>1, Several
  <2> QED BY <2>1, <2>2 DEF all
<1>3. ASSUME n.name # m.name PROVE Cardinality({x.name : x \in members}) > 1
  <2> DEFINE f == [x \in members |-> x.name]
             all == {x.name : x \in members}
  <2>1. f \in [members -> all] /\ f[n] # f[m] /\ {f[x] : x \in members} = all
    BY <1>3
  <2> HIDE DEF f, all
  <2>2. Cardinality({f[x] : x \in members}) > 1
    BY <2>1, Several
  <2> QED BY <2>1, <2>2 DEF all
<1>4. ASSUME NEW keys, NEW k \in keys \cap (DOMAIN n.settings) \cap DOMAIN m.settings, n.settings[k] # m.settings[k]
      PROVE  Cardinality({only(x, keys) : x \in members}) > 1
  <2> DEFINE f == [x \in members |-> only(x, keys)]
             all == {only(x, keys) : x \in members}
  <2>1. only(n, keys)[k] = n.settings[k] /\ only(m, keys)[k] = m.settings[k]
    OBVIOUS
  <2>2. only(n, keys) # only(m, keys)
    BY <1>4, <2>1
  <2> HIDE DEF only
  <2>3. f \in [members -> all] /\ f[n] # f[m] /\ {f[x] : x \in members} = all
    BY <2>2
  <2> HIDE DEF f, all
  <2>4. \A F \in [members -> all] : F[n] # F[m] => Cardinality({F[z] : z \in members}) > 1
    BY Several
  <2> QED BY <2>3, <2>4 DEF all
<1>5. ASSUME NEW keys, Differ(n, m, keys) PROVE Cardinality({only(x, keys) : x \in members}) > 1
  BY <1>4, <1>5 DEF Differ
<1> HIDE DEF only
<1> QED BY <1>1, <1>2, <1>3, <1>5

\* Whatever an admin keeps and whatever networks a venue has, a row of the config tab
\* says of every network of its cluster what was meant for it (baselines.match_group,
\* _group_opinion, _read_groups, save, shape.config_detail, _network_fingerprint,
\* _cluster_variance).
THEOREM AdviceIsMeant == Spec => []AdviceMeant
<1> DEFINE doc == scene.advice.doc
           networks == scene.advice.networks
           ruckus == scene.advice.ruckus
<1>1. SceneKnown => AdviceMeant
  <2> SUFFICES ASSUME SceneKnown PROVE AdviceMeant
    OBVIOUS
  <2>1. Documented(doc) /\ networks \in Seq(Range(networks))
    BY ReadingAssumption DEF SceneKnown, Documented
  <2>2. Saved(scene) = Back(doc)
    BY DEF Saved, Back
  <2>3. Shown(scene) = Clusters(networks, Back(doc), ruckus)
    BY <2>2 DEF Shown
  <2> HIDE DEF doc, networks, ruckus
  <2>4. \A n \in Range(networks) : Cardinality({c \in Shown(scene) : n \in c.members}) = 1
    BY <2>1, <2>3, ClusterMembers
  <2>5. ASSUME NEW c \in Shown(scene), NEW n \in c.members, NEW r \in c.rows, r.key \notin Own
        PROVE  Agrees(r, n.settings[r.key], Meant(Applying(doc, n), r.key))
    <3>1. r.org = Verdict(OrgSays(Back(doc), r.key, "network", GroupFor(Back(doc), n)), n.settings[r.key])
      BY <2>1, <2>3, <2>5, ClusterRows
    <3>2. PICK s : /\ OrgSays(Back(doc), r.key, "network", GroupFor(Back(doc), n)) = Says(s, r.key)
                   /\ Meant(Applying(doc, n), r.key) = Says(s, r.key)
      BY <2>1, NetworkMeant
    <3> QED BY <3>1, <3>2, VerdictAgrees
  <2>6. ASSUME NEW c \in Shown(scene), NEW n \in c.members, NEW m \in c.members
        PROVE  /\ n.ssid # m.ssid => "SSID" \in c.varies
               /\ n.name # m.name => "name" \in c.varies
               /\ Differ(n, m, VlanKeys \ BuriedKeys) => "VLAN" \in c.varies
               /\ Differ(n, m, DpskKeys \ BuriedKeys) => "DPSK" \in c.varies
    <3>1. c.varies = Varies(c.members) /\ IsFiniteSet(c.members)
      BY <2>1, <2>3, ClusterMembers
    <3> QED BY <3>1, DifferencesSaid
  <2>7. ASSUME NEW level \in {"venue", "apgroup"}, NEW r \in LevelRows(scene, level)
        PROVE  Agrees(r, r.value, Meant(<<doc.levels[level]>>, r.key))
    <3> DEFINE settings == scene.advice.settings
    <3>1. r \in ConfigRows(settings, level, NoGroup, Back(doc), ruckus)
      BY <2>2 DEF LevelRows, ruckus
    <3>2. PICK k \in DOMAIN settings : r = ConfigRow(k, settings[k], level, NoGroup, Back(doc), ruckus)
      BY <3>1 DEF ConfigRows
    <3>3. r.key = k /\ r.value = settings[k] /\ r.org = Verdict(OrgSays(Back(doc), k, level, NoGroup), settings[k])
      BY <3>2 DEF ConfigRow
    <3>4. OrgSays(Back(doc), k, level, NoGroup) = Says(Back(doc).levels[level], k)
      BY DEF OrgSays
    <3>5. Says(Back(doc).levels[level], k) = Says(doc.levels[level], k)
      BY <2>1, LevelsKept DEF Levels
    <3>6. Meant(<<doc.levels[level]>>, k) = Says(doc.levels[level], k)
      BY MeantByOne
    <3> HIDE DEF settings
    <3>7. r.org = Verdict(Says(doc.levels[level], k), r.value)
      BY <3>3, <3>4, <3>5
    <3>8. Agrees(r, r.value, Says(doc.levels[level], k))
      BY <3>7, VerdictAgrees
    <3> QED BY <3>3, <3>6, <3>8
  <2> QED BY <2>4, <2>5, <2>6, <2>7 DEF AdviceMeant, doc, networks
<1> QED BY <1>1, SceneStays, PTL

---------------------------------------------------------------------------
(* False alarms.  The findings over what was read are compared, check by     *)
(* check, with those over what the venue holds.                             *)

\* An alarm is backed by one of the same check, as severe, that names its rows.
Backed(f, g) ==
    f.severity \in {"critical", "warning"} =>
        /\ g.check = f.check /\ g.severity \in {"critical", "warning"}
        /\ f.severity = "critical" => g.severity = "critical"
        /\ f.evidence \subseteq g.evidence
Calm(f) == f.severity \notin {"critical", "warning"}

LEMMA Backs ==
    /\ \A f : Backed(f, f)
    /\ \A f, g : Calm(f) => Backed(f, g)
BY DEF Backed, Calm

\* A check of one read is silent when the read is empty.
LEMMA DevicesSilent ==
    /\ Calm(ApsOnline({})) /\ Calm(ApsProvisioned({})) /\ Calm(Naming({})) /\ Calm(MeshFallback({}))
    /\ \A views : Calm(Placement(views))
    /\ Calm(SwitchesOnline({})) /\ Calm(ConfigSync({})) /\ Calm(Uptime({}))
    /\ \A check : Calm(Firmware(check, {}))
<1>1. Calm(ApsOnline({}))
  BY DEF Calm, ApsOnline, Offline, Finding
<1>2. Calm(ApsProvisioned({})) /\ Calm(Naming({})) /\ Calm(MeshFallback({}))
  BY DEF Calm, ApsProvisioned, Naming, MeshFallback, Judged, Finding
<1>3. \A views : Calm(Placement(views))
  BY DEF Calm, Placement, Judged, Finding
<1>4. Calm(SwitchesOnline({})) /\ Calm(ConfigSync({}))
  BY DEF Calm, SwitchesOnline, ConfigSync, Judged, Finding
<1>5. Calm(Uptime({}))
  <2>1. {v \in Online({}) : v.uptime > 0} = {} /\ Cardinality({}) < 3
    BY FS_EmptySet DEF Online
  <2> QED BY <2>1 DEF Uptime, Calm, Finding
<1>6. \A check : Calm(Firmware(check, {}))
  <2>1. {r.firmware : r \in {}} \ {""} = {}
    OBVIOUS
  <2> QED BY <2>1 DEF Firmware, Judged, Calm, Finding
<1> QED BY <1>1, <1>2, <1>3, <1>4, <1>5, <1>6

LEMMA DevicesBacked ==
    ASSUME NEW whole, NEW views \in {whole, {}}
    PROVE  /\ Backed(ApsOnline(views), ApsOnline(whole))
           /\ Backed(ApsProvisioned(views), ApsProvisioned(whole))
           /\ Backed(Naming(views), Naming(whole))
           /\ Backed(MeshFallback(views), MeshFallback(whole))
           /\ Backed(Placement(views), Placement(whole))
           /\ Backed(Uptime(views), Uptime(whole))
           /\ Backed(SwitchesOnline(views), SwitchesOnline(whole))
           /\ Backed(ConfigSync(views), ConfigSync(whole))
           /\ \A check : Backed(Firmware(check, views), Firmware(check, whole))
BY DevicesSilent, Backs

\* Two findings of one check with one alarm to give.
LEMMA AlarmBacked ==
    ASSUME NEW f, NEW g, NEW check, NEW bad, NEW worse, NEW severity, NEW actual,
           Calm(f) \/ (f = Finding(check, severity, bad) /\ g = Finding(check, actual, worse)),
           bad \subseteq worse,
           severity = "critical" => actual = "critical",
           severity = "warning" => actual \in {"critical", "warning"}
    PROVE  Backed(f, g)
BY DEF Backed, Calm, Finding

\* The wired checks.

LEMMA PoeBacked ==
    ASSUME NEW S, NEW switches \in {S, {}}, NEW V, NEW views \in {V, {}}, NEW ports, NEW P
    PROVE  /\ Backed(PoeBudget(PoeCard(switches, ports, views)), PoeBudget(PoeCard(S, P, V)))
           /\ Backed(UplinkSpeed(PoeCard(switches, ports, views)), UplinkSpeed(PoeCard(S, P, V)))
<1> DEFINE card == PoeCard(switches, ports, views)
           known == PoeCard(S, P, V)
           full(poe, pct) == {s \in poe.switches : s.pct >= pct}
           slow(poe) == {a \in poe.aps : a.speed > 0 /\ a.state = "online" /\ a.speed < 1000}
           linked(poe) == {a \in poe.aps : a.speed > 0 /\ a.state = "online"}
<1>1. \A s \in card.switches : \E t \in known.switches : t.name = s.name /\ t.pct = s.pct
  <2> DEFINE row(s, ps) == [name      |-> s.name,
                            pct       |-> (100 * s.allocated) \div s.capacity,
                            consumers |-> {p.id : p \in {q \in Powered(ps) : q.switchName = s.name}},
                            powered   |-> {p.id : p \in {q \in Powered(ps) : q.switch = s.mac}}]
  <2>1. /\ card.switches = {row(s, ports) : s \in {t \in switches : t.capacity > 0}}
        /\ known.switches = {row(s, P) : s \in {t \in S : t.capacity > 0}}
    BY DEF PoeCard
  <2>2. \A s : row(s, ports).name = row(s, P).name /\ row(s, ports).pct = row(s, P).pct
    OBVIOUS
  <2> HIDE DEF row, card, known
  <2> QED BY <2>1, <2>2
<1>2. \A a \in card.aps : \E b \in known.aps : b.name = a.name /\ b.speed = a.speed /\ b.state = a.state
  <2> DEFINE row(v, vs, ps) == [name |-> v.name, state |-> v.state, speed |-> v.speed,
                                found |-> \E p \in ps : v \in NeighbourAps(p, vs)]
  <2>1. /\ card.aps = {row(v, views, ports) : v \in views}
        /\ known.aps = {row(v, V, P) : v \in V}
    BY DEF PoeCard
  <2>2. \A v : LET a == row(v, views, ports) b == row(v, V, P) IN
            a.name = b.name /\ a.speed = b.speed /\ a.state = b.state
    OBVIOUS
  <2> HIDE DEF row, card, known
  <2> QED BY <2>1, <2>2
<1> HIDE DEF card, known
<1>3. Backed(PoeBudget(card), PoeBudget(known))
  <2> DEFINE bad == Switch(full(card, WarnPct))
             worse == Switch(full(known, WarnPct))
             severity == IF full(card, CritPct) # {} THEN "critical" ELSE "warning"
             actual == IF full(known, CritPct) # {} THEN "critical" ELSE "warning"
  <2>1. \A pct : \A s \in full(card, pct) : \E t \in full(known, pct) : t.name = s.name
    BY <1>1
  <2>2. bad \subseteq worse
    BY <2>1 DEF Switch
  <2>3. severity = "critical" => actual = "critical"
    BY <2>1
  <2>4. actual \in {"critical", "warning"} /\ (known.switches = {} => card.switches = {})
    BY <1>1
  <2>5. /\ Calm(PoeBudget(card)) \/ (card.switches # {} /\ bad # {} /\ PoeBudget(card) = Finding("poe-budget", severity, bad))
        /\ known.switches # {} /\ worse # {} => PoeBudget(known) = Finding("poe-budget", actual, worse)
    BY DEF PoeBudget, Judged, Finding, Calm
  <2> HIDE DEF bad, worse, severity, actual
  <2>6. Calm(PoeBudget(card)) \/ (PoeBudget(card) = Finding("poe-budget", severity, bad)
                                     /\ PoeBudget(known) = Finding("poe-budget", actual, worse))
    BY <2>2, <2>4, <2>5
  <2> QED BY <2>2, <2>3, <2>4, <2>6, AlarmBacked
<1>4. Backed(UplinkSpeed(card), UplinkSpeed(known))
  <2> DEFINE bad == Ap({a \in linked(card) : a.speed < 1000})
             worse == Ap({a \in linked(known) : a.speed < 1000})
  <2>1. \A a \in linked(card) : \E b \in linked(known) : b.name = a.name /\ b.speed = a.speed
    BY <1>2
  <2>2. bad \subseteq worse
    BY <2>1 DEF Ap
  <2>3. linked(known) = {} => linked(card) = {}
    BY <2>1
  <2>4. /\ Calm(UplinkSpeed(card)) \/ (linked(card) # {} /\ bad # {} /\ UplinkSpeed(card) = Finding("ap-uplink-speed", "warning", bad))
        /\ linked(known) # {} /\ worse # {} => UplinkSpeed(known) = Finding("ap-uplink-speed", "warning", worse)
    BY DEF UplinkSpeed, Judged, Finding, Calm
  <2> HIDE DEF bad, worse, linked
  <2>5. Calm(UplinkSpeed(card)) \/ (UplinkSpeed(card) = Finding("ap-uplink-speed", "warning", bad)
                                       /\ UplinkSpeed(known) = Finding("ap-uplink-speed", "warning", worse))
    BY <2>2, <2>3, <2>4
  <2> QED BY <2>2, <2>5, AlarmBacked
<1> QED BY <1>3, <1>4 DEF card, known

LEMMA PortsBacked ==
    ASSUME NEW P, NEW ports \in {P, {}}, NEW V, NEW views \in {V, {}}, NEW S, NEW switches \in {S, {}}
    PROVE  /\ Backed(PortErrors(PortCard(ports, views, switches)), PortErrors(PortCard(P, V, S)))
           /\ Backed(LinkSpeed(PortCard(ports, views, switches)), LinkSpeed(PortCard(P, V, S)))
<1> DEFINE card == PortCard(ports, views, switches)
           known == PortCard(P, V, S)
           wired(rows) == \E r \in rows : r.kind \in {"ap", "switch"}
<1>1. /\ card.total = ports /\ known.total = P
      /\ card.errored \subseteq known.errored
  BY DEF PortCard, Up
<1>2. \A p : NeighbourAps(p, views) # {} => NeighbourAps(p, views) = NeighbourAps(p, V)
  BY DEF NeighbourAps
<1>3. \A p : LinkKind(p, views, switches) \in {"ap", "switch"} => LinkKind(p, V, S) \in {"ap", "switch"}
  BY <1>2 DEF LinkKind
<1>4. \A r \in card.slow : \E q \in known.slow : q.port = r.port /\ (r.kind \in {"ap", "switch"} => q.kind \in {"ap", "switch"})
  <2>1. /\ card.slow = {[port |-> p.id, kind |-> LinkKind(p, views, switches)] : p \in {q \in Up(ports) : q.speed \in 1..999}}
        /\ known.slow = {[port |-> p.id, kind |-> LinkKind(p, V, S)] : p \in {q \in Up(P) : q.speed \in 1..999}}
    BY DEF PortCard
  <2>2. {q \in Up(ports) : q.speed \in 1..999} \subseteq {q \in Up(P) : q.speed \in 1..999}
    BY DEF Up
  <2> HIDE DEF card, known
  <2> SUFFICES ASSUME NEW r \in card.slow
               PROVE  \E q \in known.slow : q.port = r.port /\ (r.kind \in {"ap", "switch"} => q.kind \in {"ap", "switch"})
    OBVIOUS
  <2>3. PICK p \in {q \in Up(ports) : q.speed \in 1..999} : r = [port |-> p.id, kind |-> LinkKind(p, views, switches)]
    BY <2>1
  <2> DEFINE q == [port |-> p.id, kind |-> LinkKind(p, V, S)]
  <2>4. q \in known.slow
    BY <2>1, <2>2
  <2>5. q.port = r.port /\ (r.kind \in {"ap", "switch"} => q.kind \in {"ap", "switch"})
    BY <1>3, <2>3
  <2> QED BY <2>4, <2>5
<1> HIDE DEF card, known
<1>5. Backed(PortErrors(card), PortErrors(known))
  <2> DEFINE bad == Ports({p.id : p \in card.errored})
             worse == Ports({p.id : p \in known.errored})
  <2>1. bad \subseteq worse /\ (known.total = {} => card.total = {})
    BY <1>1 DEF Ports
  <2>2. /\ Calm(PortErrors(card)) \/ (card.total # {} /\ bad # {} /\ PortErrors(card) = Finding("port-errors", "warning", bad))
        /\ known.total # {} /\ worse # {} => PortErrors(known) = Finding("port-errors", "warning", worse)
    BY DEF PortErrors, Judged, Finding, Calm
  <2> HIDE DEF bad, worse
  <2>3. Calm(PortErrors(card)) \/ (PortErrors(card) = Finding("port-errors", "warning", bad)
                                      /\ PortErrors(known) = Finding("port-errors", "warning", worse))
    BY <2>1, <2>2
  <2> QED BY <2>1, <2>3, AlarmBacked
<1>6. Backed(LinkSpeed(card), LinkSpeed(known))
  <2> DEFINE bad == Ports({r.port : r \in card.slow})
             worse == Ports({r.port : r \in known.slow})
             severity == IF wired(card.slow) THEN "warning" ELSE "info"
             actual == IF wired(known.slow) THEN "warning" ELSE "info"
  <2>1. bad \subseteq worse /\ (known.total = {} => card.total = {})
    BY <1>1, <1>4 DEF Ports
  <2>2. severity # "critical" /\ (severity = "warning" => actual \in {"critical", "warning"})
    BY <1>4
  <2>3. /\ Calm(LinkSpeed(card)) \/ (card.total # {} /\ bad # {} /\ LinkSpeed(card) = Finding("port-link-speed", severity, bad))
        /\ known.total # {} /\ worse # {} => LinkSpeed(known) = Finding("port-link-speed", actual, worse)
    BY DEF LinkSpeed, Judged, Finding, Calm
  <2> HIDE DEF bad, worse, severity, actual
  <2>4. Calm(LinkSpeed(card)) \/ (LinkSpeed(card) = Finding("port-link-speed", severity, bad)
                                     /\ LinkSpeed(known) = Finding("port-link-speed", actual, worse))
    BY <2>1, <2>3
  <2> QED BY <2>1, <2>2, <2>4, AlarmBacked
<1> QED BY <1>5, <1>6 DEF card, known

LEMMA DhcpBacked ==
    ASSUME NEW P, NEW pools \in {P, {}}
    PROVE  Backed(DhcpPools(pools), DhcpPools(P))
<1>1. Calm(DhcpPools({}))
  BY DEF DhcpPools, Judged, Finding, Calm
<1> QED BY <1>1, Backs

\* An address is never alarming, but for an AP online without one.
LEMMA AddressesBacked ==
    ASSUME NEW M, NEW missing \in {M, {}}, NEW subnets, NEW N, NEW external, NEW E
    PROVE  /\ Backed(ApAddressing(subnets, missing), ApAddressing(N, M))
           /\ Backed(ExternalIp(external), ExternalIp(E))
<1>1. Calm(ApAddressing(subnets, {})) /\ Calm(ExternalIp(external))
  BY DEF ApAddressing, ExternalIp, Finding, Calm
<1>2. \A x : M # {} => ApAddressing(x, M) = Finding("ap-addressing", "warning", {})
  BY DEF ApAddressing
<1> QED BY <1>1, <1>2, Backs

LEMMA ChannelsBacked ==
    ASSUME NEW R, NEW radio \in {R, {}}, NEW views, NEW V
    PROVE  Backed(ChannelPlan24(ChannelPlan(radio, views)), ChannelPlan24(ChannelPlan(R, V)))
<1> DEFINE band(plan) == {p \in plan : p.band = "2.4"}
           told(plan) == {<<"channel", c>> : c \in UNION {p.enabledOutside : p \in band(plan)}}
           plan == ChannelPlan(radio, views)
           known == ChannelPlan(R, V)
           bad == told(plan)
           worse == told(known)
<1>1. \A p \in plan : \E q \in known : q.band = p.band /\ q.enabledOutside = p.enabledOutside
  <2>1. \A e, vs : /\ Plan(e, vs).band = e.band
                   /\ Plan(e, vs).enabledOutside = IF e.band = "2.4" THEN (e.allowed \ {0}) \ CleanChannels ELSE {}
    BY DEF Plan
  <2>2. \A e : Plan(e, views).band = Plan(e, V).band /\ Plan(e, views).enabledOutside = Plan(e, V).enabledOutside
    BY <2>1
  <2> QED BY <2>2 DEF ChannelPlan
<1> HIDE DEF plan, known
<1>2. \A p \in band(plan) : \E q \in band(known) : q.enabledOutside = p.enabledOutside
  BY <1>1
<1>3. bad \subseteq worse /\ (band(known) = {} => band(plan) = {})
  BY <1>2
<1>4. /\ Calm(ChannelPlan24(plan))
         \/ (band(plan) # {} /\ bad # {} /\ ChannelPlan24(plan) = Finding("24ghz-channel-plan", "critical", bad))
      /\ band(known) # {} /\ worse # {} => ChannelPlan24(known) = Finding("24ghz-channel-plan", "critical", worse)
  BY DEF ChannelPlan24, Judged, Finding, Calm
<1> HIDE DEF band, bad, worse
<1>5. Calm(ChannelPlan24(plan)) \/ (ChannelPlan24(plan) = Finding("24ghz-channel-plan", "critical", bad)
                                      /\ ChannelPlan24(known) = Finding("24ghz-channel-plan", "critical", worse))
  BY <1>3, <1>4
<1>6. Backed(ChannelPlan24(plan), ChannelPlan24(known))
  BY <1>3, <1>5, AlarmBacked
<1> QED BY <1>6 DEF plan, known

\* The SSIDs: a row of what was read carries no VLAN its activation does not.
FewerVlansIn(rows, known) == \A r \in rows : \E q \in known : r.vlans \subseteq q.vlans
Countable(views) == Cardinality({v.mgmt : v \in views} \ {0}) \in Nat
LEMMA FewerVlans ==
    ASSUME NEW raw, NEW whole, NEW views, NEW V,
           raw["activations"] \in {whole["activations"], {}}, raw["networks"] \in {whole["networks"], {}},
           NEW r \in RowsOf(raw, views)
    PROVE  \E q \in RowsOf(whole, V) : r.vlans \subseteq q.vlans
<1> DEFINE row(a, w, vs) == SsidRow(a, w["networks"], w["apGroups"], vs, w["clients"])
           tunnelled(x, w) == [x EXCEPT !.tunnel = Tunnels(x.network, Here, w["softGre"], w["edgeTunnels"])]
<1>1. \A w, vs : RowsOf(w, vs) = {tunnelled(x, w) : x \in {row(a, w, vs) : a \in w["activations"]}}
  BY DEF RowsOf, SsidRows
<1>2. \A a, w, vs : tunnelled(row(a, w, vs), w).vlans = VlansOf(a, w["networks"])
  BY DEF SsidRow
<1>3. \A a : VlansOf(a, raw["networks"]) \subseteq VlansOf(a, whole["networks"])
  BY DEF VlansOf, Network
<1> HIDE DEF row, tunnelled
<1>4. PICK a \in raw["activations"] : r = tunnelled(row(a, raw, views), raw)
  BY <1>1
<1>5. tunnelled(row(a, whole, V), whole) \in RowsOf(whole, V)
  BY <1>1
<1> QED BY <1>2, <1>3, <1>4, <1>5

Carried(card) == \E r \in card.rows : r.vlan = card.mgmt /\ r.ports # {}
Reporting(card) == Finding("mgmt-vlan", "warning", {<<"vlan", v>> : v \in card.apMgmt})
OnTheWire(card) == Finding("mgmt-vlan", IF card.seen /\ ~Carried(card) THEN "warning" ELSE "ok", {})
LEMMA Management ==
    ASSUME NEW card, Cardinality(card.apMgmt) \in Nat
    PROVE  LET several == Cardinality(card.apMgmt) > 1
               other == Cardinality(card.apMgmt) = 1 /\ card.apMgmt # {card.mgmt}
           IN  /\ several => ManagementVlan(card) = Reporting(card)
               /\ ~several /\ card.mgmt = 0 => Calm(ManagementVlan(card))
               /\ ~several /\ card.mgmt # 0 /\ other => ManagementVlan(card) = Reporting(card)
               /\ ~several /\ card.mgmt # 0 /\ ~other => ManagementVlan(card) = OnTheWire(card)
<1>1. Cardinality(card.apMgmt) > 1 => ManagementVlan(card) = Reporting(card)
  BY DEF ManagementVlan, Reporting
<1>2. ~(Cardinality(card.apMgmt) > 1) /\ card.mgmt = 0 => Calm(ManagementVlan(card))
  BY DEF ManagementVlan, Finding, Calm
<1>3. ~(Cardinality(card.apMgmt) > 1) /\ card.mgmt # 0 /\ Cardinality(card.apMgmt) = 1 /\ card.apMgmt # {card.mgmt} =>
        ManagementVlan(card) = Reporting(card)
  BY DEF ManagementVlan, Reporting
<1>4. ~(Cardinality(card.apMgmt) > 1) /\ card.mgmt # 0 /\ ~(Cardinality(card.apMgmt) = 1 /\ card.apMgmt # {card.mgmt}) =>
        ManagementVlan(card) = OnTheWire(card)
  BY DEF ManagementVlan, OnTheWire, Carried
<1> QED BY <1>1, <1>2, <1>3, <1>4

\* The VLANs: ports and the VLAN of management are as they are or unknown, and
\* whoever is seen says nothing of what is carried.
LEMMA VlansBacked ==
    ASSUME NEW raw, NEW whole, raw["ports"] \in {whole["ports"], {}}, raw["mgmtVlan"] \in {whole["mgmtVlan"], 0},
           NEW V, NEW views \in {V, {}}, Countable(V), NEW ssids, NEW N, FewerVlansIn(ssids, N),
           NEW card, card = VlanCard(raw["ports"], ssids, raw["mgmtVlan"], raw["dhcpPools"], views, raw["clients"]),
           NEW known, known = VlanCard(whole["ports"], N, whole["mgmtVlan"], whole["dhcpPools"], V, whole["clients"])
    PROVE  Backed(SsidVlansCarried(card), SsidVlansCarried(known)) /\ Backed(ManagementVlan(card), ManagementVlan(known))
<1> DEFINE ports == raw["ports"]
           P == whole["ports"]
           mgmt == raw["mgmtVlan"]
           M == whole["mgmtVlan"]
           pools == raw["dhcpPools"]
           D == whole["dhcpPools"]
           clients == raw["clients"]
           C == whole["clients"]
<1>0. /\ ports \in {P, {}} /\ mgmt \in {M, 0}
      /\ card = VlanCard(ports, ssids, mgmt, pools, views, clients) /\ known = VlanCard(P, N, M, D, V, C)
  OBVIOUS
<1> HIDE DEF ports, P, mgmt, M, pools, D, clients, C
<1> USE <1>0
<1> DEFINE row(vlan, ps, rs, m, ds, cs) ==
               [vlan     |-> vlan,
                ports    |-> OnPorts(vlan, ps),
                ssids    |-> {s.ssid : s \in {t \in rs : vlan \in t.vlans}},
                declared |-> DeclaredBy(vlan, ps, rs, m, ds),
                clients  |-> {c.mac : c \in {d \in cs : d.vlan = vlan}}]
           every == EveryVlan(ports, ssids, mgmt, pools, views, clients)
           all == EveryVlan(P, N, M, D, V, C)
<1>1. /\ card.rows = {row(v, ports, ssids, mgmt, pools, clients) : v \in every}
      /\ known.rows = {row(v, P, N, M, D, C) : v \in all}
  BY DEF VlanCard
<1>2. /\ card.mgmt = mgmt /\ card.apMgmt = {v.mgmt : v \in views} \ {0} /\ card.seen = (ports # {})
      /\ known.mgmt = M /\ known.apMgmt = {v.mgmt : v \in V} \ {0} /\ known.seen = (P # {})
  BY DEF VlanCard
<1>3. \A v, ps, rs, m, ds, cs :
        /\ row(v, ps, rs, m, ds, cs).vlan = v
        /\ row(v, ps, rs, m, ds, cs).ports = OnPorts(v, ps)
        /\ row(v, ps, rs, m, ds, cs).ssids = {s.ssid : s \in {t \in rs : v \in t.vlans}}
  OBVIOUS
<1>4. /\ \A v \in every : v # 0
      /\ mgmt # 0 => mgmt \in every
      /\ M # 0 => M \in all
      /\ \A s \in N : s.vlans \ {0} \subseteq all
  BY DEF EveryVlan
<1> HIDE DEF row, every, all
<1>5. Backed(SsidVlansCarried(card), SsidVlansCarried(known))
  <2> DEFINE bare(rows) == {r \in rows : r.ssids # {} /\ r.ports = {}}
             bad == Vlans(bare(card.rows))
             worse == Vlans(bare(known.rows))
  <2>1. CASE ports = {}
    <3>1. Calm(SsidVlansCarried(card))
      BY <1>2, <2>1 DEF SsidVlansCarried, Judged, Finding, Calm
    <3> QED BY <3>1, Backs
  <2>2. CASE ports # {}
    <3>1. ports = P
      BY <2>2
    <3>2. ASSUME NEW r \in bare(card.rows) PROVE \E q \in bare(known.rows) : q.vlan = r.vlan
      <4>1. PICK v \in every : r = row(v, ports, ssids, mgmt, pools, clients)
        BY <1>1
      <4>2. OnPorts(v, P) = {} /\ \E t \in ssids : v \in t.vlans
        BY <1>3, <3>1, <4>1
      <4>3. PICK t \in N : v \in t.vlans
        BY <4>2 DEF FewerVlansIn
      <4>4. v \in all
        BY <1>4, <4>3
      <4> DEFINE q == row(v, P, N, M, D, C)
      <4>5. q.vlan = v /\ q.ports = {} /\ q.ssids = {s.ssid : s \in {x \in N : v \in x.vlans}}
        BY <1>3, <4>2
      <4>6. q \in known.rows /\ q.ssids # {}
        BY <1>1, <4>3, <4>4, <4>5
      <4>7. r.vlan = v
        BY <1>3, <4>1
      <4> HIDE DEF q
      <4> QED BY <4>5, <4>6, <4>7
    <3>3. bad \subseteq worse
      BY <3>2 DEF Vlans
    <3>4. bad # {} => \E r \in known.rows : r.ssids # {}
      BY <3>2 DEF Vlans
    <3>5. /\ Calm(SsidVlansCarried(card)) \/ (bad # {} /\ SsidVlansCarried(card) = Finding("ssid-vlan-carried", "warning", bad))
          /\ known.seen /\ (\E r \in known.rows : r.ssids # {}) /\ worse # {} =>
                SsidVlansCarried(known) = Finding("ssid-vlan-carried", "warning", worse)
      BY DEF SsidVlansCarried, Judged, Finding, Calm
    <3>6. known.seen
      BY <1>2, <2>2, <3>1
    <3> HIDE DEF bare, bad, worse
    <3>7. Calm(SsidVlansCarried(card)) \/ (SsidVlansCarried(card) = Finding("ssid-vlan-carried", "warning", bad)
                                            /\ SsidVlansCarried(known) = Finding("ssid-vlan-carried", "warning", worse))
      BY <3>3, <3>4, <3>5, <3>6
    <3> QED BY <3>3, <3>7, AlarmBacked
  <2> QED BY <2>1, <2>2
<1>6. Backed(ManagementVlan(card), ManagementVlan(known))
  <2>1. views = {} => card.apMgmt = {} /\ Cardinality(card.apMgmt) = 0
    <3>1. views = {} => card.apMgmt = {}
      BY <1>2
    <3> QED BY <3>1, FS_EmptySet
  <2>2. Cardinality(known.apMgmt) \in Nat /\ (views # {} => card.apMgmt = known.apMgmt)
    BY <1>2 DEF Countable
  <2>3. Cardinality(card.apMgmt) \in Nat
    BY <2>1, <2>2
  <2>4. /\ M # 0 => (Carried(known) <=> OnPorts(M, P) # {})
        /\ mgmt # 0 => (Carried(card) <=> OnPorts(mgmt, ports) # {})
    <3>1. ASSUME M # 0 PROVE row(M, P, N, M, D, C) \in known.rows
      BY <1>1, <1>4, <3>1
    <3>2. ASSUME mgmt # 0 PROVE row(mgmt, ports, ssids, mgmt, pools, clients) \in card.rows
      BY <1>1, <1>4, <3>2
    <3>3. /\ \A r \in known.rows : r.ports = OnPorts(r.vlan, P)
          /\ \A r \in card.rows : r.ports = OnPorts(r.vlan, ports)
      BY <1>1, <1>3
    <3> QED BY <1>2, <1>3, <3>1, <3>2, <3>3 DEF Carried
  <2>5. CASE Calm(ManagementVlan(card))
    BY <2>5, Backs
  <2>6. CASE Cardinality(card.apMgmt) > 1
    <3>1. card.apMgmt = known.apMgmt /\ Cardinality(known.apMgmt) > 1
      BY <2>1, <2>2, <2>6
    <3>2. ManagementVlan(card) = Reporting(card) /\ ManagementVlan(known) = Reporting(known)
      BY <2>2, <2>3, <2>6, <3>1, Management
    <3> QED BY <3>1, <3>2, Backs DEF Reporting
  <2>7. CASE ~(Cardinality(card.apMgmt) > 1) /\ mgmt # 0
    <3>1. mgmt = M /\ card.mgmt # 0 /\ known.mgmt = card.mgmt
      BY <1>2, <2>7
    <3>2. CASE Cardinality(card.apMgmt) = 1 /\ card.apMgmt # {card.mgmt}
      <4>1. card.apMgmt = known.apMgmt
        BY <2>1, <2>2, <3>2
      <4>2. ManagementVlan(card) = Reporting(card) /\ ManagementVlan(known) = Reporting(known)
        BY <2>2, <2>3, <2>7, <3>1, <3>2, <4>1, Management
      <4> QED BY <4>1, <4>2, Backs DEF Reporting
    <3>3. CASE ~(Cardinality(card.apMgmt) = 1 /\ card.apMgmt # {card.mgmt}) /\ ~Calm(ManagementVlan(card))
      <4>1. ManagementVlan(card) = OnTheWire(card)
        BY <2>3, <2>7, <3>1, <3>3, Management
      <4>2. card.seen /\ ~Carried(card)
        BY <3>3, <4>1 DEF OnTheWire, Finding, Calm
      <4>3. ports = P /\ P # {}
        BY <1>2, <4>2
      <4>4. known.seen /\ ~Carried(known)
        BY <1>2, <2>4, <3>1, <4>2, <4>3
      <4>5. ManagementVlan(known) \in {Reporting(known), OnTheWire(known)}
        BY <2>2, <3>1, Management
      <4>6. OnTheWire(card) = Finding("mgmt-vlan", "warning", {}) /\ OnTheWire(known) = Finding("mgmt-vlan", "warning", {})
        BY <4>2, <4>4 DEF OnTheWire
      <4> QED BY <4>1, <4>5, <4>6 DEF Backed, Reporting, Finding
    <3> QED BY <2>5, <3>2, <3>3
  <2>8. CASE ~(Cardinality(card.apMgmt) > 1) /\ mgmt = 0
    BY <1>2, <2>3, <2>5, <2>8, Management
  <2> QED BY <2>6, <2>7, <2>8
<1> QED BY <1>5, <1>6

\* Pools, sets and RADIUS groups.
LEMMA FewerPools ==
    ASSUME NEW raw, NEW whole, raw["dpskPools"] \in {whole["dpskPools"], {}},
           raw["identityGroups"].rows \in {whole["identityGroups"].rows, {}},
           raw["activations"] \in {whole["activations"], {}},
           NEW r \in PoolsOf(raw)
    PROVE  /\ r.count = raw["counts"][r.id] /\ \E p \in whole["dpskPools"] : p.id = r.id
           /\ \E q \in PoolsOf(whole) : q.id = r.id /\ q.set = r.set /\ q.count = whole["counts"][r.id]
<1> DEFINE used(w) == {a.network : a \in w["activations"]}
           row(p, w) == PoolRow(p, w["identityGroups"].rows, used(w), w["counts"][p.id])
<1>1. \A w : PoolsOf(w) = {row(p, w) : p \in {q \in w["dpskPools"] : UsedHere(q, w["identityGroups"].rows, used(w))}}
  BY DEF PoolsOf, PoolRows
<1>2. \A p, w : row(p, w).id = p.id /\ row(p, w).set = p.set /\ row(p, w).count = w["counts"][p.id]
  BY DEF PoolRow
<1>3. used(raw) \subseteq used(whole)
  OBVIOUS
<1> HIDE DEF row, used
<1>4. PICK p \in raw["dpskPools"] : UsedHere(p, raw["identityGroups"].rows, used(raw)) /\ r = row(p, raw)
  BY <1>1
<1>5. UsedHere(p, whole["identityGroups"].rows, used(whole))
  BY <1>3, <1>4 DEF UsedHere, LinkedGroups
<1>6. row(p, whole) \in PoolsOf(whole)
  BY <1>1, <1>4, <1>5
<1> QED BY <1>2, <1>4, <1>6

LEMMA PoolsBacked ==
    ASSUME NEW rows, NEW known, \A r \in rows : \E q \in known : q.id = r.id /\ (r.count = 0 => q.count = 0)
    PROVE  /\ Backed(DpskInUse(rows), DpskInUse(known))
           /\ Backed(DpskPassphrases(rows), DpskPassphrases(known))
<1>1. Calm(DpskInUse(rows))
  BY DEF DpskInUse, Finding, Calm
<1> DEFINE empty(rs) == {r \in rs : r.count = 0}
           bad == Pools(empty(rows))
           worse == Pools(empty(known))
<1>2. \A r \in empty(rows) : \E q \in empty(known) : q.id = r.id
  OBVIOUS
<1>3. bad \subseteq worse /\ (empty(known) = {} => empty(rows) = {})
  BY <1>2 DEF Pools
<1>4. /\ Calm(DpskPassphrases(rows)) \/ (empty(rows) # {} /\ DpskPassphrases(rows) = Finding("dpsk-passphrases", "critical", bad))
      /\ empty(known) # {} => DpskPassphrases(known) = Finding("dpsk-passphrases", "critical", worse)
  BY DEF DpskPassphrases, Finding, Calm
<1> HIDE DEF empty, bad, worse
<1>5. Calm(DpskPassphrases(rows)) \/ (DpskPassphrases(rows) = Finding("dpsk-passphrases", "critical", bad)
                                       /\ DpskPassphrases(known) = Finding("dpsk-passphrases", "critical", worse))
  BY <1>3, <1>4
<1> QED BY <1>1, <1>3, <1>5, AlarmBacked, Backs

\* The groups of no pool name no set: only a pool brings a set into scope.
LEMMA NarrowerScope ==
    ASSUME NEW rows, NEW known, \A r \in rows : \E q \in known : q.id = r.id /\ q.set = r.set,
           NEW others, \A g \in others : g.set = NoSet, NEW O, NEW sets, NEW S, sets \in {S, {}}
    PROVE  ScopedSets(rows, others, sets) \subseteq ScopedSets(known, O, S)
<1> SUFFICES ASSUME NEW x \in ScopedSets(rows, others, sets) PROVE x \in ScopedSets(known, O, S)
  OBVIOUS
<1>1. CASE \E r \in rows : x = r.set /\ x # NoSet
  BY <1>1 DEF ScopedSets
<1>2. CASE \E s \in sets : x = s.id /\ s.pools \cap {r.id : r \in rows} # {}
  <2>1. PICK s \in sets : x = s.id /\ s.pools \cap {r.id : r \in rows} # {}
    BY <1>2
  <2>2. PICK r \in rows : r.id \in s.pools
    BY <2>1
  <2>3. PICK q \in known : q.id = r.id
    OBVIOUS
  <2>4. s \in S /\ s.pools \cap {y.id : y \in known} # {}
    BY <2>2, <2>3
  <2> QED BY <2>1, <2>4 DEF ScopedSets
<1> QED BY <1>1, <1>2 DEF ScopedSets

\* A RADIUS group is in use by a policy that was read, and orphaned by an
\* assignment that was.
LEMMA RadiusBacked ==
    ASSUME NEW scoped, NEW O, scoped \subseteq O, NEW sets, NEW S, sets \in {S, {}}, NEW policies, NEW P, policies \in {P, {}},
           NEW radius, NEW R, radius \in {R, {}}, NEW members, NEW M, \A s \in S : members[s.id] \in {M[s.id], {}},
           NEW assignments, NEW A, \A g \in R : assignments[g.id] \in {A[g.id], {}}
    PROVE  Backed(RadiusOrphans(PolicyCard(scoped, sets, policies, radius, members, assignments)),
                  RadiusOrphans(PolicyCard(O, S, P, R, M, A)))
<1> DEFINE card == PolicyCard(scoped, sets, policies, radius, members, assignments)
           known == PolicyCard(O, S, P, R, M, A)
           used(rows) == {p.radius : p \in UNION {r.policies : r \in rows}}
           orphans(c) == {q \in c.radius : q.orphaned # {}}
           named(c) == {<<"radius", r.id>> : r \in orphans(c)}
           bad == named(card)
           worse == named(known)
<1>1. /\ card.sets = {SetRow(s, members[s.id], policies, radius) : s \in {t \in sets : t.id \in scoped}}
      /\ known.sets = {SetRow(s, M[s.id], P, R) : s \in {t \in S : t.id \in O}}
  BY DEF PolicyCard
<1>2. /\ card.radius = {RadiusRow(g, assignments[g.id], policies) : g \in {h \in radius : h.id \in used(card.sets)}}
      /\ known.radius = {RadiusRow(g, A[g.id], P) : g \in {h \in R : h.id \in used(known.sets)}}
  BY DEF PolicyCard
<1>3. \A s, m, ps, gs : SetRow(s, m, ps, gs).policies = {p \in ps : p.id \in m}
  BY DEF SetRow, Resolved
<1>4. \A g, as, ps : RadiusRow(g, as, ps).id = g.id /\ RadiusRow(g, as, ps).orphaned = as \ {p.id : p \in ps}
  BY DEF RadiusRow
<1> HIDE DEF card, known
<1>5. ASSUME NEW x \in UNION {r.policies : r \in card.sets} PROVE x \in UNION {r.policies : r \in known.sets} /\ x \in policies
  <2>1. PICK s \in sets : s.id \in scoped /\ x \in policies /\ x.id \in members[s.id]
    BY <1>1, <1>3
  <2>2. SetRow(s, M[s.id], P, R) \in known.sets
    BY <1>1, <2>1
  <2>3. x \in SetRow(s, M[s.id], P, R).policies
    BY <1>3, <2>1
  <2> QED BY <2>1, <2>2, <2>3
<1>6. used(card.sets) \subseteq used(known.sets) /\ (used(card.sets) # {} => policies = P /\ known.sets # {})
  BY <1>5
<1> HIDE DEF used
<1>7. ASSUME NEW r \in orphans(card) PROVE known.sets # {} /\ \E q \in orphans(known) : q.id = r.id
  <2>1. PICK g \in radius : g.id \in used(card.sets) /\ r = RadiusRow(g, assignments[g.id], policies)
    BY <1>2
  <2>2. policies = P /\ known.sets # {} /\ g \in R /\ g.id \in used(known.sets)
    BY <1>6, <2>1
  <2>3. r.id = g.id /\ assignments[g.id] \ {p.id : p \in policies} # {}
    BY <1>4, <2>1
  <2> DEFINE q == RadiusRow(g, A[g.id], P)
  <2>4. q \in known.radius
    BY <1>2, <2>2
  <2>5. assignments[g.id] = A[g.id]
    BY <2>2, <2>3
  <2>6. q.id = g.id /\ q.orphaned = A[g.id] \ {p.id : p \in P}
    BY <1>4
  <2> HIDE DEF q
  <2> QED BY <2>2, <2>3, <2>4, <2>5, <2>6
<1>8. bad \subseteq worse /\ (bad # {} => known.sets # {})
  BY <1>7
<1>9. /\ Calm(RadiusOrphans(card)) \/ (bad # {} /\ RadiusOrphans(card) = Finding("radius-group-orphans", "warning", bad))
      /\ known.sets # {} /\ worse # {} => RadiusOrphans(known) = Finding("radius-group-orphans", "warning", worse)
  BY DEF RadiusOrphans, Judged, Finding, Calm
<1> HIDE DEF bad, worse
<1>10. Calm(RadiusOrphans(card)) \/ (RadiusOrphans(card) = Finding("radius-group-orphans", "warning", bad)
                                      /\ RadiusOrphans(known) = Finding("radius-group-orphans", "warning", worse))
  BY <1>8, <1>9
<1>11. Backed(RadiusOrphans(card), RadiusOrphans(known))
  BY <1>8, <1>10, AlarmBacked
<1> QED BY <1>11 DEF card, known

\* The reads: each answered or is empty, a count that did not answer is unread.
LEMMA ReadOrEmpty ==
    ASSUME NEW sc, NEW missing, NEW r \in Reads
    PROVE  Raw(sc, missing)[r] \in {sc[r], Empty(sc, r)} /\ Raw(sc, {})[r] = sc[r]
BY DEF Raw

LEMMA ReadOrNone ==
    ASSUME NEW sc, NEW missing, NEW r \in Reads \ {"identityGroups", "mgmtVlan", "apTotal", "counts", "members", "assignments"}
    PROVE  Raw(sc, missing)[r] \in {Raw(sc, {})[r], {}}
<1>1. Empty(sc, r) = {}
  BY DEF Empty
<1> QED BY <1>1, ReadOrEmpty

LEMMA IdentityReads ==
    ASSUME SceneKnown, NEW R, R = Raw(scene, lost), NEW S, S = Raw(scene, {})
    PROVE  /\ R["identityGroups"].rows \in {S["identityGroups"].rows, {}}
           /\ R["mgmtVlan"] \in {S["mgmtVlan"], 0}
           /\ \A p \in S["dpskPools"] : R["counts"][p.id] \in {S["counts"][p.id], Unread}
           /\ \A s \in S["policySets"] : R["members"][s.id] \in {S["members"][s.id], {}}
           /\ \A g \in S["radiusGroups"] : R["assignments"][g.id] \in {S["assignments"][g.id], {}}
<1>1. /\ {p.id : p \in scene.dpskPools} \subseteq DOMAIN scene.counts
      /\ {s.id : s \in scene.policySets} \subseteq DOMAIN scene.members
      /\ {g.id : g \in scene.radiusGroups} \subseteq DOMAIN scene.assignments
  BY ReadingAssumption DEF SceneKnown
<1>2. /\ Empty(scene, "identityGroups").rows = {} /\ Empty(scene, "mgmtVlan") = 0
      /\ Empty(scene, "counts") = [p \in DOMAIN scene.counts |-> Unread]
      /\ Empty(scene, "members") = [x \in DOMAIN scene.members |-> {}]
      /\ Empty(scene, "assignments") = [x \in DOMAIN scene.assignments |-> {}]
  BY DEF Empty
<1>3. {"identityGroups", "mgmtVlan", "counts", "members", "assignments", "dpskPools", "policySets", "radiusGroups"} \subseteq Reads
  BY DEF Reads
<1>4. \A r \in Reads : R[r] \in {scene[r], Empty(scene, r)} /\ S[r] = scene[r]
  BY ReadOrEmpty
<1> QED BY <1>1, <1>2, <1>3, <1>4

\* What is raised over the reads that answered is backed by the venue itself.
LEMMA FindingsBacked ==
    ASSUME SceneKnown, NEW f \in Checks(Cards(scene, lost)), f.check \notin Takers
    PROVE  \E g \in Checks(Cards(scene, {})) : Backed(f, g)
<1> DEFINE R == Raw(scene, lost)
           S == Raw(scene, {})
           C == Cards(scene, lost)
           K == Cards(scene, {})
           networks(raw) == {a.network : a \in raw["activations"]}
<1>1. /\ R["aps"] \in {S["aps"], {}} /\ R["switches"] \in {S["switches"], {}} /\ R["ports"] \in {S["ports"], {}}
      /\ R["radio"] \in {S["radio"], {}} /\ R["dhcpPools"] \in {S["dhcpPools"], {}}
      /\ R["networks"] \in {S["networks"], {}} /\ R["activations"] \in {S["activations"], {}}
      /\ R["dpskPools"] \in {S["dpskPools"], {}} /\ R["policySets"] \in {S["policySets"], {}}
      /\ R["policies"] \in {S["policies"], {}} /\ R["radiusGroups"] \in {S["radiusGroups"], {}}
  <2>1. \A r \in Reads \ {"identityGroups", "mgmtVlan", "apTotal", "counts", "members", "assignments"} : R[r] \in {S[r], {}}
    BY ReadOrNone
  <2> HIDE DEF R, S
  <2> QED BY <2>1 DEF Reads
<1>2. networks(R) \in {networks(S), {}}
  <2>1. R["activations"] = {} => networks(R) = {}
    OBVIOUS
  <2>2. R["activations"] = S["activations"] => networks(R) = networks(S)
    OBVIOUS
  <2> QED BY <1>1, <2>1, <2>2
<1>3. /\ C.views = Views(R["aps"]) /\ K.views = Views(S["aps"])
      /\ C.switches = R["switches"] /\ K.switches = S["switches"]
      /\ C.dhcp = R["dhcpPools"] /\ K.dhcp = S["dhcpPools"]
      /\ C.missing = {v \in Online(C.views) : v.ip = 0} /\ K.missing = {v \in Online(K.views) : v.ip = 0}
  BY DEF Cards
<1>4. /\ C.rows = RowsOf(R, C.views) /\ K.rows = RowsOf(S, K.views)
      /\ C.plan = ChannelPlan(R["radio"], C.views) /\ K.plan = ChannelPlan(S["radio"], K.views)
      /\ C.pools = PoolsOf(R) /\ K.pools = PoolsOf(S)
  BY DEF Cards
<1>5. /\ C.poe = PoeCard(R["switches"], R["ports"], C.views) /\ K.poe = PoeCard(S["switches"], S["ports"], K.views)
      /\ C.ports = PortCard(R["ports"], C.views, R["switches"]) /\ K.ports = PortCard(S["ports"], K.views, S["switches"])
  BY DEF Cards
<1>6. /\ C.vlans = VlanCard(R["ports"], C.rows, R["mgmtVlan"], R["dhcpPools"], C.views, R["clients"])
      /\ K.vlans = VlanCard(S["ports"], K.rows, S["mgmtVlan"], S["dhcpPools"], K.views, S["clients"])
  BY DEF Cards
<1>7. /\ C.policy = PolicyCard(ScopeOf(R), R["policySets"], R["policies"], R["radiusGroups"], R["members"], R["assignments"])
      /\ K.policy = PolicyCard(ScopeOf(S), S["policySets"], S["policies"], S["radiusGroups"], S["members"], S["assignments"])
  BY DEF Cards
<1> HIDE DEF R, S, C, K, networks
<1>8. C.views \in {K.views, {}} /\ C.missing \in {K.missing, {}}
  <2>1. Views({}) = {} /\ {v \in Online({}) : v.ip = 0} = {}
    BY DEF Views, Online
  <2>2. CASE R["aps"] = {}
    BY <1>3, <2>1, <2>2
  <2>3. CASE R["aps"] = S["aps"]
    BY <1>3, <2>3
  <2> QED BY <1>1, <2>2, <2>3
<1>9. \A r \in C.rows : \E q \in K.rows : r.vlans \subseteq q.vlans
  BY <1>1, <1>4, FewerVlans
<1>10. Cardinality({v.mgmt : v \in K.views} \ {0}) \in Nat
  <2> DEFINE seen == {v.mgmt : v \in K.views}
             of == [a \in S["aps"] |-> View(a).mgmt]
  <2>1. IsFiniteSet(S["aps"])
    <3>1. S["aps"] = scene.aps
      BY ReadOrEmpty DEF S, Reads
    <3> QED BY <3>1, ReadingAssumption DEF SceneKnown
  <2>2. of \in Surjection(S["aps"], seen)
    BY <1>3 DEF Views, Surjection
  <2> HIDE DEF of, seen
  <2>3. IsFiniteSet(seen)
    BY <2>1, <2>2, FS_Surjection
  <2>4. IsFiniteSet(seen \ {0})
    BY <2>3, FS_Difference
  <2> QED BY <2>4, FS_CardinalityType DEF seen
<1>11. \A r \in C.pools : \E q \in K.pools : q.id = r.id /\ q.set = r.set /\ (r.count = 0 => q.count = 0)
  <2>1. R["identityGroups"].rows \in {S["identityGroups"].rows, {}}
    BY IdentityReads DEF R, S
  <2>2. ASSUME NEW r \in C.pools
        PROVE  /\ r.count = R["counts"][r.id] /\ \E p \in S["dpskPools"] : p.id = r.id
               /\ \E q \in K.pools : q.id = r.id /\ q.set = r.set /\ q.count = S["counts"][r.id]
    <3>1. r \in PoolsOf(R) /\ K.pools = PoolsOf(S)
      BY <1>4
    <3>2. /\ R["dpskPools"] \in {S["dpskPools"], {}}
          /\ R["activations"] \in {S["activations"], {}}
      BY <1>1
    <3>3. /\ r.count = R["counts"][r.id] /\ \E p \in S["dpskPools"] : p.id = r.id
          /\ \E q \in PoolsOf(S) : q.id = r.id /\ q.set = r.set /\ q.count = S["counts"][r.id]
      BY <2>1, <3>1, <3>2, FewerPools
    <3> QED BY <3>1, <3>3
  <2>3. \A p \in S["dpskPools"] : R["counts"][p.id] = 0 => S["counts"][p.id] = 0
    BY IdentityReads DEF R, S, Unread
  <2> QED BY <2>2, <2>3
<1>12. ScopeOf(R) \subseteq ScopeOf(S)
  <2> DEFINE others(raw) == OtherGroups(raw["dpskPools"], raw["identityGroups"].rows, networks(raw))
  <2>1. /\ ScopeOf(R) = ScopedSets(C.pools, others(R), R["policySets"])
        /\ ScopeOf(S) = ScopedSets(K.pools, others(S), S["policySets"])
    BY <1>4 DEF ScopeOf, networks
  <2>2. \A g \in others(R) : g.set = NoSet
    BY DEF OtherGroups
  <2> HIDE DEF others
  <2> QED BY <1>1, <1>11, <2>1, <2>2, NarrowerScope
<1>13. /\ Backed(ApsOnline(C.views), ApsOnline(K.views))
       /\ Backed(ApsProvisioned(C.views), ApsProvisioned(K.views))
       /\ Backed(Naming(C.views), Naming(K.views))
       /\ Backed(MeshFallback(C.views), MeshFallback(K.views))
       /\ Backed(Placement(C.views), Placement(K.views))
       /\ Backed(Uptime(C.views), Uptime(K.views))
       /\ Backed(Firmware("ap-firmware", C.views), Firmware("ap-firmware", K.views))
  BY <1>8, DevicesBacked
<1>14. /\ Backed(SwitchesOnline(C.switches), SwitchesOnline(K.switches))
       /\ Backed(ConfigSync(C.switches), ConfigSync(K.switches))
       /\ Backed(Firmware("switch-firmware", C.switches), Firmware("switch-firmware", K.switches))
  BY <1>1, <1>3, DevicesBacked
<1>15. Backed(PoeBudget(C.poe), PoeBudget(K.poe)) /\ Backed(UplinkSpeed(C.poe), UplinkSpeed(K.poe))
  <2>1. C.views \in {K.views, {}} /\ R["switches"] \in {S["switches"], {}}
    BY <1>1, <1>8
  <2>2. \A p, P : /\ Backed(PoeBudget(PoeCard(R["switches"], p, C.views)), PoeBudget(PoeCard(S["switches"], P, K.views)))
                  /\ Backed(UplinkSpeed(PoeCard(R["switches"], p, C.views)), UplinkSpeed(PoeCard(S["switches"], P, K.views)))
    BY <2>1, PoeBacked
  <2> QED BY <1>5, <2>2
<1>16. Backed(PortErrors(C.ports), PortErrors(K.ports)) /\ Backed(LinkSpeed(C.ports), LinkSpeed(K.ports))
  <2>1. \A P, V, Z : \A p \in {P, {}}, v \in {V, {}}, z \in {Z, {}} :
            Backed(PortErrors(PortCard(p, v, z)), PortErrors(PortCard(P, V, Z))) /\ Backed(LinkSpeed(PortCard(p, v, z)), LinkSpeed(PortCard(P, V, Z)))
    BY PortsBacked
  <2>2. R["ports"] \in {S["ports"], {}} /\ C.views \in {K.views, {}} /\ R["switches"] \in {S["switches"], {}}
    BY <1>1, <1>8
  <2>3. /\ Backed(PortErrors(PortCard(R["ports"], C.views, R["switches"])), PortErrors(PortCard(S["ports"], K.views, S["switches"])))
        /\ Backed(LinkSpeed(PortCard(R["ports"], C.views, R["switches"])), LinkSpeed(PortCard(S["ports"], K.views, S["switches"])))
    BY <2>1, <2>2
  <2> QED BY <1>5, <2>3
<1>17. Backed(DhcpPools(C.dhcp), DhcpPools(K.dhcp))
  BY <1>1, <1>3, DhcpBacked
<1>18. Backed(ApAddressing(C.subnets, C.missing), ApAddressing(K.subnets, K.missing)) /\ Backed(ExternalIp(C.external), ExternalIp(K.external))
  BY <1>8, AddressesBacked
<1>19. Backed(ChannelPlan24(C.plan), ChannelPlan24(K.plan))
  BY <1>1, <1>4, ChannelsBacked
<1>20. Backed(SsidVlansCarried(C.vlans), SsidVlansCarried(K.vlans)) /\ Backed(ManagementVlan(C.vlans), ManagementVlan(K.vlans))
  <2>1. R["mgmtVlan"] \in {S["mgmtVlan"], 0}
    BY IdentityReads DEF R, S
  <2>2. FewerVlansIn(C.rows, K.rows) /\ Countable(K.views)
    BY <1>9, <1>10 DEF FewerVlansIn, Countable
  <2>3. R["ports"] \in {S["ports"], {}}
    BY <1>1
  <2>4. C.views \in {K.views, {}}
    BY <1>8
  <2> QED BY <1>6, <2>1, <2>2, <2>3, <2>4, VlansBacked
<1>21. Backed(DpskInUse(C.pools), DpskInUse(K.pools)) /\ Backed(DpskPassphrases(C.pools), DpskPassphrases(K.pools))
  BY <1>11, PoolsBacked
<1>22. Backed(RadiusOrphans(C.policy), RadiusOrphans(K.policy))
  <2>1. /\ \A s \in S["policySets"] : R["members"][s.id] \in {S["members"][s.id], {}}
        /\ \A g \in S["radiusGroups"] : R["assignments"][g.id] \in {S["assignments"][g.id], {}}
    BY IdentityReads DEF R, S
  <2> DEFINE card == PolicyCard(ScopeOf(R), R["policySets"], R["policies"], R["radiusGroups"], R["members"], R["assignments"])
             known == PolicyCard(ScopeOf(S), S["policySets"], S["policies"], S["radiusGroups"], S["members"], S["assignments"])
  <2>2. Backed(RadiusOrphans(card), RadiusOrphans(known))
    BY <1>1, <1>12, <2>1, RadiusBacked
  <2> QED BY <1>7, <2>2
<1>23. f \notin {SsidsActivated(C.rows), SsidsCarrying(C.rows), SsidsBroadcasting(C.rows, C.views), UndeclaredVlans(C.vlans),
                 SsidsPerGroup(C.perGroup), SsidScope(C.rows, C.views, C.truncated), PolicyChain(C.policy),
                 PolicySetPopulated(C.policy), DpskIdentityGroups(C.pools, C.complete), FloorPlans(C.plans),
                 ClientsPresent(C.views, C.clients)}
  BY ChecksKnown
<1>24. f \in Checks(C)
  BY DEF C
<1>25. \E g \in Checks(K) : Backed(f, g)
  BY <1>13, <1>14, <1>15, <1>16, <1>17, <1>18, <1>19, <1>20, <1>21, <1>22, <1>23, <1>24 DEF Checks
<1> QED BY <1>25 DEF K

\* Whichever reads failed, none of the checks that do not take an empty answer for
\* an empty venue raises an alarm the venue does not deserve, or names a row it would
\* not name (collect.py's gather() and every check of checks.py).
THEOREM AlarmsAreTrue == Spec => []NoFalseAlarm
<1>1. SceneKnown => NoFalseAlarm
  <2> DEFINE C == Checks(Cards(scene, lost))
             K == Checks(Cards(scene, {}))
  <2> SUFFICES ASSUME SceneKnown, NEW f \in Alarms(Found(scene, lost))
               PROVE  \E g \in Alarms(Found(scene, {})) :
                        g.check = f.check /\ (f.severity = "critical" => g.severity = "critical") /\ f.evidence \subseteq g.evidence
    BY DEF NoFalseAlarm
  <2>1. Found(scene, lost) = RunChecks(C, scene.broken) /\ Found(scene, {}) = RunChecks(K, scene.broken)
    BY DEF Found
  <2>2. f \in RunChecks(C, scene.broken) /\ f.check \notin Takers /\ f.severity \in {"critical", "warning"}
    BY <2>1 DEF Alarms
  <2> HIDE DEF C, K
  <2>3. f \in C /\ f.check \notin scene.broken
    BY <2>2 DEF RunChecks, Crashed
  <2>4. PICK g \in K : Backed(f, g)
    BY <2>2, <2>3, FindingsBacked DEF C, K
  <2>5. /\ g.check = f.check /\ g.severity \in {"critical", "warning"}
        /\ f.severity = "critical" => g.severity = "critical"
        /\ f.evidence \subseteq g.evidence
    BY <2>2, <2>4 DEF Backed
  <2>6. g \in RunChecks(K, scene.broken)
    BY <2>3, <2>5 DEF RunChecks
  <2>7. g \in Alarms(Found(scene, {}))
    BY <2>1, <2>2, <2>5, <2>6 DEF Alarms
  <2> QED BY <2>5, <2>7
<1> QED BY <1>1, SceneStays, PTL
============================================================================
