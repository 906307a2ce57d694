------------------------------- MODULE Advice -------------------------------
(* The recommended configuration an admin keeps (baselines.py), and the     *)
(* rows of the config tab compared with it: each network of a venue against  *)
(* its group's opinion or the default, like ones shown once (shape.py).      *)
EXTENDS Integers, FiniteSets, Functions

CONSTANTS
    VlanKeys, DpskKeys,     \* the settings under a name that holds vlan, and dpsk
    PassphraseKeys,         \* those under passphrase, and ids and descriptions in the tree
    BuriedKeys              \* those of VlanKeys and DpskKeys in a list, or under a name of their own that holds neither

\* A section holds what it recommends, by key, and the keys it was reviewed for and
\* recommends nothing.  A level is where R1 has the setting; groups are of networks.
Levels  == {"venue", "apgroup", "network"}
NoGroup == ""
Nothing == [values |-> <<>>, na |-> {}]

\* Baseline.save(): the document replaces the file whole, a value beats an N.A.  A
\* group without an id is dropped, and of two with one id the later: those left keep
\* their places.
CleanSection(s) == [s EXCEPT !.na = @ \ DOMAIN s.values]
FirstOf(places) == CHOOSE i \in places : \A j \in places : i <= j
CleanGroups(groups) ==
    LET kept == {i \in DOMAIN groups :
                    groups[i].id # NoGroup /\ \A j \in DOMAIN groups : j < i => groups[j].id # groups[i].id}
    IN  [i \in kept |-> [groups[i] EXCEPT !.section = CleanSection(@)]]
Save(doc) ==
    [flat |-> FALSE, levels |-> [l \in Levels |-> CleanSection(doc.levels[l])], groups |-> doc.groups]
\* _read_levels and _read_groups: a file from before the levels is the venue's.
ReadBack(file) ==
    [levels |-> [l \in Levels |-> IF file.flat /\ l # "venue" THEN Nothing ELSE file.levels[l]],
     groups |-> CleanGroups(file.groups)]

\* A rule that is not understood covers no network.
Covers(match, n) ==
    CASE match.by = "ids"  -> n.id \in match.of
      [] match.by = "type" -> n.kind \in match.of
      [] match.by = "name" -> {n.name, n.ssid} \cap match.of # {}
      [] OTHER -> FALSE
\* match_group(): the order is the admin's precedence.
GroupFor(org, n) ==
    LET hits == {i \in DOMAIN org.groups : Covers(org.groups[i].match, n)} IN
    IF hits = {} THEN NoGroup ELSE org.groups[FirstOf(hits)].id
Says(section, key) ==
    CASE key \in DOMAIN section.values -> [said |-> "value", value |-> section.values[key]]
      [] key \notin DOMAIN section.values /\ key \in section.na -> [said |-> "not applicable"]
      [] OTHER -> [said |-> "nothing"]
\* _group_opinion(): a group overrides key by key, and only at the network level.
MutOrgSays(org, key, level, gid) ==
    LET of == {g \in Range(org.groups) : level = "network" /\ g.id = gid} IN
    IF of # {} THEN Says((CHOOSE g \in of : TRUE).section, key) ELSE Says(org.levels[level], key)
OrgSays(org, key, level, gid) ==
    LET of == {g \in Range(org.groups) : level = "network" /\ g.id = gid /\ Says(g.section, key).said # "nothing"} IN
    IF of # {} THEN Says((CHOOSE g \in of : TRUE).section, key) ELSE Says(org.levels[level], key)

\* _config_row(): no column, a dash, or whether the value is the recommended one.
Verdict(opinion, value) ==
    IF opinion.said # "value" THEN opinion.said
    ELSE IF opinion.value = value THEN "matches" ELSE "differs"
ConfigRow(key, value, level, gid, org, ruckus) ==
    [key |-> key, value |-> value, org |-> Verdict(OrgSays(org, key, level, gid), value),
     ruckus |-> Verdict(Says(ruckus[level], key), value)]
ConfigRows(settings, level, gid, org, ruckus) ==
    {ConfigRow(k, settings[k], level, gid, org, ruckus) : k \in DOMAIN settings}

\* config_detail(): networks of one group that differ only in what is a network's
\* own are one cluster, and the first of them is compared for all.  What is stripped
\* is the whole tree under a name; what is compared, the scalars that wear it.
Own == VlanKeys \cup DpskKeys \cup PassphraseKeys
Fingerprint(n) == [k \in DOMAIN n.settings \ Own |-> n.settings[k]]
Varies(members) ==
    LET several(values) == Cardinality(values) > 1
        only(m, keys) == [k \in DOMAIN m.settings \cap keys |-> m.settings[k]]
    IN  {d \in {"SSID", "name", "VLAN", "DPSK"} :
            CASE d = "SSID" -> several({m.ssid : m \in members})
              [] d = "name" -> several({m.name : m \in members})
              [] d = "VLAN" -> several({only(m, VlanKeys \ BuriedKeys) : m \in members})
              [] d = "DPSK" -> several({only(m, DpskKeys \ BuriedKeys) : m \in members})}
Clusters(networks, org, ruckus) ==
    LET bucket(n) == <<GroupFor(org, n), Fingerprint(n)>>
        of(b) == {i \in DOMAIN networks : bucket(networks[i]) = b}
        members(b) == {networks[i] : i \in of(b)}
    IN  {[group |-> b[1], members |-> members(b), varies |-> Varies(members(b)),
          rows |-> ConfigRows(networks[FirstOf(of(b))].settings, "network", b[1], org, ruckus)] :
            b \in {bucket(n) : n \in Range(networks)}}
============================================================================
