------------------------------ MODULE Findings ------------------------------
(* What a check returns, the run over every check and the punch list that  *)
(* re-cuts it by trade (checks.py, punchlist.py).                          *)
EXTENDS Integers, FiniteSets

\* One finding: the check, what it found and the rows it names.  A check that
\* errored is known by its function's name, so no id in use elsewhere is its own.
Finding(check, severity, evidence) ==
    [check |-> check, severity |-> severity, evidence |-> evidence, crashed |-> FALSE]
Crashed(check) == [check |-> check, severity |-> "skipped", evidence |-> {}, crashed |-> TRUE]
\* The three ways most checks end: nothing to look at, something bad, all well.
Judged(check, nothing, bad, severity) ==
    CASE nothing      -> Finding(check, "skipped", {})
      [] ~nothing /\ bad # {} -> Finding(check, severity, bad)
      [] OTHER        -> Finding(check, "ok", {})

\* run_checks(): a broken check is a finding, not the end of the report.
RunChecks(findings, broken) ==
    {IF f.check \in broken THEN Crashed(f.check) ELSE f : f \in findings}
Tally(findings) ==
    [s \in {"critical", "warning", "info", "ok", "skipped"} |->
        Cardinality({f \in findings : f.severity = s})]
\* verification: the findings with the two tallies over them.
Verification(findings) == [findings |-> findings, counts |-> Tally(findings)]

---------------------------------------------------------------------------
Category == [
    devices |-> {"aps-online", "switches-online", "aps-provisioned", "ap-firmware", "switch-firmware", "switch-config-sync"},
    cabling |-> {"port-errors", "ap-uplink-speed", "port-link-speed", "ap-mesh-fallback"},
    power |-> {"poe-budget", "ap-uptime"},
    wireless |-> {"ssids-activated", "ssids-broadcasting", "ssids-carrying", "ssid-scope", "ssid-vlan-carried",
                  "ap-group-ssid-limit", "24ghz-channel-plan", "clients-present"},
    network |-> {"mgmt-vlan", "ap-addressing", "undeclared-vlans", "dhcp-pools", "external-ip"},
    identity |-> {"dpsk-in-use", "dpsk-passphrases", "dpsk-identity-groups", "policy-chain", "policy-set-empty",
                  "radius-group-orphans"},
    documentation |-> {"ap-naming", "ap-placement"}]
Trades == DOMAIN Category
\* A check the map does not know lands in "devices".
TradeOf(f) ==
    IF ~f.crashed /\ \E t \in Trades : f.check \in Category[t]
    THEN CHOOSE t \in Trades : f.check \in Category[t] ELSE "devices"

Tasks(findings) ==
    {f \in findings : f.severity \in {"critical", "warning", "info"} /\ f.check # "floorplans"}
\* The devices a group of tasks takes a crew to: rows that name an AP or a switch.
Visits(tasks) == {row \in UNION {t.evidence : t \in tasks} : row[1] \in {"ap", "switch"}}
PunchList(findings) ==
    [tasks   |-> Tasks(findings),
     groups  |-> {t \in Trades : \E f \in Tasks(findings) : TradeOf(f) = t},
     devices |-> [t \in Trades |-> Visits({f \in Tasks(findings) : TradeOf(f) = t})],
     passed  |-> Cardinality({f \in findings : f.severity = "ok"}),
     skipped |-> {f \in findings : f.severity = "skipped"}]
NoPunchList == PunchList({})
============================================================================
