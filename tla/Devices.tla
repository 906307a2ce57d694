------------------------------ MODULE Devices ------------------------------
(* The devices of a venue as the report shows them, and the checks that    *)
(* read them: state words, naming, mesh, uptime, floor plans (shape.py,     *)
(* checks.py).  A row of R1 is a record with its serial; a report holds     *)
(* sets of views.                                                          *)
EXTENDS Findings

\* The words the status vocabularies are matched by, as the statuses that hold
\* each.  "disconnected" contains "connected": that status is in two of them.
OfflineWords == {"NeverContactedCloud", "DisconnectedFromCloud", "OFFLINE"}
OnlineWords  == {"Operational", "ONLINE", "DisconnectedFromCloud"}
FailedWords  == {"FirmwareUpdateFailed", "ConfigurationUpdateFailed"}
\* _state(): offline is asked first, and a failed update is an AP that serves.
State(status) ==
    CASE status \in OfflineWords -> "offline"
      [] status \in (OnlineWords \cup FailedWords) \ OfflineWords -> "online"
      [] OTHER -> "other"
\* _is_meshing(): a role nobody has seen is left alone.
Meshing(role) == role \in {"MAP", "EMAP", "MESH"}

\* ap_views(): one flat view per row.
View(row) ==
    [row EXCEPT !.state = State(row.status),
                !.failed = row.status \in FailedWords,
                !.meshing = Meshing(row.role)]
Views(aps) == {View(a) : a \in aps}
Online(views) == {v \in views : v.state = "online"}
Offline(views) == {v \in views : v.state = "offline"}
Ap(views) == {<<"ap", v.name>> : v \in views}
Switch(rows) == {<<"switch", s.name>> : s \in rows}

\* inventory_card(): the counts the overview leads with.
Inventory(views) ==
    [total   |-> Cardinality(views),
     online  |-> Cardinality(Online(views)),
     offline |-> Cardinality(Offline(views)),
     other   |-> Cardinality({v \in views : v.state = "other"})]

\* ap_detail_card(): a pointer per AP, the clients joined on by its serial.
Flags(v, clients) ==
    LET mine == {c \in clients : c.ap = v.serial} IN
    {flag \in {"no radios", "mesh", "slow uplink", "heard weakly"} :
        CASE flag = "no radios"   -> v.state = "online" /\ v.radios = {}
          [] flag = "mesh"        -> v.meshing
          [] flag = "slow uplink" -> v.speed \in 1..999
          [] flag = "heard weakly" -> Cardinality(mine) >= 3 /\ \A c \in mine : c.weak}
Detail(views, clients) ==
    {[serial |-> v.serial, seen |-> {c \in clients : c.ap = v.serial}, flags |-> Flags(v, clients)] : v \in views}

---------------------------------------------------------------------------
\* An AP that is not up is offline, or stranded on its way up.
ApsOnline(views) ==
    LET stranded == {v \in views : v.state \notin {"online", "offline"}} IN
    CASE views = {} -> Finding("aps-online", "skipped", {})
      [] Offline(views) # {} -> Finding("aps-online", "critical", Ap(Offline(views)))
      [] views # {} /\ Offline(views) = {} /\ stranded # {} -> Finding("aps-online", "warning", Ap(stranded))
      [] OTHER -> Finding("aps-online", "ok", {})
ApsProvisioned(views) ==
    Judged("aps-provisioned", views = {}, Ap({v \in views : v.failed \/ v.state = "other"}), "warning")
SwitchesOnline(switches) ==
    Judged("switches-online", switches = {}, Switch({s \in switches : State(s.status) # "online"}), "critical")
\* _firmware_check(): rows with no version are left out of the tally.
Firmware(check, rows) ==
    LET versions == {r.firmware : r \in rows} \ {""} IN
    Judged(check, versions = {},
           IF Cardinality(versions) > 1 THEN {<<"version", v>> : v \in versions} ELSE {}, "warning")
ConfigSync(switches) ==
    Judged("switch-config-sync", switches = {}, Switch({s \in switches : ~s.synced}), "warning")
MeshFallback(views) ==
    Judged("ap-mesh-fallback", views = {}, Ap({v \in views : v.meshing}), "warning")

\* The element in the middle of the sorted uptimes, as sorted(...)[n // 2] has it.
Settled == 86400
Recent  == 3600
Middle(rows) ==
    CHOOSE u \in {r.uptime : r \in rows} :
        /\ Cardinality({r \in rows : r.uptime < u}) <= Cardinality(rows) \div 2
        /\ Cardinality({r \in rows : r.uptime <= u}) > Cardinality(rows) \div 2
Uptime(views) ==
    LET rows == {v \in Online(views) : v.uptime > 0} IN
    IF Cardinality(rows) < 3 \/ Middle(rows) < Settled
    THEN Finding("ap-uptime", "skipped", {})
    ELSE Judged("ap-uptime", FALSE, Ap({v \in rows : v.uptime < Recent}), "warning")

\* floorplan_summary() and its check: a plan, its scale, its image, in that order.
FloorPlans(plans) ==
    LET named(ps) == {<<"floorPlan", p.name>> : p \in ps}
        unscaled == {p \in plans : ~p.scaled}
        blank == {p \in plans : ~p.image}
    IN  CASE plans = {} -> Finding("floorplans", "warning", {})
          [] unscaled # {} -> Finding("floorplans", "warning", named(unscaled))
          [] plans # {} /\ unscaled = {} /\ blank # {} -> Finding("floorplans", "info", named(blank))
          [] OTHER -> Finding("floorplans", "ok", {})
Placement(views) == Judged("ap-placement", views = {}, Ap({v \in views : ~v.placed}), "info")
\* A name that is missing, or is the serial again, or is worn twice.
Naming(views) ==
    Judged("ap-naming", views = {},
           Ap({v \in views : \/ v.name \in {"", v.serial}
                             \/ \E w \in views : w.serial # v.serial /\ w.name = v.name}), "warning")
ClientsPresent(views, clients) ==
    CASE Online(views) = {} -> Finding("clients-present", "skipped", {})
      [] Online(views) # {} /\ clients = {} -> Finding("clients-present", "warning", {})
      [] OTHER -> Finding("clients-present", "ok", {})
============================================================================
