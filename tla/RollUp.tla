------------------------------ MODULE RollUp ------------------------------
(* The record of batch checks as one caller may read it, and the sums over *)
(* it: rollup.py.  A snapshot is the directory (the venues each customer   *)
(* was last listed with), the checks on record and the history of runs.    *)
(* restrict() narrows the snapshot once; every figure is computed from     *)
(* what it leaves.                                                         *)
EXTENDS Reach, FiniteSetsExt

CONSTANTS
    Checks,        \* check ids: KNOWN_CHECKS
    NotKept,       \* a summary from before check ids were kept
    NoSummary      \* never checked completely

Severities == {"critical", "warning"}
\* What summarise() keeps of a report: how many tasks of each severity, and
\* which checks they came from.  A task whose id is not known counts, unnamed.
IsSummary(m) ==
    /\ m.counts \in [Severities -> Nat]
    /\ m.named \in {NotKept} \cup [Severities -> SUBSET Checks]
IsRecord(r) ==
    /\ r.complete = NoSummary \/ IsSummary(r.complete)
    /\ r.fresh \in BOOLEAN
    /\ r.attempt \in {"ok", "partial", "failed"}
Pairs == Tenants \X Venues
IsSnapshot(snap) ==
    /\ DOMAIN snap = {"directory", "checks", "runs"}
    /\ DOMAIN snap.directory \subseteq Tenants
    /\ \A t \in DOMAIN snap.directory : snap.directory[t] \subseteq Venues
    /\ DOMAIN snap.checks \subseteq Pairs
    /\ \A q \in DOMAIN snap.checks : IsRecord(snap.checks[q])
    /\ snap.runs \subseteq [tenant: Tenants, planned: SUBSET Venues]

---------------------------------------------------------------------------
\* _strip_checks(): hidden ids leave the lists, the counts stay.
Stripped(summary, hidden) ==
    IF summary = NoSummary \/ hidden = {} THEN summary
    ELSE IF summary.named = NotKept THEN summary
    ELSE [summary EXCEPT !.named = [sev \in Severities |-> @[sev] \ hidden]]
StrippedRecord(r, hidden) == [r EXCEPT !.complete = Stripped(@, hidden)]

\* restrict(): the customers, venues and check ids the caller may see; the
\* history of runs is dropped, because a run's size is a count of the estate.
MutNarrowed(snap, s, hidden) ==
    IF s.unrestricted /\ hidden = {} THEN snap
    ELSE [directory |-> [t \in {u \in DOMAIN snap.directory : AllowsEc(s, u)} |->
                            snap.directory[t]],
          checks |-> [p \in {q \in DOMAIN snap.checks : AllowsVenue(s, q[1], q[2])} |->
                            StrippedRecord(snap.checks[p], hidden)],
          runs |-> IF s.unrestricted THEN snap.runs ELSE {}]
Narrowed(snap, s, hidden) ==
    IF s.unrestricted /\ hidden = {} THEN snap
    ELSE [directory |-> [t \in {u \in DOMAIN snap.directory : AllowsEc(s, u)} |->
                            {v \in snap.directory[t] : AllowsVenue(s, t, v)}],
          checks |-> [p \in {q \in DOMAIN snap.checks : AllowsVenue(s, q[1], q[2])} |->
                            StrippedRecord(snap.checks[p], hidden)],
          runs |-> IF s.unrestricted THEN snap.runs ELSE {}]

---------------------------------------------------------------------------
\* venue_rows(): the venues listed now and those on record
Listed(snap, t) == IF t \in DOMAIN snap.directory THEN snap.directory[t] ELSE {}
OnRecord(snap, t) == {v \in Venues : <<t, v>> \in DOMAIN snap.checks}
Complete(snap, t, v) ==
    IF v \in OnRecord(snap, t) THEN snap.checks[<<t, v>>].complete ELSE NoSummary
VenueRows(snap, t) ==
    {[venue |-> v, listed |-> v \in Listed(snap, t),
      summary |-> Complete(snap, t, v),
      fresh |-> Complete(snap, t, v) # NoSummary /\ snap.checks[<<t, v>>].fresh,
      attempt |-> IF v \in OnRecord(snap, t) THEN snap.checks[<<t, v>>].attempt ELSE "none"]
        : v \in Listed(snap, t) \cup OnRecord(snap, t)}

Count(row, sev) == IF row.summary = NoSummary THEN 0 ELSE row.summary.counts[sev]
Spotless(row) == \A sev \in Severities : Count(row, sev) = 0

\* tenant_rollup(): the totals describe the venues the customer has now
TenantRollup(snap, t) ==
    LET rows == VenueRows(snap, t)
        now == {r \in rows : r.listed}
        checked == {r \in now : r.summary # NoSummary}
    IN  [venueCount |-> Cardinality(now),
         checked |-> Cardinality(checked),
         fresh |-> Cardinality({r \in now : r.fresh}),
         neverChecked |-> Cardinality(now \ checked),
         lastAttemptNotOk |-> Cardinality({r \in now : r.attempt \in {"partial", "failed"}}),
         clean |-> Cardinality({r \in checked : Spotless(r)}),
         totals |-> [sev \in Severities |-> MapThenSumSet(LAMBDA r : Count(r, sev), now)],
         lastRuns |-> {run \in snap.runs : run.tenant = t},
         venues |-> rows]

\* msp_rollup(): every customer on record and those the caller names besides
MspRollup(snap, named) ==
    LET known == named \cup DOMAIN snap.directory
        roll == [t \in known |-> TenantRollup(snap, t)]
    IN  [tenantCount |-> Cardinality(known),
         batched |-> Cardinality({t \in known : roll[t].checked > 0}),
         venueCount |-> MapThenSumSet(LAMBDA t : roll[t].venueCount, known),
         checked |-> MapThenSumSet(LAMBDA t : roll[t].checked, known),
         fresh |-> MapThenSumSet(LAMBDA t : roll[t].fresh, known),
         clean |-> MapThenSumSet(LAMBDA t : roll[t].clean, known),
         totals |-> [sev \in Severities |-> MapThenSumSet(LAMBDA t : roll[t].totals[sev], known)],
         tenants |-> roll]

============================================================================
