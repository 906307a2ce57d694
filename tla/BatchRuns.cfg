\* Safety of the run record against lost answers, failed saves, restarts, a
\* damaged file and a run dropped while it is driven.
SPECIFICATION Spec
CONSTANTS
    r1 = r1  r2 = r2  v1 = v1  v2 = v2
    Runs <- MCRuns
    Venues <- MCVenues
    Listings <- MCListings
    Outcomes <- MCOutcomes
    Workers = 2
    MaxRuns = 1
    MaxTrouble = 2
    MaxQuiet = 0
INVARIANTS
    LastCompleteTrusted
    ToldMeansKept
PROPERTIES
    HistoryKept
CHECK_DEADLOCK FALSE
SYMMETRY MCSymmetry
