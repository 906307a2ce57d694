\* Liveness of one loop over two venues.
SPECIFICATION FairSpec
CONSTANTS
    r1 = r1  r2 = r2  v1 = v1  v2 = v2
    Runs <- MCOneRun
    Venues <- MCVenues
    Listings <- MCListings
    Outcomes <- MCOutcomes
    Workers = 2
    MaxRuns = 1
    MaxTrouble = 1
    MaxQuiet = 1
PROPERTIES
    LoopEnds
    RunsSettle
CHECK_DEADLOCK FALSE
