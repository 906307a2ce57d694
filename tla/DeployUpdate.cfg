\* Runs that race for the lock, people who edit under a run
SPECIFICATION FairSpec
CONSTANTS
    t = t  h = h  g1 = g1  g2 = g2  sick = sick  broken = broken
    f1 = f1  f2 = f2  f3 = f3  f4 = f4  f5 = f5
    Timer = t
    Runs <- MCRuns
    Commits <- MCCommits
    Good <- MCGood
    Builds <- MCBuilds
    NoLabel = NoLabel
    Files <- MCFiles
    NoFile = NoFile
    Nobody = Nobody
    AllowDirty = FALSE
    AllowUnhealthy = FALSE
    Orphans = TRUE
    MaxTrouble = 2
    MaxHand = 2
INVARIANTS
    OneDeployAtATime
PROPERTIES
    EditsKept
    EndsServing
    CatchesUp
CHECK_DEADLOCK FALSE
