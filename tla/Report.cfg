\* Two requests at a time on one thread, the token running out as they do.
SPECIFICATION FairReport
CONSTANTS
    Requests = {r1, r2}
    Idle = Idle
    Routes = {"venues", "report", "report.pdf", "config/detail", "identity/trace"}
    Waves <- MCWaves
    Sections = {ssids}
    Detail = detail
    Workers = 1
    Life = 2
    Margin = 1
    MaxAge = 2
INVARIANTS
    MarginHolds
PROPERTIES
    HiddenHonoured
    RequestsEnd
CHECK_DEADLOCK FALSE
