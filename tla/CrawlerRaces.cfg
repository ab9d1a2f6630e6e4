CONSTANTS
    t1 = t1  t2 = t2  d1 = d1  d2 = d2  w1 = w1  w2 = w2  p1 = p1  p2 = p2
    Targets = {t1}
    Seeded = {t1}
    Dispatchers = {d1, d2}
    Webhooks = {w1}
    Pollers = {p1}
    Outcomes <- AllOutcomes
    BreakerLimit = 2
    Interval = 1
    PendingAge = 1
    DueLimit = 2
    PollLimit = 2
    AdminOps = {}
    Faults = {"DispatchTask", "GetTaskStatus"}
    MaxTime = 2
    MaxLogs = 2
    MaxDeliveries = 1
    MaxCrashes = 0
    MaxResets = 0
    Backoff <- MCBackoff
SPECIFICATION Spec
INVARIANTS AcceptedIsLogged CompletedMeansScraped EachReportOnce
SYMMETRY Symmetry
CHECK_DEADLOCK FALSE
