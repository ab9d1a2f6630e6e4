CONSTANTS
    t1 = t1  t2 = t2  d1 = d1  d2 = d2  w1 = w1  w2 = w2  p1 = p1  p2 = p2
    Targets = {t1}
    Seeded = {t1}
    Dispatchers = {d1}
    Webhooks = {w1}
    Pollers = {p1}
    Outcomes <- FewOutcomes
    BreakerLimit = 2
    Interval = 1
    PendingAge = 1
    DueLimit = 2
    PollLimit = 2
    AdminOps = {}
    Faults = {"CreateLog"}
    MaxTime = 2
    MaxLogs = 2
    MaxDeliveries = 1
    MaxCrashes = 1
    MaxResets = 0
    Backoff <- MCBackoff
SPECIFICATION FairSpec
PROPERTY FinishedIsSettled
CHECK_DEADLOCK FALSE
