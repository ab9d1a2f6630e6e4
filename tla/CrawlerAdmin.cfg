CONSTANTS
    t1 = t1  t2 = t2  d1 = d1  d2 = d2  w1 = w1  w2 = w2  p1 = p1  p2 = p2
    Targets = {t1}
    Seeded = {t1}
    Dispatchers = {d1}
    Webhooks = {w1, w2}
    Pollers = {}
    Outcomes <- BreakerOutcomes
    BreakerLimit = 2
    Interval = 1
    PendingAge = 0
    DueLimit = 2
    PollLimit = 2
    AdminOps = {"CreateTarget", "ResetOne", "ResetAll"}
    Faults = {"UpdateTarget", "UpdateLogStatus", "Enqueue"}
    MaxTime = 1
    MaxLogs = 2
    MaxDeliveries = 2
    MaxCrashes = 1
    MaxResets = 1
    Backoff <- MCBackoff
SPECIFICATION Spec
INVARIANTS HealthDerivable EachReportOnce
SYMMETRY Symmetry
