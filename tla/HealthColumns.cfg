CONSTANTS
    t1 = t1  t2 = t2  d1 = d1  w1 = w1  h1 = h1  h2 = h2
    Targets = {t1}
    Seeded = {t1}
    Dispatchers = {d1}
    Webhooks = {w1}
    Pollers = {}
    Checkers = {h1}
    Verdicts <- AllVerdicts
    CheckLimit = 1
    CheckFailures = 2
    CheckAge = 1
    MaxFailures = 3
    Outcomes <- ScrapeOutcomes
    BreakerLimit = 2
    Interval = 1
    PendingAge = 0
    DueLimit = 1
    PollLimit = 1
    AdminOps = {"CreateTarget", "ResetOne", "ResetAll"}
    Faults = {}
    MaxTime = 1
    MaxLogs = 2
    MaxDeliveries = 1
    MaxCrashes = 1
    MaxResets = 1
    Backoff <- MCBackoff
SPECIFICATION HealthSpec
INVARIANTS BreakerColumnsAgree
PROPERTY OffStaysOff
CHECK_DEADLOCK FALSE
