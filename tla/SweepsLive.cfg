CONSTANTS
    t1 = t1  t2 = t2  d1 = d1  w1 = w1  h1 = h1  h2 = h2
    Targets = {t1, t2}
    Seeded = {t1, t2}
    Dispatchers = {d1}
    Webhooks = {w1}
    Pollers = {}
    Checkers = {h1, h2}
    Verdicts <- OnlyErrors
    CheckLimit = 1
    CheckFailures = 2
    CheckAge = 1
    MaxFailures = 3
    Outcomes <- ScrapeFailures
    BreakerLimit = 2
    Interval = 1
    PendingAge = 0
    DueLimit = 1
    PollLimit = 1
    AdminOps = {}
    Faults = {}
    MaxTime = 1
    MaxLogs = 1
    MaxDeliveries = 1
    MaxCrashes = 0
    MaxResets = 0
    Backoff <- MCBackoff
    co1 = co1  co2 = co2  link1 = link1  s1 = s1  s2 = s2
    Companies = {co1, co2}
    Links = {link1}
    Passes = {s1, s2}
    PageSize = 1
    MaxEvents = 1
SPECIFICATION SweepsSpec
INVARIANTS ValidIsAccepted
PROPERTIES DeadUrlIsSwitchedOff ErasedOnlyRefused SweepEnds
CHECK_DEADLOCK FALSE
