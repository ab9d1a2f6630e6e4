CONSTANTS
    o1 = o1  o2 = o2  x1 = x1  x2 = x2  c1 = c1  w1 = w1  w2 = w2  r1 = r1
    Orgs = {o1}
    Plans = {"PRO", "ENTERPRISE"}
    Trial = "PRO"
    NoPlan = "none"
    InitialTier <- MCTier
    Seeded = {o1}
    Orders = {x1, x2}
    Checkouts = {c1}
    Hooks = {w1}
    Readers = {}
    LogsFailures = TRUE
    Kinds = {"settlement"}
    Faults = {}
    MaxErrors = 0
    MaxBoots = 0
    MaxGrants = 0
    MaxTime = 0
SPECIFICATION Spec
PROPERTY SettledOnce
CHECK_DEADLOCK FALSE
