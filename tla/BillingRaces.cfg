CONSTANTS
    o1 = o1  o2 = o2  x1 = x1  x2 = x2  c1 = c1  w1 = w1  w2 = w2  r1 = r1
    Orgs = {o2}
    Plans = {"PRO", "ENTERPRISE"}
    Trial = "PRO"
    NoPlan = "none"
    InitialTier <- MCTier
    Seeded = {o2}
    Orders = {x1, x2}
    Checkouts = {c1}
    Hooks = {w1, w2}
    Readers = {r1}
    LogsFailures = TRUE
    Kinds <- VAKinds
    Faults = {"Settle", "Gateway", "CreatePaymentTransaction", "UpdateTier"}
    MaxErrors = 1
    MaxBoots = 1
    MaxGrants = 1
    MaxTime = 0
SPECIFICATION Spec
INVARIANTS PaidWasReported PayableIsRecorded
PROPERTY KeepsPromise
SYMMETRY Symmetry
CHECK_DEADLOCK FALSE
