CONSTANTS
    o1 = o1  o2 = o2  x1 = x1  x2 = x2  c1 = c1  w1 = w1  w2 = w2  r1 = r1
    Orgs = {o1}
    Plans = {"PRO"}
    Trial = "PRO"
    NoPlan = "none"
    InitialTier <- MCTrial
    Seeded = {o1}
    Orders = {x1, x2}
    Checkouts = {c1}
    Hooks = {w1, w2}
    Readers = {}
    LogsFailures = FALSE
    Kinds = {"settlement", "expire"}
    Faults = {"Settle", "CreatePaymentTransaction", "UpdateWebhookStatus"}
    MaxErrors = 2
    MaxBoots = 1
    MaxGrants = 0
    MaxTime = 1
SPECIFICATION FairSpec
PROPERTY EveryPaymentSettles
CHECK_DEADLOCK FALSE
