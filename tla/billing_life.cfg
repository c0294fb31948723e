SPECIFICATION FairSpec
CONSTANTS
    p1 = p1  p2 = p2  o1 = o1  o2 = o2  k1 = k1  k2 = k2   s1 = s1  i1 = i1
    UnknownPayment = UnknownPayment
    None = None
    Requirements = {p1, p2}
    Shared = {p1}
    Organisations = {o1}
    RequirementOrg <- Mine
    Keys = {k1}
    KeyPayment <- EveryKey
    Subscriptions = {s1}
    Invoices = {i1}
    Events = {1, 2, 3, 4}
    EventOf <- Life
    Workers = {1, 2}
    BatchLimit = 2
    TargetToggles = TRUE
    MaxFaults = 1
INVARIANTS BillingInv
PROPERTIES AppliedOnce EventuallyAcked
