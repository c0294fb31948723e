SPECIFICATION Spec
CONSTANTS
    e1 = e1  e2 = e2  e3 = e3
    r1 = r1  r2 = r2  r3 = r3
    q1 = q1  q2 = q2  q3 = q3
    None = None
    Endpoints = {e1, e2, e3}
    OfferKind <- Competing
    Requests = {r1, r2, r3}
    Quotes = {q1, q2}
    MaxUnits = 2
    MaxEdits = 1
SYMMETRY Interchangeable
CHECK_DEADLOCK FALSE
INVARIANTS EndpointInv ReadyHasEvidence AcceptedQuoteValid RouteExclusive
PROPERTY PaidBeforeDeployment
