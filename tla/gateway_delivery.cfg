SPECIFICATION FairSpec
CONSTANTS
    b1 = b1
    b2 = b2
    s1 = s1
    rtA = rtA
    rtB = rtB
    tShared = tShared
    tOwnA = tOwnA
    acme = acme
    bolt = bolt
    NoRoute = NoRoute
    NoTarget = NoTarget
    NoOwner = NoOwner
    Requests = {b2, s1}
    Streaming = {s1}
    Routes = {rtA, rtB}
    Targets = {tShared, tOwnA}
    Organisations = {acme, bolt}
    RouteOf <- MCRouteOf
    RouteOrg <- MCRouteOrg
    TargetOwner <- MCTargetOwner
    MaxAttempts <- MCTwoAttempts
    InitialTarget <- MCInitial
    MaxGeneration = 2
    FailureClasses = {"upstream_timeout"}
    ReportedUsage = {"final"}
    ProbeStatuses = {}
    Toggled = {}
    MaxFaults = 1
INVARIANTS
    DeliveredIsMetered
    BindingStable
    TenantIsolation
    GatewayInv
PROPERTIES
    HandlerEnds
    MeteredSpec
CHECK_DEADLOCK FALSE
