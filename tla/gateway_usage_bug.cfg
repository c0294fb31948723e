SPECIFICATION Spec
CONSTANTS
    b1 = b1
    b2 = b2
    s1 = s1
    rtA = rtA
    rtB = rtB
    tShared = tShared
    tOwnA = tOwnA
    acme = acme
    bolt = bolt
    NoRoute = NoRoute
    NoTarget = NoTarget
    NoOwner = NoOwner
    Requests = {b1}
    Streaming = {}
    Routes = {rtA}
    Targets = {tShared}
    Organisations = {acme, bolt}
    RouteOf <- MCRouteOf
    RouteOrg <- MCRouteOrg
    TargetOwner <- MCTargetOwner
    MaxAttempts <- MCTwoAttempts
    InitialTarget <- MCInitial
    MaxGeneration = 1
    FailureClasses = {"upstream_timeout"}
    ReportedUsage = {"unknown", "total_only", "partial", "final"}
    ProbeStatuses = {}
    Toggled = {}
    MaxFaults = 0
INVARIANTS
    PartialUsageRecorded
CHECK_DEADLOCK FALSE
