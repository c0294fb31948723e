SPECIFICATION Spec
CONSTANTS
    b1 = b1
    b2 = b2
    s1 = s1
    rtA = rtA
    rtB = rtB
    tShared = tShared
    tOwnA = tOwnA
    acme = acme
    bolt = bolt
    NoRoute = NoRoute
    NoTarget = NoTarget
    NoOwner = NoOwner
    Requests = {b1}
    Streaming = {}
    Routes = {rtA}
    Targets = {tShared}
    Organisations = {acme, bolt}
    RouteOf <- MCRouteOf
    RouteOrg <- MCRouteOrg
    TargetOwner <- MCTargetOwner
    MaxAttempts <- MCMaxAttempts
    InitialTarget <- MCInitial
    MaxGeneration = 1
    FailureClasses = {"upstream_rejected", "upstream_rate_limited", "upstream_unavailable", "target_configuration", "upstream_error", "invalid_upstream_response", "upstream_response_too_large", "upstream_timeout", "upstream_transport"}
    ReportedUsage = {"unknown", "total_only", "partial", "final"}
    ProbeStatuses = {"unavailable", "operational"}
    Toggled = {rtA}
    MaxFaults = 2
INVARIANTS
    AttemptHistory
    AttemptAccepted
    StrandedOnlyByFault
PROPERTIES
    HealthEvidence
CHECK_DEADLOCK FALSE
