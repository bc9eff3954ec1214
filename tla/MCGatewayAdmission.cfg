SPECIFICATION AdmissionSpec
CONSTANTS
    Null = Null
    Bases <- SomeBases
    Policies <- SomePolicies
    Arrivals <- SomeRequests
    Tenants <- SomeTenants
\* A gateway whose configuration is refused does not start.
CHECK_DEADLOCK FALSE
INVARIANTS  TenantProven DenialsHold
