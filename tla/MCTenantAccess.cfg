CONSTANTS
    c1 = c1
    c2 = c2
    t1 = t1
    t2 = t2
    t3 = t3
    None = None
    Callers = {c1, c2}
    Requests <- MCRequests
    Tenants = {t1, t2, t3}
    Founder = t1
    FounderSlug = "founder"
    PlanDefault = 500
    Override = 7
    EnforceHeader = TRUE
    RateLimit = 2
    Minute = 2
    MaxTime = 2
    MaxRequests = 4
    MaxMishaps = 1
SYMMETRY CallerSymmetry
SPECIFICATION Spec
INVARIANTS
    TenantsComplete
    SettingsKept
    RateBounded
    EffectsAudited
CHECK_DEADLOCK FALSE
