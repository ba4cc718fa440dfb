SPECIFICATION ClientsSpec
CONSTANTS
    h1 = h1
    h2 = h2
    h3 = h3
    q1 = q1
    q2 = q2
    Hooks = {h1}
    Workers = {q1, q2}
    MaxRetries = 2
    MaxJobs = 1
    MaxCrashes = 1
    HookFaults = {"db", "log", "broker", "edit"}
    Procs = {q1, q2}
    Hits = {h1, h2, h3}
    OnProc <- TwoProcs
    Users = {"u1", "vip"}
    Plan <- Plans
    ApiKeys = {"k1", "guess"}
    KeyOwner <- Owners
    Addresses = {"ip1"}
    Sent <- Traffic
    PlanLimit <- Limits
    AuthLimit = 1
    Quota <- Quotas
    MaxHour = 1
    MaxHits = 3
    LimitFaults = {"redis", "format"}
    Links = {l1, l2}
    Readers = {r1, r2}
    RowIds = {1, 2, 3, 4}
    Times = {1, 2}
    PageLimits = {1, 2}
    NoCursor = NoCursor
    Sizes = {0, 1, 2, 3, 4, 5, 6, 7}
    MaxFiles = 2
    MaxBytes = 2
INVARIANTS
    NoExtraCopies AttemptsBounded AcceptedIsLogged
    RateLimitHolds  QuotaOvershoot CountersExpire
    RevokedStaysHidden SharedReadyHasChunks
    NoRowTwice SteadySeen
    PartsJoin PartsFit
PROPERTY PipelineEventsEnd
CHECK_DEADLOCK FALSE
