SPECIFICATION HookFairSpec
CONSTANTS
    Hooks = {h1}
    Workers = {w1, w2}
    MaxRetries = 2
    MaxJobs = 1
    MaxCrashes = 0
    HookFaults = {}
PROPERTY AnnotationEventsEnd
CHECK_DEADLOCK FALSE
