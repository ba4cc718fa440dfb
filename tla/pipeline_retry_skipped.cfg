SPECIFICATION Spec
CONSTANTS
    Models = {m1}
    Workers = {w1, w2}
    Requests = {r1}
    Formats = {"ifc"}
    Contents = {"clean"}
    NChunks = 1
    Enabled = {"storage"}
    MaxCrashes = 0
    NoModel = NoModel
PROPERTY RetryRuns
CHECK_DEADLOCK FALSE
