SPECIFICATION FairSpec
CONSTANTS
    Models = {m1}
    Workers = {w1, w2}
    Requests = {r1}
    Formats = {"ifc"}
    Contents = {"clean"}
    NChunks = 1
    Enabled = {"crash"}
    MaxCrashes = 1
    NoModel = NoModel
PROPERTY ProcessingEnds
CHECK_DEADLOCK FALSE
