SPECIFICATION Spec
CONSTANTS
    Models = {m1}
    Workers = {w1, w2}
    Requests = {r1, r2}
    Formats = {"ifc"}
    Contents = {"clean", "infected"}
    NChunks = 2
    Enabled = {"crash", "soft", "soft_lost", "sweep"}
    MaxCrashes = 1
    NoModel = NoModel
SYMMETRY Symmetry
INVARIANTS ConversionMutex InfectedNeverReady ReadyIsComplete
CHECK_DEADLOCK FALSE
