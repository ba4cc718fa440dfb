SPECIFICATION Spec
CONSTANTS
    Models = {m1}
    Workers = {w1, w2}
    Requests = {r1}
    Formats = {"ifc", "gltf", "step", "obj", "stl"}
    Contents = {"clean", "infected", "mismatch"}
    NChunks = 2
    Enabled = {"delete", "storage", "content", "size", "clamd", "hard", "broker", "publish", "db"}
    MaxCrashes = 0
    NoModel = NoModel
INVARIANTS TypeOK ReadyIsComplete
PROPERTY StatusFlow
CHECK_DEADLOCK FALSE
