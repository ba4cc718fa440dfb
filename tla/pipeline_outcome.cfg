SPECIFICATION FairSpec
CONSTANTS
    Models = {m1}
    Workers = {w1, w2}
    Requests = {r1}
    Formats = {"ifc", "gltf"}
    Contents = {"clean", "infected", "mismatch"}
    NChunks = 2
    Enabled = {"delete", "late_put", "content", "size", "soft", "soft_lock", "webhook", "redis_acquire", "redis_release"}
    MaxCrashes = 0
    NoModel = NoModel
INVARIANT OutcomeIsPublished
PROPERTY ProcessingEnds
CHECK_DEADLOCK FALSE
