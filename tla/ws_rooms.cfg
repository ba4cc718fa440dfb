SPECIFICATION FairSpec
CONSTANTS
    c1 = c1
    c2 = c2
    c3 = c3
    u1 = u1
    u2 = u2
    p1 = p1
    p2 = p2
    m1 = m1
    m2 = m2
    Conns = {c1, c2}
    Users = {u1, u2}
    Models = {m1, m2}
    Procs = {p1}
    User <- TwoUsers
    Proc <- OneReplica
    Access <- PartialAccess
    MAX_PENDING_MESSAGES = 1
    MaxSent = 2
    MaxEvents = 0
    Enabled = {"api", "subscribe", "error", "heartbeat", "close"}
    NoModel = NoModel
    NoConn = NoConn
INVARIANTS TypeOK RoomsAgree OnlyAuthorized ActiveIsSubscribed
PROPERTY ClosedIsForgotten
CHECK_DEADLOCK FALSE
