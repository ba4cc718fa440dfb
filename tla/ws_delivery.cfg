SPECIFICATION Spec
CONSTANTS
    c1 = c1
    c2 = c2
    c3 = c3
    u1 = u1
    u2 = u2
    p1 = p1
    p2 = p2
    m1 = m1
    m2 = m2
    Conns = {c1, c2, c3}
    Users = {u1, u2}
    Models = {m1}
    Procs = {p1, p2}
    User <- SecondTab
    Proc <- TwoReplicas
    Access <- FullAccess
    MAX_PENDING_MESSAGES = 1
    MaxSent = 2
    MaxEvents = 1
    Enabled = {"redis"}
    NoModel = NoModel
    NoConn = NoConn
INVARIANT DeliveredOnce
CHECK_DEADLOCK FALSE
