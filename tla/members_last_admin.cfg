SPECIFICATION Spec
CONSTANTS
    Users = {u1, u2, u3}
    Requests = {r1, r2}
    NoUser = NoUser
INVARIANT AlwaysAnAdmin
CHECK_DEADLOCK FALSE
