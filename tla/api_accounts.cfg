SPECIFICATION AccountsSpec
CONSTANTS
    a1 = a1
    a2 = a2
    a3 = a3
    c1 = c1
    c2 = c2
    Accounts = {a1, a2}
    Calls = {c1, c2}
    Keys = {k1}
    MaxTokens = 3
    NoAccount = NoAccount
    AuthFaults = {"redis", "expire"}
    Users = {a1, a2, a3}
    Requests = {c1, c2}
    NoUser = NoUser
    Notes = {a1, a2}
    Edits = {c1, c2}
    NoteStatus = {"open", "resolved"}
    NoNote = NoNote
SYMMETRY Symmetry
INVARIANTS
    TokenUsedOnce OneLiveToken AdmittedWasValid
    TypeOK OwnerIsMember
    StatusIsAnnounced
PROPERTIES InviteOnlyAdds SessionsEnd
CHECK_DEADLOCK FALSE
