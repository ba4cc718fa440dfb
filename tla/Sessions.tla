------------------------------ MODULE Sessions ------------------------------
(***************************************************************************)
(* What the API promises about login sessions, without tokens, Redis or    *)
(* requests: a session is opened for one user by a login, it stays that    *)
(* user's while its refresh tokens are rotated, and once closed (logout,   *)
(* expiry, a rotation that failed half-way) it never comes back.           *)
(***************************************************************************)
CONSTANTS
    Ids,        \* sessions that may be opened
    Owners,     \* users
    Nobody      \* owner of a session that was never opened

VARIABLES state, owner

SessionsInit ==
    /\ state = [s \in Ids |-> "none"]
    /\ owner = [s \in Ids |-> Nobody]

(* Only session s changes.                                                 *)
Becomes(s, old, new) ==
    /\ state[s] = old /\ state'[s] = new
    /\ state' = [state EXCEPT ![s] = new]

Open(s) ==
    /\ Becomes(s, "none", "live")
    /\ \E u \in Owners : owner' = [owner EXCEPT ![s] = u]

Close(s) ==
    /\ Becomes(s, "live", "closed")
    /\ UNCHANGED owner

SessionsNext == \E s \in Ids : Open(s) \/ Close(s)

SessionsSpec == SessionsInit /\ [][SessionsNext]_<<state, owner>>
=============================================================================
