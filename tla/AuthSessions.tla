---------------------------- MODULE AuthSessions ----------------------------
(***************************************************************************)
(* Accounts, refresh tokens and API keys: services/auth.py, oauth.py and   *)
(* api_key.py on Postgres and Redis.  Requests are cut at their awaits.    *)
(* A token is the number of its jti; Redis keeps refresh:{token} until it  *)
(* is consumed, deleted or expires, which is also when its JWT expires.    *)
(* A client may present any refresh token ever issued, so a lost response, *)
(* a second tab and a replay are all included.                             *)
(***************************************************************************)
EXTENDS Naturals

CONSTANTS
    Accounts,   \* e-mail addresses; Google has at most one account for each
    Calls,      \* concurrent requests
    Keys,       \* API keys that may be created
    MaxTokens,  \* bound: refresh tokens issued
    NoAccount,  \* "no user"
    AuthFaults  \* faults of the instance: "redis" (SET fails), "expire"

ASSUME MaxTokensOK == MaxTokens \in Nat
ASSUME NoAccountOK == NoAccount \notin Accounts

VARIABLES
    account,    \* users rows: has a row, a password, a Google identity
    stored,     \* Redis refresh:{token} -> user
    issued,     \* refresh tokens created so far
    subject,    \* "sub" of each token
    session,    \* history: the login (its first token) each token goes back to
    used,       \* history: how often each token was exchanged
    key,        \* api_keys rows: "none", "active" or "revoked"
    call        \* the requests in flight

authVars == <<account, stored, issued, subject, session, used, key, call>>

Tokens  == 1..MaxTokens
NoToken == 0
Kinds   == {"access", "refresh"}
CallOps == {"register", "login", "google", "refresh", "revoke", "use"}
CallPc  == {"idle", "insert", "email", "link", "issue", "commit", "load",
            "admitted"}

(* since: history, for a use: its credential was good when it began.       *)
IdleCall == [pc |-> "idle", op |-> "use", user |-> NoAccount,
             token |-> NoToken, item |-> "none", since |-> FALSE]

CallRecord == [pc : CallPc, op : CallOps, user : Accounts \cup {NoAccount},
               token : Tokens \cup {NoToken}, item : Keys \cup {"none"},
               since : BOOLEAN]

AuthTypeOK ==
    /\ account \in [Accounts -> [row : BOOLEAN, password : BOOLEAN,
                              google : BOOLEAN]]
    /\ stored \in [Tokens -> Accounts \cup {NoAccount}]
    /\ issued \in 0..MaxTokens
    /\ subject \in [Tokens -> Accounts \cup {NoAccount}]
    /\ session \in [Tokens -> Tokens \cup {NoToken}]
    /\ used \in [Tokens -> Nat]
    /\ key \in [Keys -> {"none", "active", "revoked"}]
    /\ call \in [Calls -> CallRecord]

AuthInit ==
    /\ account = [u \in Accounts |->
                    [row |-> FALSE, password |-> FALSE, google |-> FALSE]]
    /\ stored = [t \in Tokens |-> NoAccount]
    /\ issued = 0
    /\ subject = [t \in Tokens |-> NoAccount]
    /\ session = [t \in Tokens |-> NoToken]
    /\ used = [t \in Tokens |-> 0]
    /\ key = [k \in Keys |-> "none"]
    /\ call = [c \in Calls |-> IdleCall]

tokenVars == <<stored, issued, subject, session, used>>

Start(c, op, u, t, k, pc, since) ==
    /\ call[c].pc = "idle"
    /\ call' = [call EXCEPT ![c] = [pc |-> pc, op |-> op, user |-> u,
                     token |-> t, item |-> k, since |-> since]]
CallGoto(c, pc) == call' = [call EXCEPT ![c].pc = pc]
Answer(c)       == call' = [call EXCEPT ![c] = IdleCall]

-----------------------------------------------------------------------------
(* register_user: SELECT by email (a row is a 409), then INSERT, where a   *)
(* row inserted meanwhile violates the unique index.                       *)
register_select(c, u) ==
    /\ ~ account[u].row
    /\ Start(c, "register", u, NoToken, "none", "insert", FALSE)
    /\ UNCHANGED <<account, tokenVars, key>>

insert_user(c) ==
    LET u == call[c].user IN
    /\ call[c].pc = "insert"
    /\ IF account[u].row
       THEN Answer(c) /\ UNCHANGED account
       ELSE /\ account' = [account EXCEPT ![u] =
                   [row |-> TRUE, password |-> call[c].op = "register",
                    google |-> call[c].op = "google"]]
            /\ CallGoto(c, "issue")
    /\ UNCHANGED <<tokenVars, key>>

(* login_user with the right password; every other login is a 401.         *)
login_user(c, u) ==
    /\ account[u].row
    /\ account[u].password
    /\ Start(c, "login", u, NoToken, "none", "issue", FALSE)
    /\ UNCHANGED <<account, tokenVars, key>>

(* handle_google_callback: find the row by Google's sub, else by email, and *)
(* link that or create one.  Linking clears the password; the refresh      *)
(* tokens and API keys that the account has by then keep working.          *)
google_by_sub(c, u) ==
    /\ Start(c, "google", u, NoToken, "none",
             IF account[u].google THEN "issue" ELSE "email", FALSE)
    /\ UNCHANGED <<account, tokenVars, key>>

google_by_email(c) ==
    /\ call[c].pc = "email"
    /\ CallGoto(c, IF account[call[c].user].row THEN "link" ELSE "insert")
    /\ UNCHANGED <<account, tokenVars, key>>

Linked == [row |-> TRUE, password |-> FALSE, google |-> TRUE]

google_link(c) ==
    /\ call[c].pc = "link"
    /\ account' = [account EXCEPT ![call[c].user] = Linked]
    /\ CallGoto(c, "issue")
    /\ UNCHANGED <<tokenVars, key>>

-----------------------------------------------------------------------------
(* The refresh token that a request gets.  Mutant: without a jti, a token  *)
(* issued within the same second is the one that was presented.            *)
create_without_jti(c) ==
    IF call[c].token = NoToken THEN issued + 1 ELSE call[c].token
create_refresh_token(c) == issued + 1

SessionOf(c, t) == IF call[c].op = "refresh" THEN session[call[c].token]
                                             ELSE t

(* _issue_tokens: sign both tokens and SET the refresh token; if Redis     *)
(* fails here the request does, and nothing takes the consumption back.    *)
_issue_tokens(c) ==
    LET t == create_refresh_token(c) IN
    /\ call[c].pc = "issue"
    /\ t \in Tokens
    /\ issued' = IF t > issued THEN t ELSE issued
    /\ stored' = [stored EXCEPT ![t] = call[c].user]
    /\ subject' = [subject EXCEPT ![t] = call[c].user]
    /\ session' = [session EXCEPT ![t] = SessionOf(c, t)]
    /\ Answer(c)
    /\ UNCHANGED <<account, used, key>>

issue_fails(c) ==
    /\ "redis" \in AuthFaults
    /\ call[c].pc = "issue"
    /\ Answer(c)
    /\ UNCHANGED <<account, tokenVars, key>>

(* What GETDEL leaves in Redis.  Mutant: a GET.                            *)
get_refresh_token_user(t) == stored
consume_refresh_token(t) == [stored EXCEPT ![t] = NoAccount]

(* Mutant: a well-formed token is enough.                                  *)
AcceptedBySignature(t) == subject[t] # NoAccount
Accepted(t) == stored[t] # NoAccount /\ stored[t] = subject[t]

(* refresh_access_token up to the consumption; a token that Redis does not *)
(* know is a 401.                                                          *)
refresh_access_token(c, t) ==
    /\ call[c].pc = "idle"
    /\ t \in 1..issued
    /\ stored' = consume_refresh_token(t)
    /\ IF Accepted(t)
       THEN /\ Start(c, "refresh", subject[t], t, "none", "issue", FALSE)
            /\ used' = [used EXCEPT ![t] = @ + 1]
       ELSE UNCHANGED <<call, used>>
    /\ UNCHANGED <<account, issued, subject, session, key>>

logout_user(t) ==
    /\ t \in 1..issued
    /\ stored' = [stored EXCEPT ![t] = NoAccount]
    /\ UNCHANGED <<account, issued, subject, session, used, key, call>>

expire_token(t) ==
    /\ "expire" \in AuthFaults
    /\ stored[t] # NoAccount
    /\ stored' = [stored EXCEPT ![t] = NoAccount]
    /\ UNCHANGED <<account, issued, subject, session, used, key, call>>

-----------------------------------------------------------------------------
(* API keys, and the dependency that guards every protected route.         *)
create_api_key(k) ==
    /\ key[k] = "none"
    /\ key' = [key EXCEPT ![k] = "active"]
    /\ UNCHANGED <<account, tokenVars, call>>

revoke_select(c, k) ==
    /\ key[k] = "active"
    /\ Start(c, "revoke", NoAccount, NoToken, k, "commit", FALSE)
    /\ UNCHANGED <<account, tokenVars, key>>

revoke_api_key(c) ==
    /\ call[c].pc = "commit"
    /\ key' = [key EXCEPT ![call[c].item] = "revoked"]
    /\ Answer(c)
    /\ UNCHANGED <<account, tokenVars>>

(* get_current_user.  A JWT must be an access token: they are stateless,   *)
(* and good for as long as they live.  Mutant: the type is not compared.   *)
AnyJwt(kind) == kind \in {"access", "refresh"}
AccessJwt(kind) == kind = "access"

get_current_user(c) ==
    \E kind \in Kinds :
       /\ AccessJwt(kind)
       /\ Start(c, "use", NoAccount, NoToken, "none", "admitted",
                kind = "access")
       /\ UNCHANGED <<account, tokenVars, key>>

get_current_user_by_key(c, k) ==
    /\ key[k] # "none"
    /\ Start(c, "use", NoAccount, NoToken, k, "load", key[k] = "active")
    /\ UNCHANGED <<account, tokenVars, key>>

(* The key's row must be unrevoked; its owner is loaded by a second query, *)
(* during which the key may be revoked.                                    *)
validate_api_key(c) ==
    /\ call[c].pc = "load"
    /\ IF key[call[c].item] = "active" THEN CallGoto(c, "admitted")
                                       ELSE Answer(c)
    /\ UNCHANGED <<account, tokenVars, key>>

handled(c) ==
    /\ call[c].pc = "admitted"
    /\ Answer(c)
    /\ UNCHANGED <<account, tokenVars, key>>

-----------------------------------------------------------------------------
AuthCall(c) ==
    \/ \E u \in Accounts : \/ register_select(c, u) \/ login_user(c, u)
                        \/ google_by_sub(c, u)
    \/ insert_user(c) \/ google_by_email(c) \/ google_link(c)
    \/ _issue_tokens(c) \/ issue_fails(c)
    \/ \E t \in Tokens : refresh_access_token(c, t)
    \/ \E k \in Keys : revoke_select(c, k) \/ get_current_user_by_key(c, k)
    \/ revoke_api_key(c)
    \/ get_current_user(c) \/ validate_api_key(c) \/ handled(c)

AuthNext ==
    \/ \E c \in Calls : AuthCall(c)
    \/ \E t \in Tokens : logout_user(t) \/ expire_token(t)
    \/ \E k \in Keys : create_api_key(k)

AuthSpec == AuthInit /\ [][AuthNext]_authVars

-----------------------------------------------------------------------------
(* A refresh in flight has consumed its token and not yet stored the next. *)
Rotating(c) == call[c].pc = "issue" /\ call[c].op = "refresh"

(* The consumption is atomic and every token is new, so a refresh token is *)
(* exchanged at most once, also when several requests present it.          *)
TokenUsedOnce == \A t \in Tokens : used[t] <= 1

(* Rotation passes a session on: at no time do two of its refresh tokens   *)
(* work, or one while another is being rotated.                            *)
OneLiveToken ==
    \A s \in Tokens :
       LET live == {t \in Tokens : session[t] = s /\ stored[t] # NoAccount}
           rotating == {c \in Calls : Rotating(c)
                                      /\ session[call[c].token] = s}
       IN  /\ \A t1, t2 \in live : t1 = t2
           /\ \A c1, c2 \in rotating : c1 = c2
           /\ live = {} \/ rotating = {}

(* A protected route is entered only with an access token or with a key    *)
(* that was not revoked when the request began.                            *)
AdmittedWasValid ==
    \A c \in Calls : call[c].pc = "admitted" => call[c].since

(* The refinement mapping: a session is live while one of its tokens is    *)
(* stored or being rotated.                                                *)
Opened(s) == session[s] = s
LiveSession(s) ==
    \/ \E t \in Tokens : session[t] = s /\ stored[t] # NoAccount
    \/ \E c \in Calls : Rotating(c) /\ session[call[c].token] = s
SessionState == [s \in Tokens |-> IF LiveSession(s) THEN "live"
                                  ELSE IF Opened(s) THEN "closed" ELSE "none"]
SessionOwner == [s \in Tokens |-> IF Opened(s) THEN subject[s] ELSE NoAccount]

Sess == INSTANCE Sessions WITH Ids <- Tokens, Owners <- Accounts,
            Nobody <- NoAccount, state <- SessionState, owner <- SessionOwner

(* Tokens implement sessions: rotation keeps a session alive and its       *)
(* owner's, and a session that was logged out, expired or lost in a failed *)
(* rotation never works again, whichever of its tokens is presented.       *)
SessionsEnd == Sess!SessionsSpec

(* oauth.py:88: an account that is linked to Google "must only be          *)
(* reachable via Google-verified login", so that linking ends its sessions. *)
LinkEndsSessions ==
    [][\A u \in Accounts :
          account'[u].google /\ ~ account[u].google
              => \A t \in Tokens : stored'[t] # u]_authVars
=============================================================================
