------------------------- MODULE AuthSessionsProofs -------------------------
(***************************************************************************)
(* Rotation of refresh tokens, for any accounts, concurrent requests, API  *)
(* keys and faults and any number of tokens, and the sessions they         *)
(* implement.                                                              *)
(***************************************************************************)
EXTENDS AuthSessions, TLAPS

Stored(t) == stored[t] # NoAccount

(* A token that was issued has a subject, and goes back to a login of the  *)
(* same subject; of the others there is no trace.                          *)
TokenInv(t) ==
    /\ t > issued => /\ ~ Stored(t) /\ used[t] = 0
                     /\ subject[t] = NoAccount /\ session[t] = NoToken
    /\ t <= issued => /\ subject[t] \in Accounts
                      /\ session[t] \in 1 .. t
                      /\ session[session[t]] = session[t]
                      /\ subject[session[t]] = subject[t]
    /\ Stored(t) => stored[t] = subject[t] /\ used[t] = 0
    /\ used[t] <= 1

(* A request that will issue tokens has a user; a rotation, a token whose  *)
(* user that is.                                                           *)
CallInv(c) ==
    /\ call[c].pc \in {"insert", "email", "link", "issue"}
          => call[c].user \in Accounts
    /\ call[c].op = "refresh" => call[c].pc = "issue"
    /\ Rotating(c) => /\ call[c].token \in 1 .. issued
                      /\ call[c].user = subject[call[c].token]

(* OneLiveToken, pair by pair.                                             *)
OneCarrier ==
    /\ \A t1, t2 \in Tokens :
          Stored(t1) /\ Stored(t2) /\ session[t1] = session[t2] => t1 = t2
    /\ \A c1, c2 \in Calls :
          Rotating(c1) /\ Rotating(c2)
             /\ session[call[c1].token] = session[call[c2].token] => c1 = c2
    /\ \A t \in Tokens, c \in Calls :
          Stored(t) /\ Rotating(c) => session[t] # session[call[c].token]

AuthInv ==
    /\ AuthTypeOK
    /\ \A t \in Tokens : TokenInv(t)
    /\ \A c \in Calls : CallInv(c)
    /\ OneCarrier

LEMMA InitAuth == AuthInit => AuthInv
<1> SUFFICES ASSUME AuthInit  PROVE AuthInv
  OBVIOUS
<1>1. IdleCall \in CallRecord
  BY DEF IdleCall, CallRecord, CallPc, CallOps
<1>2. AuthTypeOK
  BY <1>1, MaxTokensOK DEF AuthInit, AuthTypeOK, NoToken
<1>3. \A c \in Calls : call[c].pc = "idle" /\ call[c].op = "use"
  BY DEF AuthInit, IdleCall
<1>4. \A t \in Tokens : TokenInv(t) /\ ~ Stored(t)
  BY MaxTokensOK DEF AuthInit, TokenInv, Stored, Tokens, NoToken
<1>5. OneCarrier
  BY <1>3, <1>4 DEF OneCarrier, Rotating
<1> QED BY <1>2, <1>3, <1>4, <1>5 DEF AuthInv, CallInv, Rotating

(* The requests and steps that neither issue nor consume a token.          *)
OtherCall(c) ==
    \/ \E u \in Accounts : \/ register_select(c, u) \/ login_user(c, u)
                           \/ google_by_sub(c, u)
    \/ insert_user(c) \/ google_by_email(c) \/ google_link(c)
    \/ \E k \in Keys : revoke_select(c, k) \/ get_current_user_by_key(c, k)
    \/ revoke_api_key(c)
    \/ get_current_user(c) \/ validate_api_key(c) \/ handled(c)

(* What such a step does to its request.                                   *)
Quiet(c, v) ==
    /\ call' = [call EXCEPT ![c] = v]
    /\ v.op # "refresh"
    /\ v.pc \in {"insert", "email", "link", "issue"} => v.user \in Accounts

LEMMA OtherIsQuiet ==
    ASSUME AuthInv, NEW c \in Calls, OtherCall(c)
    PROVE  /\ UNCHANGED tokenVars /\ ~ Rotating(c)
           /\ account' \in [Accounts -> [row : BOOLEAN, password : BOOLEAN,
                                         google : BOOLEAN]]
           /\ key' \in [Keys -> {"none", "active", "revoked"}]
           /\ \E v \in CallRecord : Quiet(c, v)
<1> DEFINE Goal == /\ UNCHANGED tokenVars /\ ~ Rotating(c)
                   /\ account' \in [Accounts -> [row : BOOLEAN,
                                     password : BOOLEAN, google : BOOLEAN]]
                   /\ key' \in [Keys -> {"none", "active", "revoked"}]
                   /\ \E v \in CallRecord : Quiet(c, v)
           To(pc) == [call[c] EXCEPT !.pc = pc]
<1>1. /\ call \in [Calls -> CallRecord] /\ call[c] \in CallRecord
      /\ account \in [Accounts -> [row : BOOLEAN, password : BOOLEAN,
                                   google : BOOLEAN]]
      /\ key \in [Keys -> {"none", "active", "revoked"}]
      /\ CallInv(c)
  BY DEF AuthInv, AuthTypeOK
<1>2. IdleCall \in CallRecord /\ IdleCall.op # "refresh" /\ IdleCall.pc = "idle"
  BY DEF IdleCall, CallRecord, CallPc, CallOps
<1>3. \A pc \in CallPc : /\ To(pc) \in CallRecord /\ To(pc).pc = pc
                         /\ To(pc).op = call[c].op /\ To(pc).user = call[c].user
  BY <1>1 DEF CallRecord
<1>4. ASSUME NEW pc, CallGoto(c, pc)  PROVE call' = [call EXCEPT ![c] = To(pc)]
  BY <1>1, <1>4 DEF CallGoto
<1>5. ASSUME call[c].pc # "issue", NEW pc \in CallPc,
             pc \in {"insert", "email", "link", "issue"} => call[c].user \in Accounts,
             CallGoto(c, pc)
      PROVE  \E v \in CallRecord : Quiet(c, v)
  <2> HIDE DEF To
  <2>1. Quiet(c, To(pc))
    BY <1>1, <1>3, <1>4, <1>5 DEF Quiet, CallInv
  <2> QED BY <1>3, <2>1
<1>6. ASSUME Answer(c)  PROVE \E v \in CallRecord : Quiet(c, v)
  BY <1>2, <1>6 DEF Answer, Quiet
<1>7. ASSUME NEW op \in CallOps \ {"refresh"}, NEW u \in Accounts \cup {NoAccount},
             NEW k \in Keys \cup {"none"}, NEW pc \in CallPc, NEW b \in BOOLEAN,
             pc \in {"insert", "email", "link", "issue"} => u \in Accounts,
             Start(c, op, u, NoToken, k, pc, b)
      PROVE  ~ Rotating(c) /\ \E v \in CallRecord : Quiet(c, v)
  <2> DEFINE v == [pc |-> pc, op |-> op, user |-> u, token |-> NoToken,
                   item |-> k, since |-> b]
  <2>1. v \in CallRecord /\ Quiet(c, v)
    BY <1>7 DEF Start, Quiet, CallRecord
  <2> QED BY <1>7, <2>1 DEF Start, Rotating
<1>8. /\ {"register", "login", "google", "revoke", "use"}
             \subseteq CallOps \ {"refresh"}
      /\ {"idle", "insert", "email", "link", "issue", "commit", "load",
          "admitted"} = CallPc
  BY DEF CallOps, CallPc
<1>9. ASSUME NEW u \in Accounts, register_select(c, u)  PROVE Goal
  BY <1>1, <1>7, <1>8, <1>9 DEF register_select
<1>10. ASSUME NEW u \in Accounts, login_user(c, u)  PROVE Goal
  <2> DEFINE b == FALSE
  <2>1. b \in BOOLEAN
    OBVIOUS
  <2>2. Start(c, "login", u, NoToken, "none", "issue", b)
        /\ UNCHANGED <<account, tokenVars, key>>
    BY <1>10 DEF login_user
  <2> HIDE DEF b
  <2>3. ~ Rotating(c) /\ \E v \in CallRecord : Quiet(c, v)
    BY <1>7, <1>8, <2>1, <2>2
  <2> QED BY <1>1, <2>2, <2>3
<1>11. ASSUME NEW u \in Accounts, google_by_sub(c, u)  PROVE Goal
  BY <1>1, <1>7, <1>8, <1>11 DEF google_by_sub
<1>12. CASE insert_user(c)
  <2>1. call[c].pc = "insert" /\ call[c].user \in Accounts /\ key' = key
    BY <1>1, <1>12 DEF insert_user, CallInv
  <2>2. account' \in [Accounts -> [row : BOOLEAN, password : BOOLEAN,
                                  google : BOOLEAN]]
    <3> DEFINE b1 == call[c].op = "register"
               b2 == call[c].op = "google"
               r == [row |-> TRUE, password |-> b1, google |-> b2]
    <3>1. account' = account \/ account' = [account EXCEPT ![call[c].user] = r]
      BY <1>12 DEF insert_user
    <3>2. b1 \in BOOLEAN /\ b2 \in BOOLEAN
      OBVIOUS
    <3> HIDE DEF b1, b2
    <3>3. r \in [row : BOOLEAN, password : BOOLEAN, google : BOOLEAN]
      BY <3>2
    <3> HIDE DEF r
    <3> QED BY <1>1, <3>1, <3>3
  <2>3. Answer(c) \/ CallGoto(c, "issue")
    BY <1>12 DEF insert_user
  <2> QED BY <1>1, <1>5, <1>6, <1>8, <1>12, <2>1, <2>2, <2>3
          DEF insert_user, Rotating
<1>13. CASE google_by_email(c)
  BY <1>1, <1>5, <1>8, <1>13 DEF google_by_email, Rotating, CallInv
<1>14. CASE google_link(c)
  <2>1. Linked \in [row : BOOLEAN, password : BOOLEAN, google : BOOLEAN]
    BY DEF Linked
  <2> QED BY <1>1, <1>5, <1>8, <1>14, <2>1 DEF google_link, Rotating, CallInv
<1>15. ASSUME NEW k \in Keys, revoke_select(c, k)  PROVE Goal
  BY <1>1, <1>7, <1>8, <1>15 DEF revoke_select
<1>16. ASSUME NEW k \in Keys, get_current_user_by_key(c, k)  PROVE Goal
  BY <1>1, <1>7, <1>8, <1>16 DEF get_current_user_by_key
<1>17. CASE revoke_api_key(c)
  BY <1>1, <1>6, <1>17 DEF revoke_api_key, Rotating
<1>18. CASE get_current_user(c)
  BY <1>1, <1>7, <1>8, <1>18 DEF get_current_user
<1>19. CASE validate_api_key(c)
  BY <1>1, <1>5, <1>6, <1>8, <1>19 DEF validate_api_key, Rotating
<1>20. CASE handled(c)
  BY <1>1, <1>6, <1>20 DEF handled, Rotating
<1> QED BY <1>9, <1>10, <1>11, <1>12, <1>13, <1>14, <1>15, <1>16, <1>17,
       <1>18, <1>19, <1>20 DEF OtherCall

-----------------------------------------------------------------------------
(* What a step must leave alone for session s to stay as it is.            *)
LEMMA SameSession ==
    ASSUME NEW s \in Tokens, LiveSession(s)' <=> LiveSession(s),
           Opened(s)' <=> Opened(s), Opened(s) => subject'[s] = subject[s]
    PROVE  SessionState'[s] = SessionState[s] /\ SessionOwner'[s] = SessionOwner[s]
  BY DEF SessionState, SessionOwner

(* If that is so for all sessions, the abstract state stutters.            *)
LEMMA SameSessions ==
    ASSUME \A s \in Tokens : /\ SessionState'[s] = SessionState[s]
                            /\ SessionOwner'[s] = SessionOwner[s]
    PROVE  UNCHANGED <<SessionState, SessionOwner>>
  BY DEF SessionState, SessionOwner

LEMMA AbstractClose ==
    ASSUME NEW s \in Tokens, LiveSession(s), ~ LiveSession(s)', Opened(s)',
           UNCHANGED <<session, subject>>,
           \A x \in Tokens \ {s} : LiveSession(x)' <=> LiveSession(x)
    PROVE  Sess!Close(s)
<1>1. \A x \in Tokens : SessionOwner'[x] = SessionOwner[x]
  BY DEF SessionOwner, Opened
<1>2. SessionOwner' = SessionOwner
  BY <1>1 DEF SessionOwner
<1>3. SessionState[s] = "live" /\ SessionState'[s] = "closed"
  BY DEF SessionState
<1>4. \A x \in Tokens \ {s} : SessionState'[x] = SessionState[x]
  BY SameSession DEF Opened
<1>5. SessionState' = [SessionState EXCEPT ![s] = "closed"]
  BY <1>3, <1>4 DEF SessionState
<1> QED BY <1>2, <1>3, <1>5 DEF Sess!Close, Sess!Becomes

LEMMA AbstractOpen ==
    ASSUME NEW s \in Tokens, ~ LiveSession(s), ~ Opened(s), LiveSession(s)',
           Opened(s)', subject'[s] \in Accounts,
           \A x \in Tokens \ {s} : /\ LiveSession(x)' <=> LiveSession(x)
                                   /\ Opened(x)' <=> Opened(x)
                                   /\ subject'[x] = subject[x]
    PROVE  Sess!Open(s)
<1>1. SessionState[s] = "none" /\ SessionState'[s] = "live"
  BY DEF SessionState
<1>2. \A x \in Tokens \ {s} : /\ SessionState'[x] = SessionState[x]
                              /\ SessionOwner'[x] = SessionOwner[x]
  BY SameSession
<1>3. SessionState' = [SessionState EXCEPT ![s] = "live"]
  BY <1>1, <1>2 DEF SessionState
<1>4. SessionOwner'[s] = subject'[s]
  BY DEF SessionOwner
<1>5. SessionOwner' = [SessionOwner EXCEPT ![s] = subject'[s]]
  BY <1>2, <1>4 DEF SessionOwner
<1> QED BY <1>1, <1>3, <1>5 DEF Sess!Open, Sess!Becomes

AbstractStep == [Sess!SessionsNext]_<<SessionState, SessionOwner>>

-----------------------------------------------------------------------------
(* A request that does not rotate a token changes no session.              *)
LEMMA OtherStep ==
    ASSUME AuthInv, NEW c \in Calls, OtherCall(c)
    PROVE  AuthInv' /\ AbstractStep
<1>1. PICK v \in CallRecord :
         /\ UNCHANGED tokenVars /\ ~ Rotating(c) /\ Quiet(c, v)
         /\ account' \in [Accounts -> [row : BOOLEAN, password : BOOLEAN,
                                       google : BOOLEAN]]
         /\ key' \in [Keys -> {"none", "active", "revoked"}]
  BY OtherIsQuiet
<1>2. call \in [Calls -> CallRecord] /\ call' = [call EXCEPT ![c] = v]
  BY <1>1 DEF AuthInv, AuthTypeOK, Quiet
<1>3. /\ \A d \in Calls \ {c} : call'[d] = call[d]
      /\ call'[c] = v
  BY <1>2
<1>4. UNCHANGED <<stored, issued, subject, session, used>>
  BY <1>1 DEF tokenVars
<1>5. \A d \in Calls : Rotating(d)' <=> Rotating(d)
  BY <1>1, <1>3 DEF Rotating, Quiet
<1>6. AuthTypeOK'
  BY <1>1, <1>2, <1>4 DEF AuthInv, AuthTypeOK
<1>7. \A t \in Tokens : TokenInv(t)'
  BY <1>4 DEF AuthInv, TokenInv, Stored
<1>8. \A d \in Calls : CallInv(d)'
  <2>1. CallInv(c)'
    BY <1>1, <1>3, <1>5 DEF CallInv, Quiet
  <2>2. ASSUME NEW d \in Calls \ {c}  PROVE CallInv(d)'
    BY <1>3, <1>4, <1>5 DEF AuthInv, CallInv
  <2> QED BY <2>1, <2>2
<1>9. \A d \in Calls : Rotating(d) => call'[d] = call[d]
  BY <1>1, <1>3
<1>10. OneCarrier'
  BY <1>4, <1>5, <1>9 DEF AuthInv, OneCarrier, Stored
<1>11. \A s \in Tokens : LiveSession(s)' <=> LiveSession(s)
  BY <1>4, <1>5, <1>9 DEF LiveSession
<1>12. AbstractStep
  BY <1>4, <1>11, SameSession, SameSessions DEF AbstractStep, Opened
<1> QED BY <1>6, <1>7, <1>8, <1>10, <1>12 DEF AuthInv

(* A token that some request or Redis still knows was issued, for a user,  *)
(* and goes back to a login of that user.                                  *)
LEMMA IssuedToken ==
    ASSUME AuthInv, NEW t \in Tokens, Stored(t) \/ t <= issued
    PROVE  /\ t <= issued /\ subject[t] \in Accounts
           /\ session[t] \in Tokens /\ session[t] <= t
           /\ session[session[t]] = session[t]
           /\ subject[session[t]] = subject[t]
<1>1. issued \in Nat /\ t \in Nat /\ t <= MaxTokens /\ MaxTokens \in Nat
  BY MaxTokensOK DEF AuthInv, AuthTypeOK, Tokens
<1>2. TokenInv(t)
  BY DEF AuthInv
<1>3. t <= issued
  BY <1>1, <1>2 DEF TokenInv
<1>4. session[t] \in 1 .. t
  BY <1>2, <1>3 DEF TokenInv
<1>5. session[t] \in Tokens /\ session[t] <= t
  BY <1>1, <1>4 DEF Tokens
<1> QED BY <1>2, <1>3, <1>5 DEF TokenInv

(* Logout or expiry of a token closes the session it carries, if any.      *)
LEMMA ForgetStep ==
    ASSUME AuthInv, NEW t \in Tokens,
           stored' = [stored EXCEPT ![t] = NoAccount],
           UNCHANGED <<account, issued, subject, session, used, key, call>>
    PROVE  AuthInv' /\ AbstractStep
<1>1. /\ stored \in [Tokens -> Accounts \cup {NoAccount}]
      /\ \A x \in Tokens \ {t} : stored'[x] = stored[x]
      /\ stored'[t] = NoAccount
  BY DEF AuthInv, AuthTypeOK
<1>2. \A x \in Tokens : Stored(x)' <=> Stored(x) /\ x # t
  BY <1>1 DEF Stored
<1>3. \A c \in Calls : Rotating(c)' <=> Rotating(c)
  BY DEF Rotating
<1>4. AuthTypeOK'
  BY <1>1 DEF AuthInv, AuthTypeOK
<1>5. \A x \in Tokens : TokenInv(x)'
  BY <1>1, <1>2 DEF AuthInv, TokenInv
<1>6. \A c \in Calls : CallInv(c)'
  BY <1>3 DEF AuthInv, CallInv
<1>7. OneCarrier'
  BY <1>2, <1>3 DEF AuthInv, OneCarrier
<1>8. AuthInv'
  BY <1>4, <1>5, <1>6, <1>7 DEF AuthInv
<1>9. CASE ~ Stored(t)
  <2>1. \A x \in Tokens : Stored(x)' <=> Stored(x)
    BY <1>2, <1>9
  <2>2. \A s \in Tokens : LiveSession(s)' <=> LiveSession(s)
    BY <1>3, <2>1 DEF LiveSession, Stored
  <2> QED BY <1>8, <2>2, SameSession, SameSessions DEF AbstractStep, Opened
<1>10. CASE Stored(t)
  <2>1. PICK s \in Tokens : s = session[t] /\ session[s] = s
    BY <1>10, IssuedToken
  <2>2. LiveSession(s)
    BY <1>10, <2>1 DEF LiveSession, Stored
  <2>3. ~ LiveSession(s)'
    BY <1>2, <1>3, <1>10, <2>1 DEF LiveSession, Stored, AuthInv, OneCarrier
  <2>4. \A x \in Tokens \ {s} : LiveSession(x)' <=> LiveSession(x)
    BY <1>2, <1>3, <2>1 DEF LiveSession, Stored
  <2>5. Sess!Close(s)
    BY <2>1, <2>2, <2>3, <2>4, AbstractClose DEF Opened
  <2> QED BY <1>8, <2>1, <2>5 DEF AbstractStep, Sess!SessionsNext
<1> QED BY <1>9, <1>10

-----------------------------------------------------------------------------
(* What _issue_tokens does, with the new token and the session it carries  *)
(* as constants.                                                           *)
Issued(c, n, s, u) ==
    /\ issued' = n
    /\ stored' = [stored EXCEPT ![n] = u]
    /\ subject' = [subject EXCEPT ![n] = u]
    /\ session' = [session EXCEPT ![n] = s]
    /\ call' = [call EXCEPT ![c] = IdleCall]
    /\ UNCHANGED <<account, used, key>>

(* n is new, and s either n itself (a login) or the session of the token   *)
(* that request c is rotating.                                             *)
NewToken(c, n, s, u) ==
    /\ n = issued + 1
    /\ u \in Accounts
    /\ s \in 1 .. n
    /\ ~ Rotating(c) => s = n
    /\ Rotating(c) => /\ s # n /\ s = session[call[c].token]
                      /\ session[s] = s /\ subject[s] = u

LEMMA IssueIsNew ==
    ASSUME AuthInv, NEW c \in Calls, _issue_tokens(c)
    PROVE  \E n, s \in Tokens, u \in Accounts :
              Issued(c, n, s, u) /\ NewToken(c, n, s, u)
<1>1. /\ issued \in Nat /\ issued + 1 \in Tokens /\ issued + 1 > issued
      /\ call[c].pc = "issue" /\ issued + 1 \in Nat
  BY MaxTokensOK DEF AuthInv, AuthTypeOK, _issue_tokens, create_refresh_token,
                     Tokens
<1>2. PICK n \in Tokens : n = issued + 1
  BY <1>1
<1>3. PICK u \in Accounts : u = call[c].user
  BY <1>1 DEF AuthInv, CallInv
<1>4. CallInv(c)
  BY DEF AuthInv
<1>5. PICK s \in Tokens : s = SessionOf(c, n) /\ NewToken(c, n, s, u)
  <2>1. CASE call[c].op = "refresh"
    <3>1. Rotating(c)
      BY <1>1, <2>1 DEF Rotating
    <3>2. PICK x \in 1 .. issued : x = call[c].token /\ subject[x] = u
      BY <1>3, <1>4, <3>1 DEF CallInv
    <3>3. x \in Tokens /\ x <= issued
      BY <1>1, <3>2, MaxTokensOK DEF Tokens
    <3>4. PICK s \in Tokens : s = session[x] /\ s <= x
      BY <3>3, IssuedToken
    <3>5. session[s] = s /\ subject[s] = u
      BY <3>2, <3>3, <3>4, IssuedToken
    <3>6. s \in 1 .. n /\ s # n
      BY <1>1, <1>2, <3>3, <3>4 DEF Tokens
    <3> QED BY <1>2, <2>1, <3>1, <3>2, <3>4, <3>5, <3>6 DEF NewToken, SessionOf
  <2>2. CASE call[c].op # "refresh"
    BY <1>1, <1>2, <2>2 DEF NewToken, SessionOf, Rotating
  <2> QED BY <2>1, <2>2
<1>6. Issued(c, n, s, u)
  BY <1>1, <1>2, <1>3, <1>5
     DEF _issue_tokens, create_refresh_token, Issued, Answer
<1> QED BY <1>5, <1>6

LEMMA IssueStep ==
    ASSUME AuthInv, NEW c \in Calls, _issue_tokens(c)
    PROVE  AuthInv' /\ AbstractStep
<1>1. PICK n, s \in Tokens, u \in Accounts :
         Issued(c, n, s, u) /\ NewToken(c, n, s, u)
  BY IssueIsNew
<1>2. /\ issued \in Nat /\ n \in Nat /\ n = issued + 1 /\ issued' = n
      /\ \A x \in Tokens : x \in Nat /\ (x # n => (x > n <=> x > issued))
      /\ n > issued /\ n \in 1 .. MaxTokens /\ n <= n
  BY <1>1, MaxTokensOK DEF AuthInv, AuthTypeOK, Tokens, Issued, NewToken
<1>3. AuthTypeOK
  BY DEF AuthInv
<1>4. /\ stored'[n] = u /\ subject'[n] = u /\ session'[n] = s /\ used' = used
      /\ \A x \in Tokens \ {n} : /\ stored'[x] = stored[x]
                                 /\ subject'[x] = subject[x]
                                 /\ session'[x] = session[x]
  BY <1>1, <1>3 DEF Issued, AuthTypeOK
<1>5. /\ ~ Stored(n) /\ used[n] = 0 /\ subject[n] = NoAccount
      /\ session[n] = NoToken
  BY <1>2 DEF AuthInv, TokenInv
<1>6. /\ call'[c] = IdleCall
      /\ \A d \in Calls \ {c} : call'[d] = call[d]
  BY <1>1, <1>3 DEF Issued, AuthTypeOK
<1>7. /\ \A x \in Tokens : Stored(x)' <=> Stored(x) \/ x = n
      /\ \A d \in Calls : Rotating(d)' <=> Rotating(d) /\ d # c
  BY <1>4, <1>5, <1>6, NoAccountOK DEF Stored, Rotating, IdleCall
<1>8. \A x \in Tokens : Stored(x) => /\ x # n /\ session[x] # n
                                    /\ session[x] \in Tokens
  BY <1>2, IssuedToken
<1>9. \A d \in Calls :
         Rotating(d) => /\ call[d].token \in Tokens \ {n}
                        /\ call[d].token <= issued
                        /\ session[call[d].token] \in Tokens \ {n}
  <2> SUFFICES ASSUME NEW d \in Calls, Rotating(d)
               PROVE  /\ call[d].token \in Tokens \ {n}
                      /\ call[d].token <= issued
                      /\ session[call[d].token] \in Tokens \ {n}
    OBVIOUS
  <2>1. PICK x \in 1 .. issued : x = call[d].token
    BY DEF AuthInv, CallInv
  <2>2. x \in Tokens \ {n} /\ x <= issued
    BY <1>2, <2>1, MaxTokensOK DEF Tokens
  <2>3. session[x] \in Tokens /\ session[x] <= x
    BY <2>2, IssuedToken
  <2>4. session[x] # n
    BY <1>2, <2>2, <2>3
  <2> QED BY <2>1, <2>2, <2>3, <2>4
<1>10. AuthTypeOK'
  <2>1. IdleCall \in CallRecord
    BY DEF IdleCall, CallRecord, CallPc, CallOps
  <2>2. issued' \in 0 .. MaxTokens
    BY <1>2
  <2> QED BY <1>1, <1>3, <2>1, <2>2 DEF Issued, AuthTypeOK
<1>11. \A x \in Tokens : TokenInv(x)'
  <2>1. TokenInv(n)'
    <3>1. session'[s] = s /\ subject'[s] = u
      BY <1>1, <1>4 DEF NewToken
    <3>2. s \in 1 .. n
      BY <1>1 DEF NewToken
    <3> QED BY <1>2, <1>4, <1>5, <3>1, <3>2 DEF TokenInv, Stored
  <2>2. ASSUME NEW x \in Tokens \ {n}  PROVE TokenInv(x)'
    <3>1. TokenInv(x)
      BY DEF AuthInv
    <3>2. CASE x > issued
      BY <1>2, <1>4, <1>7, <3>1, <3>2 DEF TokenInv
    <3>3. CASE x <= issued
      <4>1. /\ session[x] \in Tokens /\ session[x] <= x
            /\ session[session[x]] = session[x]
            /\ subject[session[x]] = subject[x] /\ subject[x] \in Accounts
        BY <3>3, IssuedToken
      <4>2. session[x] # n
        BY <1>2, <3>3, <4>1
      <4>3. PICK y \in Tokens \ {n} : y = session[x]
        BY <4>1, <4>2
      <4>4. session'[x] = y /\ session'[y] = y /\ subject'[y] = subject'[x]
            /\ subject'[x] \in Accounts
        BY <1>4, <4>1, <4>3
      <4>5. session'[x] \in 1 .. x
        BY <3>1, <3>3, <4>3, <4>4 DEF TokenInv
      <4>6. ~ (x > issued')
        BY <1>2, <3>3
      <4> QED BY <1>4, <1>7, <3>1, <4>4, <4>5, <4>6 DEF TokenInv, Stored
    <3> QED BY <1>2, <3>2, <3>3
  <2> QED BY <2>1, <2>2
<1>12. \A d \in Calls : CallInv(d)'
  <2>1. CallInv(c)'
    BY <1>6, <1>7 DEF CallInv, IdleCall
  <2>2. ASSUME NEW d \in Calls \ {c}  PROVE CallInv(d)'
    <3>1. CallInv(d) /\ call'[d] = call[d]
      BY <1>6 DEF AuthInv
    <3>2. Rotating(d) => call[d].token \in 1 .. issued'
      BY <1>2, <3>1 DEF CallInv
    <3>3. Rotating(d) => subject'[call[d].token] = subject[call[d].token]
      BY <1>4, <1>9
    <3> QED BY <1>7, <3>1, <3>2, <3>3 DEF CallInv
  <2> QED BY <2>1, <2>2
<1>13. /\ Rotating(c) => session'[n] = session[call[c].token] /\ s # n
       /\ ~ Rotating(c) => session'[n] = n
  BY <1>1, <1>4 DEF NewToken
<1>14. \A d \in Calls \ {c} : Rotating(d) =>
          /\ session'[call'[d].token] = session[call[d].token]
          /\ session'[call'[d].token] # n
  BY <1>4, <1>6, <1>9
<1>15. \A x \in Tokens : Stored(x) => session'[x] = session[x]
  BY <1>4, <1>8
<1>16. \A d \in Calls \ {c} : Rotating(d) => session'[n] # session[call[d].token]
  BY <1>9, <1>13 DEF AuthInv, OneCarrier
<1>17. \A x \in Tokens : Stored(x) => session'[n] # session[x]
  BY <1>8, <1>13 DEF AuthInv, OneCarrier
<1>18. OneCarrier'
  <2>1. ASSUME NEW t1 \in Tokens, NEW t2 \in Tokens, Stored(t1)', Stored(t2)',
               session'[t1] = session'[t2]
        PROVE  t1 = t2
    BY <1>7, <1>15, <1>17, <2>1 DEF AuthInv, OneCarrier
  <2>2. ASSUME NEW d1 \in Calls, NEW d2 \in Calls, Rotating(d1)', Rotating(d2)',
               session'[call'[d1].token] = session'[call'[d2].token]
        PROVE  d1 = d2
    BY <1>7, <1>14, <2>2 DEF AuthInv, OneCarrier
  <2>3. ASSUME NEW x \in Tokens, NEW d \in Calls, Stored(x)', Rotating(d)'
        PROVE  session'[x] # session'[call'[d].token]
    BY <1>7, <1>14, <1>15, <1>16, <2>3 DEF AuthInv, OneCarrier
  <2> QED BY <2>1, <2>2, <2>3 DEF OneCarrier
<1>19. AuthInv'
  BY <1>10, <1>11, <1>12, <1>18 DEF AuthInv
<1>20. \A x \in Tokens \ {s, n} : LiveSession(x)' <=> LiveSession(x)
  <2> SUFFICES ASSUME NEW x \in Tokens \ {s, n}
               PROVE  LiveSession(x)' <=> LiveSession(x)
    OBVIOUS
  <2>1. /\ \A y \in Tokens : session'[y] = x /\ Stored(y)'
                             <=> session[y] = x /\ Stored(y)
    BY <1>4, <1>7, <1>8, <1>15
  <2>2. \A d \in Calls : Rotating(d)' /\ session'[call'[d].token] = x
                        <=> Rotating(d) /\ session[call[d].token] = x
    BY <1>4, <1>7, <1>13, <1>14
  <2> QED BY <2>1, <2>2 DEF LiveSession, Stored
<1>21. LiveSession(s)'
  BY <1>4, <1>7 DEF LiveSession, Stored
<1>22. \A x \in Tokens \ {n} : /\ Opened(x)' <=> Opened(x)
                              /\ subject'[x] = subject[x]
  BY <1>4 DEF Opened
<1>23. ~ LiveSession(n) /\ ~ Opened(n)
  <2>1. ~ LiveSession(n)
    BY <1>8, <1>9 DEF LiveSession, Stored
  <2>2. ~ Opened(n)
    BY <1>2, <1>5 DEF Opened, NoToken
  <2> QED BY <2>1, <2>2
<1>24. CASE Rotating(c)
  <2>1. LiveSession(s)
    BY <1>1, <1>24 DEF LiveSession, NewToken
  <2>2. s # n /\ ~ Opened(n)'
    BY <1>4, <1>13, <1>24 DEF Opened
  <2>3. ~ LiveSession(n)'
    <3>1. \A y \in Tokens : Stored(y)' => session'[y] # n
      BY <1>4, <1>7, <1>8, <1>15, <2>2
    <3>2. \A d \in Calls : Rotating(d)' => session'[call'[d].token] # n
      BY <1>7, <1>14
    <3> QED BY <3>1, <3>2 DEF LiveSession, Stored
  <2>4. \A x \in Tokens :
           /\ LiveSession(x)' <=> LiveSession(x)
           /\ Opened(x)' <=> Opened(x)
           /\ Opened(x) => subject'[x] = subject[x]
    BY <1>20, <1>21, <1>22, <1>23, <2>1, <2>2, <2>3
  <2> QED BY <1>19, <2>4, SameSession, SameSessions DEF AbstractStep
<1>25. CASE ~ Rotating(c)
  <2>1. s = n
    BY <1>1, <1>25 DEF NewToken
  <2>2. Opened(n)' /\ subject'[n] \in Accounts /\ LiveSession(n)'
    BY <1>4, <1>21, <2>1 DEF Opened
  <2>3. Sess!Open(n)
    BY <1>20, <1>22, <1>23, <2>1, <2>2, AbstractOpen
  <2> QED BY <1>19, <2>3 DEF AbstractStep, Sess!SessionsNext
<1> QED BY <1>24, <1>25

(* A rotation that fails after the consumption closes its session.         *)
LEMMA FailStep ==
    ASSUME AuthInv, NEW c \in Calls, issue_fails(c)
    PROVE  AuthInv' /\ AbstractStep
<1>1. /\ UNCHANGED <<account, stored, issued, subject, session, used, key>>
      /\ call' = [call EXCEPT ![c] = IdleCall]
      /\ call \in [Calls -> CallRecord]
  BY DEF issue_fails, Answer, tokenVars, AuthInv, AuthTypeOK
<1>2. /\ call'[c] = IdleCall
      /\ \A d \in Calls \ {c} : call'[d] = call[d]
  BY <1>1
<1>3. \A d \in Calls : Rotating(d)' <=> Rotating(d) /\ d # c
  BY <1>2 DEF Rotating, IdleCall
<1>4. AuthTypeOK'
  <2>1. IdleCall \in CallRecord
    BY DEF IdleCall, CallRecord, CallPc, CallOps
  <2> QED BY <1>1, <2>1 DEF AuthInv, AuthTypeOK
<1>5. \A t \in Tokens : TokenInv(t)'
  BY <1>1 DEF AuthInv, TokenInv, Stored
<1>6. \A d \in Calls : CallInv(d)'
  <2>1. CallInv(c)'
    BY <1>2, <1>3 DEF CallInv, IdleCall
  <2>2. ASSUME NEW d \in Calls \ {c}  PROVE CallInv(d)'
    BY <1>1, <1>2, <1>3 DEF AuthInv, CallInv
  <2> QED BY <2>1, <2>2
<1>7. OneCarrier'
  BY <1>1, <1>2, <1>3 DEF AuthInv, OneCarrier, Stored
<1>8. AuthInv'
  BY <1>4, <1>5, <1>6, <1>7 DEF AuthInv
<1>9. CASE ~ Rotating(c)
  <2>1. \A s \in Tokens : LiveSession(s)' <=> LiveSession(s)
    BY <1>1, <1>2, <1>3, <1>9 DEF LiveSession
  <2> QED BY <1>1, <1>8, <2>1, SameSession, SameSessions DEF AbstractStep, Opened
<1>10. CASE Rotating(c)
  <2>1. PICK t \in 1 .. issued : t = call[c].token
    BY <1>10 DEF AuthInv, CallInv
  <2>2. t \in Tokens /\ t <= issued
    BY <2>1, MaxTokensOK DEF AuthInv, AuthTypeOK, Tokens
  <2>3. PICK s \in Tokens : s = session[t] /\ session[s] = s
    BY <2>2, IssuedToken
  <2>4. LiveSession(s)
    BY <1>10, <2>1, <2>3 DEF LiveSession
  <2>5. ~ LiveSession(s)'
    <3>1. \A x \in Tokens : Stored(x) => session[x] # s
      BY <1>10, <2>1, <2>3 DEF AuthInv, OneCarrier
    <3>2. \A d \in Calls \ {c} : Rotating(d) => session[call[d].token] # s
      BY <1>10, <2>1, <2>3 DEF AuthInv, OneCarrier
    <3> QED BY <1>1, <1>2, <1>3, <3>1, <3>2 DEF LiveSession, Stored
  <2>6. \A x \in Tokens \ {s} : LiveSession(x)' <=> LiveSession(x)
    BY <1>1, <1>2, <1>3, <2>1, <2>3 DEF LiveSession
  <2>7. Opened(s)' /\ UNCHANGED <<session, subject>>
    BY <1>1, <2>3 DEF Opened
  <2>8. Sess!Close(s)
    BY <2>4, <2>5, <2>6, <2>7, AbstractClose
  <2> QED BY <1>8, <2>8 DEF AbstractStep, Sess!SessionsNext
<1> QED BY <1>9, <1>10

(* A refresh that is accepted turns a stored token into one in rotation,   *)
(* in one step; one that is not changes nothing that was live.             *)
LEMMA RefreshStep ==
    ASSUME AuthInv, NEW c \in Calls, NEW t \in Tokens,
           refresh_access_token(c, t)
    PROVE  AuthInv' /\ AbstractStep
<1> DEFINE r == [pc |-> "issue", op |-> "refresh", user |-> subject[t],
                 token |-> t, item |-> "none", since |-> FALSE]
<1>1. /\ stored' = [stored EXCEPT ![t] = NoAccount]
      /\ UNCHANGED <<account, issued, subject, session, key>>
      /\ t \in 1 .. issued /\ issued \in Nat
  BY DEF refresh_access_token, consume_refresh_token, AuthInv, AuthTypeOK
<1>2. t <= issued /\ TokenInv(t) /\ subject[t] \in Accounts
  BY <1>1, IssuedToken DEF AuthInv, Tokens
<1>3. CASE ~ Accepted(t)
  <2>1. UNCHANGED <<call, used>>
    BY <1>3 DEF refresh_access_token
  <2> QED BY <1>1, <2>1, ForgetStep
<1>4. CASE Accepted(t)
  <2>1. /\ ~ Rotating(c) /\ call' = [call EXCEPT ![c] = r]
        /\ used' = [used EXCEPT ![t] = @ + 1] /\ Stored(t) /\ used[t] = 0
    BY <1>2, <1>4 DEF refresh_access_token, Start, Rotating, Accepted, Stored,
                      TokenInv
  <2>2. r \in CallRecord /\ r.pc = "issue" /\ r.op = "refresh"
        /\ r.user = subject[t] /\ r.token = t
    BY <1>2 DEF CallRecord, CallPc, CallOps
  <2> HIDE DEF r
  <2>3. /\ call'[c] = r /\ used'[t] = 1
        /\ \A d \in Calls \ {c} : call'[d] = call[d]
        /\ \A x \in Tokens \ {t} : used'[x] = used[x] /\ stored'[x] = stored[x]
        /\ stored'[t] = NoAccount
    BY <1>1, <2>1 DEF AuthInv, AuthTypeOK
  <2>4. /\ \A d \in Calls : Rotating(d)' <=> Rotating(d) \/ d = c
        /\ \A x \in Tokens : Stored(x)' <=> Stored(x) /\ x # t
    BY <2>1, <2>2, <2>3 DEF Rotating, Stored
  <2>5. AuthTypeOK'
    <3>1. used' \in [Tokens -> Nat]
      BY <2>1 DEF AuthInv, AuthTypeOK
    <3> QED BY <1>1, <2>1, <2>2, <3>1 DEF AuthInv, AuthTypeOK
  <2>6. \A x \in Tokens : TokenInv(x)'
    <3>1. TokenInv(t)'
      BY <1>1, <1>2, <2>3, <2>4 DEF TokenInv, Tokens
    <3>2. ASSUME NEW x \in Tokens \ {t}  PROVE TokenInv(x)'
      BY <1>1, <2>3, <2>4 DEF AuthInv, TokenInv
    <3> QED BY <3>1, <3>2
  <2>7. \A d \in Calls : CallInv(d)'
    <3>1. CallInv(c)'
      BY <1>1, <1>2, <2>2, <2>3 DEF CallInv
    <3>2. ASSUME NEW d \in Calls \ {c}  PROVE CallInv(d)'
      BY <1>1, <2>3, <2>4 DEF AuthInv, CallInv
    <3> QED BY <3>1, <3>2
  <2>8. \A d \in Calls \ {c} : Rotating(d) => session[call[d].token] # session[t]
    BY <2>1 DEF AuthInv, OneCarrier
  <2>9. \A x \in Tokens \ {t} : Stored(x) => session[x] # session[t]
    BY <2>1 DEF AuthInv, OneCarrier
  <2>10. OneCarrier'
    <3>1. ASSUME NEW t1 \in Tokens, NEW t2 \in Tokens, Stored(t1)', Stored(t2)',
                 session'[t1] = session'[t2]
          PROVE  t1 = t2
      BY <1>1, <2>4, <3>1 DEF AuthInv, OneCarrier
    <3>2. ASSUME NEW d1 \in Calls, NEW d2 \in Calls, Rotating(d1)',
                 Rotating(d2)',
                 session'[call'[d1].token] = session'[call'[d2].token]
          PROVE  d1 = d2
      BY <1>1, <2>2, <2>3, <2>4, <2>8, <3>2 DEF AuthInv, OneCarrier
    <3>3. ASSUME NEW x \in Tokens, NEW d \in Calls, Stored(x)', Rotating(d)'
          PROVE  session'[x] # session'[call'[d].token]
      BY <1>1, <2>2, <2>3, <2>4, <2>9, <3>3 DEF AuthInv, OneCarrier
    <3> QED BY <3>1, <3>2, <3>3 DEF OneCarrier
  <2>11. AuthInv'
    BY <2>5, <2>6, <2>7, <2>10 DEF AuthInv
  <2>12. ASSUME NEW s \in Tokens  PROVE LiveSession(s)' <=> LiveSession(s)
    <3>1. CASE s = session[t]
      BY <1>1, <2>1, <2>2, <2>3, <2>4, <3>1 DEF LiveSession, Stored
    <3>2. CASE s # session[t]
      BY <1>1, <2>1, <2>2, <2>3, <2>4, <3>2 DEF LiveSession, Stored
    <3> QED BY <3>1, <3>2
  <2> QED BY <1>1, <2>11, <2>12, SameSession, SameSessions
          DEF AbstractStep, Opened
<1> QED BY <1>3, <1>4

(* Every step keeps the invariant and implements a step of Sessions.       *)
LEMMA NextAuth ==
    ASSUME AuthInv, [AuthNext]_authVars
    PROVE  AuthInv' /\ AbstractStep
<1>1. ASSUME NEW c \in Calls, AuthCall(c)  PROVE AuthInv' /\ AbstractStep
  <2>1. \/ OtherCall(c) \/ _issue_tokens(c) \/ issue_fails(c)
        \/ \E t \in Tokens : refresh_access_token(c, t)
    BY <1>1 DEF AuthCall, OtherCall
  <2> QED BY <2>1, OtherStep, IssueStep, FailStep, RefreshStep
<1>2. ASSUME NEW t \in Tokens, logout_user(t) \/ expire_token(t)
      PROVE  AuthInv' /\ AbstractStep
  BY <1>2, ForgetStep DEF logout_user, expire_token
<1>3. ASSUME UNCHANGED <<account, stored, issued, subject, session, used, call>>,
             key' \in [Keys -> {"none", "active", "revoked"}]
      PROVE  AuthInv' /\ AbstractStep
  <2>1. AuthTypeOK'
    BY <1>3 DEF AuthInv, AuthTypeOK
  <2>2. (\A t \in Tokens : TokenInv(t))' /\ (\A c \in Calls : CallInv(c))'
        /\ OneCarrier'
    BY <1>3 DEF AuthInv, TokenInv, CallInv, OneCarrier, Stored, Rotating
  <2>3. \A s \in Tokens : LiveSession(s)' <=> LiveSession(s)
    BY <1>3 DEF LiveSession, Rotating
  <2> QED BY <1>3, <2>1, <2>2, <2>3, SameSession, SameSessions
          DEF AuthInv, AbstractStep, Opened
<1>4. ASSUME NEW k \in Keys, create_api_key(k)  PROVE AuthInv' /\ AbstractStep
  BY <1>3, <1>4 DEF create_api_key, tokenVars, AuthInv, AuthTypeOK
<1>5. CASE UNCHANGED authVars
  BY <1>3, <1>5 DEF authVars, AuthInv, AuthTypeOK
<1> QED BY <1>1, <1>2, <1>4, <1>5 DEF AuthNext

LEMMA InvariantHolds == AuthSpec => []AuthInv
<1>1. AuthInv /\ [AuthNext]_authVars => AuthInv'
  BY NextAuth
<1> QED BY <1>1, InitAuth, PTL DEF AuthSpec

-----------------------------------------------------------------------------
(* Every variable keeps its type: a request in flight has the user and the *)
(* token its next step reads (services/auth.py, oauth.py, api_key.py).     *)
THEOREM AuthTypes == AuthSpec => []AuthTypeOK
<1>1. AuthInv => AuthTypeOK
  BY DEF AuthInv
<1> QED BY <1>1, InvariantHolds, PTL

(* However many requests present it, a refresh token is exchanged at most  *)
(* once, because GETDEL consumes it atomically (core/redis.py:55).         *)
THEOREM TokensUsedOnce == AuthSpec => []TokenUsedOnce
<1>1. AuthInv => TokenUsedOnce
  BY DEF AuthInv, TokenInv, TokenUsedOnce
<1> QED BY <1>1, InvariantHolds, PTL

(* Of one login at most one refresh token works or is being rotated.       *)
THEOREM OneTokenLives == AuthSpec => []OneLiveToken
<1>1. AuthInv => OneLiveToken
  BY DEF AuthInv, OneCarrier, OneLiveToken, Stored
<1> QED BY <1>1, InvariantHolds, PTL

(* Refresh tokens with rotation implement sessions that end for good: every *)
(* step of the API opens, closes or leaves alone sessions, and a closed one *)
(* is never opened again (services/auth.py refresh_access_token, logout).  *)
THEOREM SessionsRefined == AuthSpec => SessionsEnd
<1>1. AuthInit => Sess!SessionsInit
  <2> SUFFICES ASSUME AuthInit  PROVE Sess!SessionsInit
    OBVIOUS
  <2>1. \A s \in Tokens : stored[s] = NoAccount /\ session[s] = 0
    BY DEF AuthInit, NoToken
  <2>2. \A c \in Calls : ~ Rotating(c)
    BY DEF AuthInit, IdleCall, Rotating
  <2>3. \A s \in Tokens : ~ LiveSession(s) /\ ~ Opened(s)
    BY <2>1, <2>2 DEF LiveSession, Opened, Tokens
  <2> QED BY <2>3 DEF Sess!SessionsInit, SessionState, SessionOwner
<1>2. AuthInv /\ [AuthNext]_authVars
         => [Sess!SessionsNext]_<<SessionState, SessionOwner>>
  BY NextAuth DEF AbstractStep
<1> QED BY <1>1, <1>2, InvariantHolds, PTL DEF AuthSpec, SessionsEnd,
           Sess!SessionsSpec
-----------------------------------------------------------------------------
(* The credentials.  A request past the lookup of its key found that key   *)
(* active, or the key was revoked since.                                   *)
GoodCall(v) ==
    /\ v.pc = "admitted" => v.since
    /\ v.pc \in {"load", "commit"} => v.item \in Keys
    /\ v.pc = "load" => v.since \/ key[v.item] = "revoked"

CredentialInv == \A c \in Calls : GoodCall(call[c])

(* A step that changes one request, and revokes keys at most.              *)
LEMMA OneCallStep ==
    ASSUME AuthTypeOK, CredentialInv, NEW c \in Calls, NEW v,
           call' = [call EXCEPT ![c] = v], GoodCall(v),
           \A k \in Keys : key[k] = "revoked" => key'[k] = "revoked"
    PROVE  CredentialInv'
<1>1. call'[c] = v /\ \A d \in Calls \ {c} : call'[d] = call[d]
  BY DEF AuthTypeOK
<1>2. ASSUME NEW d \in Calls \ {c}  PROVE GoodCall(call[d])'
  BY <1>1, <1>2 DEF CredentialInv, GoodCall
<1>3. GoodCall(call[c])'
  BY <1>1 DEF GoodCall
<1> QED BY <1>2, <1>3 DEF CredentialInv

(* A request that is answered, or one that begins.                         *)
LEMMA AnswerStep ==
    ASSUME AuthTypeOK, CredentialInv, NEW c \in Calls, Answer(c),
           \A k \in Keys : key[k] = "revoked" => key'[k] = "revoked"
    PROVE  CredentialInv'
<1>1. GoodCall(IdleCall)
  BY DEF GoodCall, IdleCall
<1> QED BY <1>1, OneCallStep DEF Answer

LEMMA StartStep ==
    ASSUME AuthTypeOK, CredentialInv, NEW c \in Calls, NEW op, NEW u, NEW t,
           NEW k, NEW pc, NEW b, Start(c, op, u, t, k, pc, b),
           UNCHANGED key,
           pc = "admitted" => b,
           pc \in {"load", "commit"} => k \in Keys,
           pc = "load" => b \/ key[k] = "revoked"
    PROVE  CredentialInv'
<1> DEFINE v == [pc |-> pc, op |-> op, user |-> u, token |-> t, item |-> k,
                 since |-> b]
<1>1. GoodCall(v)
  BY DEF GoodCall
<1>2. call' = [call EXCEPT ![c] = v]
  BY DEF Start
<1> HIDE DEF v
<1> QED BY <1>1, <1>2, OneCallStep

(* A request goes on to a step that checks nothing.                        *)
LEMMA GotoStep ==
    ASSUME AuthTypeOK, CredentialInv, NEW c \in Calls,
           NEW pc \in {"insert", "email", "link", "issue"}, CallGoto(c, pc),
           UNCHANGED key
    PROVE  CredentialInv'
<1>1. /\ call \in [Calls -> CallRecord]
      /\ call' = [call EXCEPT ![c] = [call[c] EXCEPT !.pc = pc]]
  BY DEF AuthTypeOK, CallGoto
<1>2. /\ call'[c].pc = pc
      /\ \A d \in Calls \ {c} : call'[d] = call[d]
  BY <1>1 DEF CallRecord
<1>3. GoodCall(call[c])'
  BY <1>2 DEF GoodCall
<1>4. ASSUME NEW d \in Calls \ {c}  PROVE GoodCall(call[d])'
  BY <1>2 DEF CredentialInv, GoodCall
<1> QED BY <1>3, <1>4 DEF CredentialInv

LEMMA InitCredentials == AuthInit => CredentialInv
  BY DEF AuthInit, CredentialInv, GoodCall, IdleCall

LEMMA NextCredentials ==
    ASSUME AuthTypeOK, CredentialInv, [AuthNext]_authVars
    PROVE  CredentialInv'
<1>0. /\ call \in [Calls -> CallRecord]
      /\ key \in [Keys -> {"none", "active", "revoked"}]
  BY DEF AuthTypeOK
<1>1. ASSUME NEW c \in Calls, NEW u \in Accounts,
             \/ register_select(c, u) \/ login_user(c, u) \/ google_by_sub(c, u)
      PROVE  CredentialInv'
  <2>1. CASE register_select(c, u)
    <3> DEFINE b == FALSE
    <3>1. Start(c, "register", u, NoToken, "none", "insert", b)
      BY <2>1 DEF register_select
    <3> HIDE DEF b
    <3> QED BY <2>1, <3>1, StartStep DEF register_select
  <2>2. CASE login_user(c, u)
    <3> DEFINE b == FALSE
    <3>1. Start(c, "login", u, NoToken, "none", "issue", b)
      BY <2>2 DEF login_user
    <3> HIDE DEF b
    <3> QED BY <2>2, <3>1, StartStep DEF login_user
  <2>3. CASE google_by_sub(c, u)
    <3> DEFINE pc == IF account[u].google THEN "issue" ELSE "email"
    <3>1. /\ Start(c, "google", u, NoToken, "none", pc, FALSE)
          /\ pc \in {"issue", "email"}
      BY <2>3 DEF google_by_sub
    <3> HIDE DEF pc
    <3> QED BY <2>3, <3>1, StartStep DEF google_by_sub
  <2> QED BY <1>1, <2>1, <2>2, <2>3
<1>2. ASSUME NEW c \in Calls, insert_user(c)  PROVE CredentialInv'
  <2>1. CASE account[call[c].user].row
    BY <1>2, <2>1, AnswerStep DEF insert_user
  <2>2. CASE ~ account[call[c].user].row
    BY <1>2, <2>2, GotoStep DEF insert_user
  <2> QED BY <2>1, <2>2
<1>3. ASSUME NEW c \in Calls, google_by_email(c)  PROVE CredentialInv'
  BY <1>3, GotoStep DEF google_by_email
<1>4. ASSUME NEW c \in Calls, google_link(c)  PROVE CredentialInv'
  BY <1>4, GotoStep DEF google_link
<1>5. ASSUME NEW c \in Calls, _issue_tokens(c) \/ issue_fails(c)
      PROVE  CredentialInv'
  BY <1>5, AnswerStep DEF _issue_tokens, issue_fails
<1>6. ASSUME NEW c \in Calls, NEW t \in Tokens, refresh_access_token(c, t)
      PROVE  CredentialInv'
  <2>1. CASE Accepted(t)
    <3> DEFINE b == FALSE
    <3>1. Start(c, "refresh", subject[t], t, "none", "issue", b)
      BY <1>6, <2>1 DEF refresh_access_token
    <3> HIDE DEF b
    <3> QED BY <1>6, <3>1, StartStep DEF refresh_access_token
  <2>2. CASE ~ Accepted(t)
    BY <1>6, <2>2 DEF refresh_access_token, CredentialInv, GoodCall
  <2> QED BY <2>1, <2>2
<1>7. ASSUME NEW c \in Calls, NEW k \in Keys,
             revoke_select(c, k) \/ get_current_user_by_key(c, k)
      PROVE  CredentialInv'
  <2>1. CASE revoke_select(c, k)
    <3> DEFINE b == FALSE
    <3>1. Start(c, "revoke", NoAccount, NoToken, k, "commit", b)
      BY <2>1 DEF revoke_select
    <3> HIDE DEF b
    <3> QED BY <2>1, <3>1, StartStep DEF revoke_select
  <2>2. CASE get_current_user_by_key(c, k)
    <3> DEFINE b == key[k] = "active"
    <3>1. /\ Start(c, "use", NoAccount, NoToken, k, "load", b)
          /\ b \/ key[k] = "revoked"
      BY <1>0, <2>2 DEF get_current_user_by_key
    <3> HIDE DEF b
    <3> QED BY <2>2, <3>1, StartStep DEF get_current_user_by_key
  <2> QED BY <1>7, <2>1, <2>2
<1>8. ASSUME NEW c \in Calls, revoke_api_key(c)  PROVE CredentialInv'
  BY <1>0, <1>8, AnswerStep DEF revoke_api_key
<1>9. ASSUME NEW c \in Calls, get_current_user(c)  PROVE CredentialInv'
  <2>1. Start(c, "use", NoAccount, NoToken, "none", "admitted", TRUE)
    BY <1>9 DEF get_current_user, AccessJwt
  <2> QED BY <1>9, <2>1, StartStep DEF get_current_user
<1>10. ASSUME NEW c \in Calls, validate_api_key(c)  PROVE CredentialInv'
  <2>1. CASE key[call[c].item] = "active"
    <3>1. PICK v : /\ v = [call[c] EXCEPT !.pc = "admitted"]
                   /\ call' = [call EXCEPT ![c] = v]
      BY <1>0, <1>10, <2>1 DEF validate_api_key, CallGoto
    <3>2. call[c].since
      BY <1>10, <2>1 DEF validate_api_key, CredentialInv, GoodCall
    <3>3. v.since = call[c].since /\ v.pc = "admitted"
      BY <1>0, <3>1 DEF CallRecord
    <3>4. GoodCall(v)
      BY <3>2, <3>3 DEF GoodCall
    <3>5. UNCHANGED key
      BY <1>10, <2>1 DEF validate_api_key
    <3> QED BY <3>1, <3>4, <3>5, OneCallStep
  <2>2. CASE key[call[c].item] # "active"
    BY <1>10, <2>2, AnswerStep DEF validate_api_key
  <2> QED BY <2>1, <2>2
<1>11. ASSUME NEW c \in Calls, handled(c)  PROVE CredentialInv'
  BY <1>11, AnswerStep DEF handled
<1>12. ASSUME NEW t \in Tokens, logout_user(t) \/ expire_token(t)
       PROVE  CredentialInv'
  BY <1>12 DEF logout_user, expire_token, CredentialInv, GoodCall
<1>13. ASSUME NEW k \in Keys, create_api_key(k)  PROVE CredentialInv'
  BY <1>0, <1>13 DEF create_api_key, CredentialInv, GoodCall
<1>14. CASE UNCHANGED authVars
  BY <1>14 DEF authVars, CredentialInv, GoodCall
<1> QED BY <1>1, <1>2, <1>3, <1>4, <1>5, <1>6, <1>7, <1>8, <1>9, <1>10,
       <1>11, <1>12, <1>13, <1>14 DEF AuthNext, AuthCall

LEMMA CredentialsHold == AuthSpec => []CredentialInv
<1>1. AuthTypeOK /\ CredentialInv /\ [AuthNext]_authVars => CredentialInv'
  BY NextCredentials
<1> QED BY <1>1, InitCredentials, AuthTypes, PTL DEF AuthSpec

(* No protected route is entered with a refresh token, or with a key that  *)
(* was already revoked when the request began, although the key is read    *)
(* twice (dependencies.py get_current_user, services/api_key.py).          *)
THEOREM OnlyValidAdmitted == AuthSpec => []AdmittedWasValid
<1>1. CredentialInv => AdmittedWasValid
  BY DEF CredentialInv, GoodCall, AdmittedWasValid
<1> QED BY <1>1, CredentialsHold, PTL

=============================================================================
