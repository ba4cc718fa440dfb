--------------------------- MODULE RequestLimits ---------------------------
(***************************************************************************)
(* The counters that a request passes on its way in: the rate limiter      *)
(* (middleware/rate_limit.py), the authentication middleware behind it,    *)
(* and the daily upload quota at the top of initiate_upload.  The limiter  *)
(* awaits every Redis command; the quota uses a blocking client, so that   *)
(* one API process does its three commands without serving anybody else,   *)
(* and only other processes interleave.                                    *)
(*                                                                         *)
(* No code writes users.plan, so the limiter's five-minute cache of it is  *)
(* always right and is left out.                                           *)
(***************************************************************************)
EXTENDS Naturals, FiniteSets

CONSTANTS
    Procs,      \* API processes (entrypoint.sh starts one per container)
    Hits,       \* concurrent requests
    OnProc,     \* the process that serves each request
    Users,
    Plan,       \* users.plan
    ApiKeys,    \* the `ofv_...' tokens that clients send
    KeyOwner,   \* whose each is; Nobody if no active key has its hash
    Addresses,  \* client addresses
    Sent,       \* the requests that clients send, out of Requests
    PlanLimit,  \* PLAN_LIMITS of the plans that have one
    AuthLimit,  \* RATE_LIMIT_AUTH_PER_HOUR
    Quota,      \* PLAN_DAILY_UPLOAD_LIMITS of the plans that have one
    MaxHour,    \* bound: hours observed
    MaxHits,    \* bound: requests served
    LimitFaults \* faults of the instance: "redis", "format", and "ttl": EXPIRE
                \* fails, or the process dies between INCR and EXPIRE

LimitedPlans == {"free", "pro"}
Nobody       == "nobody"

(* A request: its route and what it presents.  "exempt" routes are those of *)
(* EXEMPT_PATHS and /internal/; "login" those of AUTH_BRUTE_FORCE_PATHS;   *)
(* "account" the others under /v1/auth/, which get_current_user protects   *)
(* but the middleware does not; "public" a share link.  A token is what    *)
(* the Authorization header has, or else the cookie; "none" is no token or *)
(* one that does not decode; "refresh" is a JWT of the other type.         *)
Paths    == {"exempt", "login", "account", "public", "protected"}
Requests ==
    [path : Paths, from : Addresses, kind : {"none"}, of : {Nobody}]
    \cup [path : Paths, from : Addresses, kind : {"access", "refresh"}, of : Users]
    \cup [path : Paths, from : Addresses, kind : {"apikey"}, of : ApiKeys]

ASSUME LimitsOK ==
    /\ Plan \in [Users -> LimitedPlans \cup {"enterprise"}]
    /\ KeyOwner \in [ApiKeys -> Users \cup {Nobody}] /\ Nobody \notin Users
    /\ Addresses # {} /\ Sent \subseteq Requests
    /\ PlanLimit \in [LimitedPlans -> Nat] /\ Quota \in [LimitedPlans -> Nat]
    /\ AuthLimit \in Nat
    /\ MaxHour \in Nat
    /\ MaxHits \in Nat
    /\ OnProc \in [Hits -> Procs]
    /\ IsFiniteSet(Procs) /\ Procs # {}

VARIABLES
    hour,       \* the clock, in buckets of an hour
    rate,       \* ratelimit:{id}:{bucket}; 0 if there is no such key
    rateTtl,    \* the keys of it that have an expiry
    quota,      \* uploads:{user}:{today}
    quotaTtl,   \* the keys of it that have an expiry
    admitted,   \* history: requests let through by the limiter
    denied,     \* history: requests the authentication middleware rejected
    uploads,    \* history: rows created while the quota was counted
    free,       \* history: uploads let in while Redis failed
    served,     \* history: number of requests
    hit         \* the requests in flight

limitVars == <<hour, rate, rateTtl, quota, quotaTtl, admitted, denied,
               uploads, free, served, hit>>

Hours == 0..MaxHour
HitPc == {"idle", "expire", "check", "auth", "route", "quota", "incr", "ttl",
          "insert"}

(* _identify_request, and the identifier of the credential endpoints.  A    *)
(* key is an identity of its own, on the free plan whoever owns it and     *)
(* whether or not it is a key at all; a JWT of either type is its user.    *)
Identities == ({"authip", "ip"} \X Addresses) \cup ({"apikey"} \X ApiKeys)
                 \cup ({"user"} \X Users)
Identity(q) ==
    IF q.path = "login" THEN <<"authip", q.from>>
    ELSE IF q.kind = "apikey" THEN <<"apikey", q.of>>
    ELSE IF q.kind \in {"access", "refresh"} THEN <<"user", q.of>>
    ELSE <<"ip", q.from>>

Limited(id) == id[1] = "user" => Plan[id[2]] # "enterprise"
LimitOf(id) == IF id[1] = "authip" THEN AuthLimit
               ELSE IF id[1] = "user" THEN PlanLimit[Plan[id[2]]]
               ELSE PlanLimit["free"]

(* Whom get_current_user finds.                                            *)
UserOf(q) == IF q.kind = "access" THEN q.of
             ELSE IF q.kind = "apikey" THEN KeyOwner[q.of]
             ELSE Nobody

Buckets   == Identities \X Hours
NoRequest == [path |-> "exempt", from |-> CHOOSE a \in Addresses : TRUE,
              kind |-> "none", of |-> Nobody]
IdleHit   == [pc |-> "idle", req |-> NoRequest, bucket |-> 0, count |-> 0]

LimitsInit ==
    /\ hour = 0
    /\ rate = [b \in Buckets |-> 0]
    /\ rateTtl = {}
    /\ quota = [u \in Users |-> 0]
    /\ quotaTtl = {}
    /\ admitted = [b \in Buckets |-> 0]
    /\ denied = [b \in Buckets |-> 0]
    /\ uploads = [u \in Users |-> 0]
    /\ free = [u \in Users |-> 0]
    /\ served = 0
    /\ hit = [h \in Hits |-> IdleHit]

Key(h)   == <<Identity(hit[h].req), hit[h].bucket>>
Owner(h) == UserOf(hit[h].req)
AtPc(h, pc) == hit[h].pc = pc
HitGoto(h, pc) == hit' = [hit EXCEPT ![h].pc = pc]
Reply(h)       == hit' = [hit EXCEPT ![h] = IdleHit]

(* A process whose request talks to Redis through the blocking client      *)
(* serves nobody else.                                                     *)
Blocking(h) == hit[h].pc \in {"incr", "ttl"}
Runs(h) == \A o \in Hits \ {h} : OnProc[o] = OnProc[h] => ~ Blocking(o)

rateVars  == <<rate, rateTtl, admitted, denied>>
quotaVars == <<quota, quotaTtl, uploads, free>>

-----------------------------------------------------------------------------
(* dispatch: exempt routes are not counted, nor is a JWT of an unlimited   *)
(* plan.  Mutant: the limiter sits behind the authentication, so that what *)
(* carries no token is not counted.                                        *)
CountedIfKnown(q) == /\ q.path # "exempt" /\ Limited(Identity(q))
                     /\ q.kind # "none"
Counted(q)        == q.path # "exempt" /\ Limited(Identity(q))

dispatch_uncounted(h, q) ==
    /\ AtPc(h, "idle") /\ Runs(h)
    /\ served < MaxHits
    /\ served' = served + 1
    /\ ~ Counted(q)
    /\ hit' = [hit EXCEPT ![h] = [pc |-> "auth", req |-> q, bucket |-> hour,
                                  count |-> 0]]
    /\ UNCHANGED <<hour, rateVars, quotaVars>>

(* _enforce_limit: INCR, then EXPIRE if the count is 1, then the check.    *)
(* Mutant: the comparison is with the count before INCR.                   *)
NeverFirst(count)    == count = 0
FirstOfWindow(count) == count = 1

_enforce_limit(h, q) ==
    LET b == <<Identity(q), hour>>
        count == rate[b] + 1
    IN
    /\ AtPc(h, "idle") /\ Runs(h)
    /\ served < MaxHits
    /\ served' = served + 1
    /\ Counted(q)
    /\ rate' = [rate EXCEPT ![b] = count]
    /\ hit' = [hit EXCEPT ![h] =
                 [pc |-> IF FirstOfWindow(count) THEN "expire" ELSE "check",
                  req |-> q, bucket |-> hour, count |-> count]]
    /\ UNCHANGED <<hour, rateTtl, admitted, denied, quotaVars>>

(* If EXPIRE fails the request ends and the counter has no expiry.         *)
expire_rate(h) ==
    /\ AtPc(h, "expire") /\ Runs(h)
    /\ \/ rateTtl' = rateTtl \cup {Key(h)} /\ HitGoto(h, "check")
       \/ "ttl" \in LimitFaults /\ Reply(h) /\ UNCHANGED rateTtl
    /\ UNCHANGED <<hour, rate, admitted, denied, quotaVars, served>>

(* Mutant: off by one.                                                     *)
OverByOne(count, limit) == count > limit + 1
OverLimit(count, limit) == count > limit

check_rate(h) ==
    /\ AtPc(h, "check") /\ Runs(h)
    /\ IF OverLimit(hit[h].count, LimitOf(Identity(hit[h].req)))
       THEN Reply(h) /\ UNCHANGED admitted
       ELSE /\ admitted' = [admitted EXCEPT ![Key(h)] = @ + 1]
            /\ HitGoto(h, "auth")
    /\ UNCHANGED <<hour, rate, rateTtl, denied, quotaVars, served>>

-----------------------------------------------------------------------------
(* A 401.                                                                  *)
Deny(h) == Reply(h) /\ denied' = [denied EXCEPT ![Key(h)] = @ + 1]

(* AuthMiddleware stands before the protected routes only, and lets every  *)
(* `ofv_...' token pass.                                                   *)
authenticate(h) ==
    LET q == hit[h].req IN
    /\ AtPc(h, "auth") /\ Runs(h)
    /\ IF q.path = "protected" /\ q.kind \in {"none", "refresh"}
       THEN Deny(h)
       ELSE HitGoto(h, "route") /\ UNCHANGED denied
    /\ UNCHANGED <<hour, rate, rateTtl, admitted, quotaVars, served>>

(* get_current_user, then the route: it initiates an upload or does        *)
(* something without a quota.                                              *)
get_current_user(h) ==
    LET q == hit[h].req IN
    /\ AtPc(h, "route") /\ Runs(h)
    /\ q.path \in {"account", "protected"}
    /\ IF UserOf(q) = Nobody
       THEN Deny(h)
       ELSE /\ \/ q.path = "protected" /\ HitGoto(h, "quota")
               \/ Reply(h)
            /\ UNCHANGED denied
    /\ UNCHANGED <<hour, rate, rateTtl, admitted, quotaVars, served>>

(* The routes that ask for no user; login and register may refuse.         *)
open_route(h) ==
    LET q == hit[h].req IN
    /\ AtPc(h, "route") /\ Runs(h)
    /\ \/ q.path \in {"exempt", "public", "login"} /\ Reply(h) /\ UNCHANGED denied
       \/ q.path = "login" /\ Deny(h)
    /\ UNCHANGED <<hour, rate, rateTtl, admitted, quotaVars, served>>

-----------------------------------------------------------------------------
(* initiate_upload, the quota: GET and compare, INCR, EXPIRE if GET said 0. *)
(* Mutant: off by one.                                                     *)
QuotaPassed(count, limit)  == count > limit
QuotaReached(count, limit) == count >= limit

Unlimited(u) == Plan[u] = "enterprise"

read_quota(h) ==
    LET u == Owner(h) IN
    /\ AtPc(h, "quota") /\ Runs(h)
    /\ IF Unlimited(u)
       THEN HitGoto(h, "insert")
       ELSE IF QuotaReached(quota[u], Quota[Plan[u]])
            THEN Reply(h)
            ELSE hit' = [hit EXCEPT ![h].pc = "incr", ![h].count = quota[u]]
    /\ UNCHANGED <<hour, rateVars, quotaVars, served>>

(* Mutant: the comparison is with the count after INCR.                    *)
ExpiresLate(count)  == count = 1
ExpiresQuota(count) == count = 0

incr_quota(h) ==
    /\ AtPc(h, "incr") /\ Runs(h)
    /\ quota' = [quota EXCEPT ![Owner(h)] = @ + 1]
    /\ HitGoto(h, IF ExpiresQuota(hit[h].count) THEN "ttl" ELSE "insert")
    /\ UNCHANGED <<hour, rateVars, quotaTtl, uploads, free, served>>

expire_quota(h) ==
    /\ AtPc(h, "ttl") /\ Runs(h)
    /\ quotaTtl' = quotaTtl \cup {Owner(h)}
    /\ HitGoto(h, "insert")
    /\ UNCHANGED <<hour, rateVars, quota, uploads, free, served>>

(* `except redis.RedisError: pass`: the upload goes on uncounted.          *)
quota_unavailable(h) ==
    /\ "redis" \in LimitFaults
    /\ \/ hit[h].pc \in {"quota", "incr"}
       \/ hit[h].pc = "ttl" /\ "ttl" \in LimitFaults
    /\ Runs(h)
    /\ ~ Unlimited(Owner(h))
    /\ HitGoto(h, "insert")
    /\ free' = [free EXCEPT ![Owner(h)] = @ + 1]
    /\ UNCHANGED <<hour, rateVars, quota, quotaTtl, uploads, served>>

(* The row; an unsupported format is refused only now.                     *)
insert_model(h) ==
    /\ AtPc(h, "insert") /\ Runs(h)
    /\ \/ uploads' = [uploads EXCEPT ![Owner(h)] = @ + 1]
       \/ "format" \in LimitFaults /\ UNCHANGED uploads
    /\ Reply(h)
    /\ UNCHANGED <<hour, rateVars, quota, quotaTtl, free, served>>

-----------------------------------------------------------------------------
(* The clock, and the expiry of a counter: 3600 s after its first request, *)
(* so never within its own hour.  Requests take less than an hour.         *)
next_hour ==
    /\ hour < MaxHour
    /\ hour' = hour + 1
    /\ \A h \in Hits : hit[h].pc \notin {"expire", "check"}
    /\ UNCHANGED <<rateVars, quotaVars, served, hit>>

expired(id, t) ==
    /\ t < hour
    /\ <<id, t>> \in rateTtl
    /\ rate' = [rate EXCEPT ![<<id, t>>] = 0]
    /\ rateTtl' = rateTtl \ {<<id, t>>}
    /\ UNCHANGED <<hour, admitted, denied, quotaVars, served, hit>>

LimitsNext ==
    \/ \E h \in Hits :
          \/ \E q \in Sent : dispatch_uncounted(h, q) \/ _enforce_limit(h, q)
          \/ expire_rate(h) \/ check_rate(h)
          \/ authenticate(h) \/ get_current_user(h) \/ open_route(h)
          \/ read_quota(h) \/ incr_quota(h) \/ expire_quota(h)
          \/ quota_unavailable(h) \/ insert_model(h)
    \/ next_hour
    \/ \E id \in Identities, t \in Hours : expired(id, t)

LimitsSpec == LimitsInit /\ [][LimitsNext]_limitVars

-----------------------------------------------------------------------------
LimitsTypeOK ==
    /\ hour \in Hours
    /\ rate \in [Buckets -> Nat]
    /\ rateTtl \subseteq Buckets
    /\ quota \in [Users -> Nat]
    /\ quotaTtl \subseteq Users
    /\ admitted \in [Buckets -> Nat]
    /\ denied \in [Buckets -> Nat]
    /\ uploads \in [Users -> Nat]
    /\ free \in [Users -> Nat]
    /\ served \in 0..MaxHits
    /\ hit \in [Hits -> [pc : HitPc, req : Requests, bucket : Hours,
                         count : Nat]]

(* In one hour no identity that the limiter counts gets more requests      *)
(* through than its limit, however they interleave and whenever old        *)
(* counters expire.  The identity is not the user, as the limiter's        *)
(* docstring has it: a user has the plan's limit for its JWTs, and the     *)
(* free plan's limit once more for each of its keys.                       *)
RateLimitHolds ==
    \A id \in Identities, t \in Hours :
        Limited(id) => admitted[<<id, t>>] <= LimitOf(id)

(* The limiter counts what is answered 401 behind it (the order in which   *)
(* main.py adds the middleware): in one hour an address is refused at most *)
(* the free plan's limit of times without a token, and AuthLimit times at  *)
(* login; a token that looks like a key, at most the free plan's limit of  *)
(* times.  An address that tries many such tokens has that limit for each: *)
(* no per-IP counter sees them, whatever main.py:113-115 says.             *)
GuessesAreLimited ==
    \A id \in Identities, t \in Hours :
        Limited(id) => denied[<<id, t>>] <= LimitOf(id)

(* The quota is read and incremented in separate commands, so each further *)
(* process may let one upload too many in, and no more than that; with one *)
(* process it is exact, with whichever tokens and keys the user uploads.   *)
(* While Redis fails the quota is not applied.                             *)
QuotaOvershoot ==
    \A u \in Users : ~ Unlimited(u) =>
        uploads[u] <= Quota[Plan[u]] + Cardinality(Procs) - 1 + free[u]

(* Every counter has an expiry, or a request that is about to set it.      *)
CountersExpire ==
    /\ \A b \in Buckets : rate[b] > 0 /\ b \notin rateTtl
          => \E h \in Hits : hit[h].pc = "expire" /\ Key(h) = b
    /\ \A u \in Users : quota[u] > 0 /\ u \notin quotaTtl
          => \E h \in Hits : hit[h].pc = "ttl" /\ Owner(h) = u

(* rate_limit.py:57, "per-user rate limiting": a user's requests are        *)
(* together within its plan's limit, whichever credential they present.    *)
UserIsLimited ==
    \A u \in Users, k \in ApiKeys, t \in Hours :
        Plan[u] # "enterprise" /\ KeyOwner[k] = u
            => admitted[<<<<"user", u>>, t>>] + admitted[<<<<"apikey", k>>, t>>]
                  <= PlanLimit[Plan[u]]

(* main.py:114, "counted against the per-IP rate limit": if all come from  *)
(* one address, guessed keys and requests without a token count together.  *)
AddressIsLimited ==
    \A a \in Addresses, k \in ApiKeys, t \in Hours :
        Addresses = {a} /\ KeyOwner[k] = Nobody
            => denied[<<<<"ip", a>>, t>>] + denied[<<<<"apikey", k>>, t>>]
                  <= PlanLimit["free"]
=============================================================================
