--------------------------- MODULE CountingProofs ---------------------------
(***************************************************************************)
(* What is counted at the edge of the API: requests and uploads against    *)
(* their limits, and the messages and POSTs of webhook jobs.  For any      *)
(* number of callers, requests, API processes, webhooks and workers.       *)
(***************************************************************************)
EXTENDS RequestLimits, WebhookDelivery, FiniteSetTheorems, TLAPS

(* A set that differs from another in at most one element.                 *)
LEMMA OneMoves ==
    ASSUME NEW S, NEW T, NEW x, IsFiniteSet(S), S \ {x} = T \ {x}
    PROVE  /\ IsFiniteSet(T)
           /\ Cardinality(S) \in Nat /\ Cardinality(T) \in Nat
           /\ x \in S /\ x \notin T => Cardinality(S) = Cardinality(T) + 1
           /\ x \notin S /\ x \in T => Cardinality(T) = Cardinality(S) + 1
           /\ (x \in S <=> x \in T) => S = T
<1>1. CASE x \in S <=> x \in T
  <2>1. S = T
    BY <1>1
  <2> QED BY <1>1, <2>1, FS_CardinalityType
<1>2. CASE x \in S /\ x \notin T
  <2>1. T = S \ {x}
    BY <1>2
  <2>2. IsFiniteSet(T) /\ Cardinality(T) = Cardinality(S) - 1
    BY <1>2, <2>1, FS_RemoveElement
  <2>3. Cardinality(S) \in Nat /\ Cardinality(T) \in Nat
    BY <2>2, FS_CardinalityType
  <2> QED BY <1>2, <2>2, <2>3
<1>3. CASE x \notin S /\ x \in T
  <2>1. T = S \cup {x}
    BY <1>3
  <2> QED BY <1>3, <2>1, FS_AddElement, FS_CardinalityType
<1> QED BY <1>1, <1>2, <1>3

-----------------------------------------------------------------------------
(* Limits.  The invariants count requests by where they are.               *)
InFlight        == {h \in Hits : hit[h].pc # "idle"}
ToAdmit(b)      == {h \in Hits : /\ hit[h].pc \in {"expire", "check"}
                                 /\ Key(h) = b
                                 /\ ~ OverLimit(hit[h].count, LimitOf(b[1]))}
ToAuthorize(b)  == {h \in Hits : /\ hit[h].pc \in {"auth", "route"}
                                 /\ hit[h].req.path # "exempt"
                                 /\ Key(h) = b}
ToIncrement(u)  == {h \in Hits : hit[h].pc = "incr" /\ Owner(h) = u}
ToInsert(u)     == {h \in Hits : hit[h].pc \in {"ttl", "insert"}
                                 /\ Owner(h) = u}

Uploading == {"quota", "incr", "ttl", "insert"}

(* Uploads belong to users, and requests at the limiter to this hour.      *)
HitsInv ==
    /\ IsFiniteSet(InFlight)
    /\ \A h \in Hits : hit[h].pc \in Uploading => Owner(h) \in Users
    /\ \A h \in Hits : hit[h].pc \in {"expire", "check"}
                          => hit[h].bucket = hour

LimitedIds   == {id \in Identities : Limited(id)}
LimitedUsers == {u \in Users : ~ Unlimited(u)}

(* Each request counted in this hour is one that was let through or may    *)
(* still be; a bucket of the past takes no more requests.                  *)
RateInv ==
    \A id \in LimitedIds, t \in Hours :
        IF t < hour THEN admitted[<<id, t>>] <= LimitOf(id)
        ELSE LET passing == admitted[<<id, t>>] + Cardinality(ToAdmit(<<id, t>>))
             IN  passing <= LimitOf(id) /\ passing <= rate[<<id, t>>]

(* A denied request was admitted before.                                   *)
DeniedInv ==
    \A id \in LimitedIds, t \in Hours :
        denied[<<id, t>>] + Cardinality(ToAuthorize(<<id, t>>))
            <= admitted[<<id, t>>]

(* One process has one request at the blocking client.                     *)
BlockingInv ==
    \A h, o \in Hits :
        Blocking(h) /\ Blocking(o) /\ OnProc[h] = OnProc[o] => h = o

(* Each row is counted, or came while Redis failed; each request that read *)
(* the counter below the quota and has not incremented it blocks a process.*)
QuotaInv ==
    \A u \in LimitedUsers :
        /\ uploads[u] + Cardinality(ToInsert(u)) <= quota[u] + free[u]
        /\ quota[u] + Cardinality(ToIncrement(u))
              <= Quota[Plan[u]] + Cardinality(Procs) - 1

(* A request that read 0 is the first one as long as the counter is 0.     *)
ReadInv ==
    \A h \in Hits : hit[h].pc = "incr" => hit[h].count <= quota[Owner(h)]

LimitsInv == /\ LimitsTypeOK /\ HitsInv /\ RateInv /\ DeniedInv
             /\ BlockingInv /\ QuotaInv

(* The steps of one request.                                               *)
Steps(h) ==
    \/ \E q \in Sent : dispatch_uncounted(h, q) \/ _enforce_limit(h, q)
    \/ expire_rate(h) \/ check_rate(h)
    \/ authenticate(h) \/ get_current_user(h) \/ open_route(h)
    \/ read_quota(h) \/ incr_quota(h) \/ expire_quota(h)
    \/ quota_unavailable(h) \/ insert_model(h)

HitRecord == [pc : HitPc, req : Requests, bucket : Hours, count : Nat]

(* What the definitions on requests are worth.                             *)
LEMMA RequestTypes ==
    /\ \A q \in Requests : Identity(q) \in Identities
    /\ \A q \in Requests : UserOf(q) \in Users \cup {Nobody}
    /\ Sent \subseteq Requests /\ NoRequest \in Requests
    /\ \A id \in LimitedIds : LimitOf(id) \in Nat
    /\ \A u \in LimitedUsers : Quota[Plan[u]] \in Nat
<1>1. ASSUME NEW q \in Requests
      PROVE  Identity(q) \in Identities /\ UserOf(q) \in Users \cup {Nobody}
  <2>1. /\ q.from \in Addresses
        /\ q.kind = "apikey" => q.of \in ApiKeys
        /\ q.kind \in {"access", "refresh"} => q.of \in Users
    BY DEF Requests
  <2>2. Identity(q) \in Identities
    BY <2>1 DEF Identity, Identities
  <2>3. UserOf(q) \in Users \cup {Nobody}
    BY <2>1, LimitsOK DEF UserOf
  <2> QED BY <2>2, <2>3
<1>2. Sent \subseteq Requests
  BY LimitsOK
<1>3. NoRequest \in Requests
  <2>1. (CHOOSE a \in Addresses : TRUE) \in Addresses
    BY LimitsOK
  <2> QED BY <2>1 DEF NoRequest, Requests, Paths
<1>4. ASSUME NEW id \in LimitedIds  PROVE LimitOf(id) \in Nat
  <2>1. id[1] = "user" => id[2] \in Users
    BY DEF LimitedIds, Identities
  <2>2. id[1] = "user" => Plan[id[2]] \in LimitedPlans
    BY <2>1, LimitsOK DEF LimitedIds, Limited
  <2> QED BY <2>2, LimitsOK DEF LimitOf, LimitedPlans
<1>5. ASSUME NEW u \in LimitedUsers  PROVE Quota[Plan[u]] \in Nat
  BY LimitsOK DEF LimitedUsers, Unlimited
<1> QED BY <1>1, <1>2, <1>3, <1>4, <1>5

(* What an update of one request does.                                     *)
LEMMA HitUpdates ==
    ASSUME LimitsTypeOK, NEW h \in Hits
    PROVE  /\ \A pc \in HitPc : HitGoto(h, pc) =>
                 /\ hit' \in [Hits -> HitRecord]
                 /\ hit'[h].pc = pc
                 /\ hit'[h].req = hit[h].req
                 /\ hit'[h].bucket = hit[h].bucket
                 /\ hit'[h].count = hit[h].count
           /\ Reply(h) => hit' \in [Hits -> HitRecord] /\ hit'[h] = IdleHit
           /\ \A v \in HitRecord : hit' = [hit EXCEPT ![h] = v] =>
                 hit' \in [Hits -> HitRecord] /\ hit'[h] = v
<1>0. hit \in [Hits -> HitRecord] /\ hit[h] \in HitRecord
  BY DEF LimitsTypeOK, HitRecord
<1>1. ASSUME NEW v \in HitRecord, hit' = [hit EXCEPT ![h] = v]
      PROVE  hit' \in [Hits -> HitRecord] /\ hit'[h] = v
  BY <1>0, <1>1
<1>2. ASSUME NEW pc \in HitPc, HitGoto(h, pc)
      PROVE  /\ hit' \in [Hits -> HitRecord]
             /\ hit'[h].pc = pc
             /\ hit'[h].req = hit[h].req
             /\ hit'[h].bucket = hit[h].bucket
             /\ hit'[h].count = hit[h].count
  <2>1. PICK v \in HitRecord : /\ hit' = [hit EXCEPT ![h] = v]
                               /\ v.pc = pc /\ v.req = hit[h].req
                               /\ v.bucket = hit[h].bucket
                               /\ v.count = hit[h].count
    <3> DEFINE v == [hit[h] EXCEPT !.pc = pc]
    <3>1. v \in HitRecord
      BY <1>0 DEF HitRecord
    <3>2. hit' = [hit EXCEPT ![h] = v]
      BY <1>2 DEF HitGoto
    <3> QED BY <1>0, <3>1, <3>2 DEF HitRecord
  <2> QED BY <1>0, <2>1
<1>3. IdleHit \in HitRecord
  BY LimitsOK, RequestTypes DEF IdleHit, HitRecord, HitPc, Hours
<1> QED BY <1>0, <1>1, <1>2, <1>3 DEF Reply

(* The new record of a request that enters or that reads its quota.        *)
LEMMA HitEnters ==
    ASSUME LimitsTypeOK, NEW h \in Hits
    PROVE  /\ \A q \in Sent : dispatch_uncounted(h, q) =>
                 /\ hit' \in [Hits -> HitRecord]
                 /\ hit'[h].pc = "auth" /\ hit'[h].req = q
                 /\ hit'[h].bucket = hour
           /\ \A q \in Sent : _enforce_limit(h, q) =>
                 /\ hit' \in [Hits -> HitRecord]
                 /\ hit'[h].pc = IF FirstOfWindow(rate[<<Identity(q), hour>>] + 1)
                                 THEN "expire" ELSE "check"
                 /\ hit'[h].req = q /\ hit'[h].bucket = hour
                 /\ hit'[h].count = rate[<<Identity(q), hour>>] + 1
           /\ \A n \in Nat :
                 hit' = [hit EXCEPT ![h].pc = "incr", ![h].count = n] =>
                     /\ hit' \in [Hits -> HitRecord]
                     /\ hit'[h].pc = "incr" /\ hit'[h].req = hit[h].req
                     /\ hit'[h].bucket = hit[h].bucket
                     /\ hit'[h].count = n
<1>0. /\ hit \in [Hits -> HitRecord] /\ hit[h] \in HitRecord
      /\ hour \in Hours /\ rate \in [Buckets -> Nat]
      /\ Sent \subseteq Requests
      /\ \A q \in Sent : <<Identity(q), hour>> \in Buckets
  BY RequestTypes DEF LimitsTypeOK, HitRecord, Buckets
<1>1. ASSUME NEW q \in Sent, dispatch_uncounted(h, q)
      PROVE  /\ hit' \in [Hits -> HitRecord]
             /\ hit'[h].pc = "auth" /\ hit'[h].req = q
             /\ hit'[h].bucket = hour
  <2> DEFINE v == [pc |-> "auth", req |-> q, bucket |-> hour, count |-> 0]
  <2>1. v \in HitRecord
    BY <1>0 DEF HitRecord, HitPc
  <2>2. hit' = [hit EXCEPT ![h] = v]
    BY <1>1 DEF dispatch_uncounted
  <2>3. v.pc = "auth" /\ v.req = q /\ v.bucket = hour
    OBVIOUS
  <2> HIDE DEF v
  <2> QED BY <2>1, <2>2, <2>3, HitUpdates
<1>2. ASSUME NEW q \in Sent, _enforce_limit(h, q)
      PROVE  /\ hit' \in [Hits -> HitRecord]
             /\ hit'[h].pc = IF FirstOfWindow(rate[<<Identity(q), hour>>] + 1)
                             THEN "expire" ELSE "check"
             /\ hit'[h].req = q /\ hit'[h].bucket = hour
             /\ hit'[h].count = rate[<<Identity(q), hour>>] + 1
  <2> DEFINE pc == IF FirstOfWindow(rate[<<Identity(q), hour>>] + 1)
                   THEN "expire" ELSE "check"
             n  == rate[<<Identity(q), hour>>] + 1
             v  == [pc |-> pc, req |-> q, bucket |-> hour, count |-> n]
  <2>1. n \in Nat
    BY <1>0
  <2>2. hit' = [hit EXCEPT ![h] = v]
    BY <1>2 DEF _enforce_limit
  <2>3. pc \in HitPc
    BY DEF HitPc
  <2> HIDE DEF pc, n
  <2>4. v \in HitRecord
    BY <1>0, <2>1, <2>3 DEF HitRecord
  <2>5. v.pc = pc /\ v.req = q /\ v.bucket = hour /\ v.count = n
    OBVIOUS
  <2> HIDE DEF v
  <2>6. hit' \in [Hits -> HitRecord] /\ hit'[h] = v
    BY <2>2, <2>4, HitUpdates
  <2> QED BY <2>5, <2>6 DEF pc, n
<1>3. ASSUME NEW n \in Nat,
             hit' = [hit EXCEPT ![h].pc = "incr", ![h].count = n]
      PROVE  /\ hit' \in [Hits -> HitRecord]
             /\ hit'[h].pc = "incr" /\ hit'[h].req = hit[h].req
             /\ hit'[h].bucket = hit[h].bucket
             /\ hit'[h].count = n
  <2> DEFINE v == [[hit[h] EXCEPT !.pc = "incr"] EXCEPT !.count = n]
  <2>1. hit' = [hit EXCEPT ![h] = v]
    BY <1>0, <1>3
  <2>2. v \in HitRecord /\ v.pc = "incr" /\ v.req = hit[h].req
        /\ v.bucket = hit[h].bucket /\ v.count = n
    BY <1>0 DEF HitRecord, HitPc
  <2> HIDE DEF v
  <2> QED BY <2>1, <2>2, HitUpdates
<1> QED BY <1>1, <1>2, <1>3

(* A request's step moves that request only, and keeps what it is.         *)
LEMMA HitStep ==
    ASSUME LimitsTypeOK, HitsInv, NEW h \in Hits, Steps(h)
    PROVE  /\ hit' \in [Hits -> HitRecord]
           /\ \A o \in Hits \ {h} : hit'[o] = hit[o]
           /\ hit'[h].pc \in Uploading => UserOf(hit'[h].req) \in Users
           /\ hit[h].pc # "idle" /\ hit'[h].pc # "idle" =>
                 hit'[h].req = hit[h].req /\ hit'[h].bucket = hit[h].bucket
           /\ hour' = hour /\ Runs(h)
<1>0. \A pc \in HitPc \ {"idle"} : HitGoto(h, pc) /\ hit[h].pc # "idle" =>
         /\ hit' \in [Hits -> HitRecord]
         /\ hit'[h].pc = pc /\ hit'[h].req = hit[h].req
         /\ hit'[h].bucket = hit[h].bucket
  BY HitUpdates
<1>1. Reply(h) => hit' \in [Hits -> HitRecord] /\ hit'[h].pc = "idle"
  BY HitUpdates DEF IdleHit
<1>2. \A o \in Hits \ {h} : hit'[o] = hit[o]
  BY DEF LimitsTypeOK, Steps, dispatch_uncounted, _enforce_limit, expire_rate,
     check_rate, authenticate, get_current_user, open_route, Deny, read_quota,
     incr_quota, expire_quota, quota_unavailable, insert_model, HitGoto, Reply
<1>3. hour' = hour /\ Runs(h)
  BY DEF Steps, dispatch_uncounted, _enforce_limit, expire_rate,
     check_rate, authenticate, get_current_user, open_route, read_quota,
     incr_quota, expire_quota, quota_unavailable, insert_model
<1> DEFINE Kept == /\ hit' \in [Hits -> HitRecord]
                   /\ hit'[h].pc \in Uploading => UserOf(hit'[h].req) \in Users
                   /\ hit[h].pc # "idle" /\ hit'[h].pc # "idle" =>
                        /\ hit'[h].req = hit[h].req
                        /\ hit'[h].bucket = hit[h].bucket
<1>4. CASE \E q \in Sent : dispatch_uncounted(h, q)
  <2>1. Kept
    BY <1>4, HitEnters DEF dispatch_uncounted, AtPc, Uploading
  <2> QED BY <1>2, <1>3, <2>1
<1>5. CASE \E q \in Sent : _enforce_limit(h, q)
  <2>1. Kept
    BY <1>5, HitEnters DEF _enforce_limit, AtPc, Uploading
  <2> QED BY <1>2, <1>3, <2>1
<1>6. CASE read_quota(h)
  <2>1. quota[Owner(h)] \in Nat /\ Owner(h) \in Users
    BY <1>6 DEF read_quota, AtPc, HitsInv, LimitsTypeOK, Uploading
  <2>2. Kept
    BY <1>0, <1>1, <1>6, <2>1, HitEnters DEF read_quota, AtPc, HitPc, Owner,
       Uploading
  <2> QED BY <1>2, <1>3, <2>2
<1>7. CASE expire_rate(h) \/ check_rate(h) \/ authenticate(h) \/ open_route(h)
  <2>1. Kept
    BY <1>0, <1>1, <1>7 DEF expire_rate, check_rate, authenticate, open_route,
       Deny, AtPc, HitPc, Uploading
  <2> QED BY <1>2, <1>3, <2>1
<1>8. CASE get_current_user(h)
  <2>1. UserOf(hit[h].req) \in Users \cup {Nobody}
    BY RequestTypes DEF LimitsTypeOK
  <2>2. Kept
    BY <1>0, <1>1, <1>8, <2>1 DEF get_current_user, Deny, AtPc, HitPc,
       Uploading
  <2> QED BY <1>2, <1>3, <2>2
<1>9. CASE \/ incr_quota(h) \/ expire_quota(h)
           \/ quota_unavailable(h) \/ insert_model(h)
  <2>1. hit[h].pc \in Uploading
    BY <1>9 DEF incr_quota, expire_quota, quota_unavailable, insert_model, AtPc,
       Uploading
  <2>2. UserOf(hit[h].req) \in Users
    BY <2>1 DEF HitsInv, Owner
  <2>3. Kept
    BY <1>0, <1>1, <1>9, <2>2 DEF incr_quota, expire_quota, quota_unavailable,
       insert_model, AtPc, HitPc, Uploading
  <2> QED BY <1>2, <1>3, <2>3
<1> QED BY <1>4, <1>5, <1>6, <1>7, <1>8, <1>9 DEF Steps

(* So the sets that the invariants count change by that request at most.   *)
LEMMA SetsMove ==
    ASSUME LimitsTypeOK, HitsInv, NEW h \in Hits, Steps(h)
    PROVE  /\ IsFiniteSet(InFlight')
           /\ \A b : /\ IsFiniteSet(ToAdmit(b))
                     /\ ToAdmit(b) \ {h} = ToAdmit(b)' \ {h}
           /\ \A b : /\ IsFiniteSet(ToAuthorize(b))
                     /\ ToAuthorize(b) \ {h} = ToAuthorize(b)' \ {h}
           /\ \A u : /\ IsFiniteSet(ToIncrement(u))
                     /\ ToIncrement(u) \ {h} = ToIncrement(u)' \ {h}
           /\ \A u : /\ IsFiniteSet(ToInsert(u))
                     /\ ToInsert(u) \ {h} = ToInsert(u)' \ {h}
<1>0. \A o \in Hits \ {h} : hit'[o] = hit[o]
  BY HitStep
<1>1. IsFiniteSet(InFlight')
  <2>1. InFlight \ {h} = InFlight' \ {h}
    BY <1>0 DEF InFlight
  <2> QED BY <2>1, OneMoves DEF HitsInv
<1>2. ASSUME NEW b
      PROVE  /\ IsFiniteSet(ToAdmit(b))
             /\ ToAdmit(b) \ {h} = ToAdmit(b)' \ {h}
  <2>1. ToAdmit(b) \in SUBSET InFlight
    BY DEF ToAdmit, InFlight
  <2>2. ToAdmit(b) \ {h} = ToAdmit(b)' \ {h}
    BY <1>0 DEF ToAdmit, Key
  <2> QED BY <2>1, <2>2, FS_Subset DEF HitsInv
<1>3. ASSUME NEW b
      PROVE  /\ IsFiniteSet(ToAuthorize(b))
             /\ ToAuthorize(b) \ {h} = ToAuthorize(b)' \ {h}
  <2>1. ToAuthorize(b) \in SUBSET InFlight
    BY DEF ToAuthorize, InFlight
  <2>2. ToAuthorize(b) \ {h} = ToAuthorize(b)' \ {h}
    BY <1>0 DEF ToAuthorize, Key
  <2> QED BY <2>1, <2>2, FS_Subset DEF HitsInv
<1>4. ASSUME NEW u
      PROVE  /\ IsFiniteSet(ToIncrement(u))
             /\ ToIncrement(u) \ {h} = ToIncrement(u)' \ {h}
  <2>1. ToIncrement(u) \in SUBSET InFlight
    BY DEF ToIncrement, InFlight
  <2>2. ToIncrement(u) \ {h} = ToIncrement(u)' \ {h}
    BY <1>0 DEF ToIncrement, Owner
  <2> QED BY <2>1, <2>2, FS_Subset DEF HitsInv
<1>5. ASSUME NEW u
      PROVE  /\ IsFiniteSet(ToInsert(u))
             /\ ToInsert(u) \ {h} = ToInsert(u)' \ {h}
  <2>1. ToInsert(u) \in SUBSET InFlight
    BY DEF ToInsert, InFlight
  <2>2. ToInsert(u) \ {h} = ToInsert(u)' \ {h}
    BY <1>0 DEF ToInsert, Owner
  <2> QED BY <2>1, <2>2, FS_Subset DEF HitsInv
<1> QED BY <1>1, <1>2, <1>3, <1>4, <1>5

(* Types, and where requests belong.                                       *)
LEMMA StepHits ==
    ASSUME LimitsTypeOK, HitsInv, NEW h \in Hits, Steps(h)
    PROVE  LimitsTypeOK' /\ HitsInv'
<1>0. hit \in [Hits -> HitRecord] /\ hit[h] \in HitRecord
  BY DEF LimitsTypeOK, HitRecord
<1>1. /\ hit' \in [Hits -> HitRecord] /\ hour' = hour
      /\ \A o \in Hits \ {h} : hit'[o] = hit[o]
      /\ hit'[h].pc \in Uploading => UserOf(hit'[h].req) \in Users
      /\ IsFiniteSet(InFlight')
  BY HitStep, SetsMove
<1>2. /\ Key(h) \in Buckets
      /\ hit[h].pc \in Uploading => Owner(h) \in Users
  BY <1>0, RequestTypes DEF HitsInv, Key, Buckets, HitRecord
<1>3. hit'[h].pc \in {"expire", "check"} => hit'[h].bucket = hour
  <2>1. ASSUME NEW q \in Sent, dispatch_uncounted(h, q)
        PROVE  hit'[h].pc = "auth"
    BY <2>1, HitEnters
  <2>2. ASSUME NEW q \in Sent, _enforce_limit(h, q)
        PROVE  hit'[h].bucket = hour
    BY <2>2, HitEnters
  <2>3. CASE expire_rate(h)
    BY <2>3, HitUpdates DEF HitsInv, expire_rate, AtPc, HitPc, IdleHit
  <2>4. CASE read_quota(h)
    <3>1. quota[Owner(h)] \in Nat
      BY <1>2, <2>4 DEF read_quota, AtPc, LimitsTypeOK, Uploading
    <3> QED BY <2>4, <3>1, HitEnters, HitUpdates DEF read_quota, HitPc, IdleHit
  <2>5. CASE \/ check_rate(h) \/ authenticate(h) \/ get_current_user(h)
             \/ open_route(h) \/ incr_quota(h)
             \/ expire_quota(h) \/ quota_unavailable(h) \/ insert_model(h)
    BY <2>5, HitUpdates DEF check_rate, authenticate, get_current_user,
       open_route, Deny, incr_quota,
       expire_quota, quota_unavailable, insert_model, HitPc, IdleHit
  <2> QED BY <2>1, <2>2, <2>3, <2>4, <2>5 DEF Steps
<1>4. HitsInv'
  BY <1>1, <1>3 DEF HitsInv, Owner
<1>5. /\ hour' \in Hours /\ hit' \in [Hits -> HitRecord]
  BY <1>1 DEF LimitsTypeOK
<1>6. CASE \E q \in Sent : dispatch_uncounted(h, q) \/ _enforce_limit(h, q)
  <2>1. PICK q \in Sent : dispatch_uncounted(h, q) \/ _enforce_limit(h, q)
    BY <1>6
  <2>2. rate[<<Identity(q), hour>>] + 1 \in Nat
    BY RequestTypes DEF LimitsTypeOK, Buckets
  <2>3. served' \in 0..MaxHits
    BY <2>1, LimitsOK DEF LimitsTypeOK, dispatch_uncounted, _enforce_limit
  <2>4. rate' \in [Buckets -> Nat]
    BY <2>1, <2>2 DEF LimitsTypeOK, dispatch_uncounted, _enforce_limit,
       rateVars
  <2> QED BY <1>4, <1>5, <2>1, <2>3, <2>4 DEF LimitsTypeOK, HitRecord,
          dispatch_uncounted, _enforce_limit, rateVars, quotaVars
<1>7. CASE expire_rate(h) \/ read_quota(h) \/ expire_quota(h)
  <2>1. /\ rateTtl' \subseteq Buckets /\ quotaTtl' \subseteq Users
        /\ UNCHANGED <<rate, admitted, denied, quota, uploads, free, served>>
    BY <1>2, <1>7 DEF LimitsTypeOK, expire_rate, read_quota, expire_quota, AtPc,
       rateVars, quotaVars, Uploading
  <2> QED BY <1>4, <1>5, <2>1 DEF LimitsTypeOK, HitRecord
<1>8. CASE check_rate(h) \/ authenticate(h) \/ get_current_user(h) \/ open_route(h)
  <2>1. admitted' \in [Buckets -> Nat] /\ denied' \in [Buckets -> Nat]
    BY <1>2, <1>8 DEF LimitsTypeOK, check_rate, authenticate, get_current_user,
       open_route, Deny
  <2> QED BY <1>4, <1>5, <1>8, <2>1 DEF LimitsTypeOK, HitRecord, check_rate,
          authenticate, get_current_user, open_route, quotaVars
<1>9. CASE incr_quota(h) \/ quota_unavailable(h) \/ insert_model(h)
  <2>1. /\ quota' \in [Users -> Nat] /\ free' \in [Users -> Nat]
        /\ uploads' \in [Users -> Nat]
    BY <1>2, <1>9 DEF LimitsTypeOK, incr_quota, quota_unavailable,
       insert_model, AtPc, Uploading
  <2> QED BY <1>4, <1>5, <1>9, <2>1 DEF LimitsTypeOK, HitRecord, incr_quota,
          quota_unavailable, insert_model, rateVars
<1> QED BY <1>6, <1>7, <1>8, <1>9 DEF Steps

(* The clock, and the end of an old counter.                               *)
LEMMA ClockHits ==
    ASSUME LimitsTypeOK, HitsInv,
           next_hour \/ \E id \in Identities, t \in Hours : expired(id, t)
    PROVE  LimitsTypeOK' /\ HitsInv'
<1>1. hit' = hit /\ InFlight' = InFlight
  BY DEF next_hour, expired, InFlight
<1>2. CASE next_hour
  <2>1. hour' \in Hours
    BY <1>2, LimitsOK DEF LimitsTypeOK, next_hour, Hours
  <2> QED BY <1>1, <1>2, <2>1
          DEF LimitsTypeOK, HitsInv, Owner, next_hour, rateVars, quotaVars
<1>3. ASSUME NEW id \in Identities, NEW t \in Hours, expired(id, t)
      PROVE  LimitsTypeOK' /\ HitsInv'
  <2>1. rate' \in [Buckets -> Nat] /\ rateTtl' \subseteq Buckets
    BY <1>3 DEF LimitsTypeOK, expired
  <2> QED BY <1>1, <1>3, <2>1 DEF LimitsTypeOK, HitsInv, Owner, expired, quotaVars
<1> QED BY <1>2, <1>3

(* The limiter.  A request that increments a counter that has reached the  *)
(* limit is not among those to admit.                                      *)
LEMMA StepRate ==
    ASSUME LimitsTypeOK, HitsInv, RateInv, NEW h \in Hits, Steps(h)
    PROVE  RateInv'
<1> SUFFICES ASSUME NEW id \in LimitedIds, NEW t \in Hours
             PROVE  IF t < hour' THEN admitted'[<<id, t>>] <= LimitOf(id)
                    ELSE LET passing == admitted'[<<id, t>>]
                                          + Cardinality(ToAdmit(<<id, t>>)')
                         IN  passing <= LimitOf(id) /\ passing <= rate'[<<id, t>>]
  BY DEF RateInv
<1> DEFINE b == <<id, t>>
           S == ToAdmit(b)
           T == ToAdmit(b)'
<1>0. /\ hit[h] \in HitRecord /\ b \in Buckets /\ hour' = hour
      /\ admitted[b] \in Nat /\ rate[b] \in Nat /\ hour \in Nat /\ t \in Nat
      /\ LimitOf(id) \in Nat
  BY HitStep, LimitsOK, RequestTypes
     DEF LimitsTypeOK, HitRecord, Buckets, Hours, LimitedIds
<1>1. /\ Cardinality(S) \in Nat /\ Cardinality(T) \in Nat
      /\ h \in S /\ h \notin T => Cardinality(S) = Cardinality(T) + 1
      /\ h \notin S /\ h \in T => Cardinality(T) = Cardinality(S) + 1
      /\ (h \in S <=> h \in T) => S = T
  <2>1. IsFiniteSet(S) /\ S \ {h} = T \ {h}
    BY SetsMove
  <2> HIDE DEF S, T
  <2> QED BY <2>1, OneMoves
<1>2. IF t < hour THEN admitted[b] <= LimitOf(id)
      ELSE /\ admitted[b] + Cardinality(S) <= LimitOf(id)
           /\ admitted[b] + Cardinality(S) <= rate[b]
  BY DEF RateInv
<1>3. /\ h \in S <=> /\ hit[h].pc \in {"expire", "check"}
                     /\ Key(h) = b /\ ~ OverLimit(hit[h].count, LimitOf(id))
      /\ h \in T <=> /\ hit'[h].pc \in {"expire", "check"}
                     /\ Key(h)' = b /\ ~ OverLimit(hit'[h].count, LimitOf(id))
  BY DEF ToAdmit
<1> DEFINE Same == UNCHANGED <<admitted, rate>> /\ (h \in S <=> h \in T)
<1> HIDE DEF S, T
<1> SUFFICES IF t < hour THEN admitted'[b] <= LimitOf(id)
             ELSE /\ admitted'[b] + Cardinality(T) <= LimitOf(id)
                  /\ admitted'[b] + Cardinality(T) <= rate'[b]
  BY <1>0 DEF T
<1>4. CASE Same
  BY <1>1, <1>2, <1>4
<1>5. ASSUME NEW q \in Sent, _enforce_limit(h, q)
      PROVE  IF t < hour THEN admitted'[b] <= LimitOf(id)
             ELSE /\ admitted'[b] + Cardinality(T) <= LimitOf(id)
                  /\ admitted'[b] + Cardinality(T) <= rate'[b]
  <2>1. h \notin S /\ admitted' = admitted
    BY <1>3, <1>5 DEF _enforce_limit, AtPc
  <2>2. /\ hit'[h].pc \in {"expire", "check"} /\ Key(h)' = <<Identity(q), hour>>
        /\ hit'[h].count = rate[<<Identity(q), hour>>] + 1
    BY <1>5, HitEnters DEF Key
  <2>3. CASE b # <<Identity(q), hour>>
    BY <1>0, <1>1, <1>2, <1>3, <1>5, <2>1, <2>2, <2>3
       DEF LimitsTypeOK, _enforce_limit
  <2>4. CASE b = <<Identity(q), hour>>
    <3>1. rate'[b] = rate[b] + 1
      BY <1>0, <1>5, <2>4 DEF LimitsTypeOK, _enforce_limit
    <3>2. h \in T <=> rate[b] + 1 <= LimitOf(id)
      BY <1>0, <1>3, <2>2, <2>4 DEF OverLimit
    <3> QED BY <1>0, <1>1, <1>2, <2>1, <2>4, <3>1, <3>2
  <2> QED BY <2>3, <2>4
<1>6. CASE expire_rate(h)
  <2>0. UNCHANGED <<admitted, rate>>
    BY <1>6 DEF expire_rate
  <2>1. CASE HitGoto(h, "check")
    <3>1. /\ hit'[h].pc = "check" /\ Key(h)' = Key(h)
          /\ hit'[h].count = hit[h].count
      BY <2>1, HitUpdates DEF HitPc, Key
    <3>2. Same
      BY <1>3, <1>6, <2>0, <3>1 DEF expire_rate, AtPc
    <3> QED BY <1>4, <3>2
  <2>2. CASE Reply(h)
    <3>1. h \notin T
      BY <1>3, <2>2, HitUpdates DEF IdleHit
    <3> QED BY <1>0, <1>1, <1>2, <2>0, <3>1
  <2> QED BY <1>6, <2>1, <2>2 DEF expire_rate
<1>7. CASE check_rate(h)
  <2> DEFINE over == OverLimit(hit[h].count, LimitOf(Identity(hit[h].req)))
  <2>0. /\ AtPc(h, "check") /\ rate' = rate
        /\ IF over THEN Reply(h) /\ UNCHANGED admitted
           ELSE /\ admitted' = [admitted EXCEPT ![Key(h)] = @ + 1]
                /\ HitGoto(h, "auth")
    BY <1>7 DEF check_rate
  <2>1. Key(h) = b => (over <=> OverLimit(hit[h].count, LimitOf(id)))
    BY DEF Key
  <2> HIDE DEF over
  <2>2. h \notin T
    BY <1>3, <2>0, HitUpdates DEF HitPc, IdleHit
  <2>3. h \in S <=> Key(h) = b /\ ~ over
    BY <1>3, <2>0, <2>1 DEF AtPc
  <2>4. admitted'[b] = IF Key(h) = b /\ ~ over THEN admitted[b] + 1 ELSE admitted[b]
    BY <1>0, <2>0 DEF LimitsTypeOK
  <2>5. Key(h) = b => t = hour
    BY <2>0 DEF HitsInv, AtPc, Key
  <2> QED BY <1>0, <1>1, <1>2, <2>0, <2>2, <2>3, <2>4, <2>5
<1>8. ASSUME NEW q \in Sent, dispatch_uncounted(h, q)  PROVE Same
  BY <1>3, <1>8, HitEnters DEF dispatch_uncounted, AtPc, rateVars
<1>9. CASE read_quota(h)
  <2>1. quota[Owner(h)] \in Nat
    BY <1>9 DEF read_quota, AtPc, HitsInv, LimitsTypeOK, Uploading
  <2>2. Same
    BY <1>3, <1>9, <2>1, HitEnters, HitUpdates
       DEF read_quota, AtPc, rateVars, HitPc, IdleHit
  <2> QED BY <1>4, <2>2
<1>10. CASE \/ authenticate(h) \/ get_current_user(h) \/ open_route(h)
            \/ incr_quota(h) \/ expire_quota(h)
            \/ quota_unavailable(h) \/ insert_model(h)
  <2>1. hit[h].pc \notin {"expire", "check"} /\ UNCHANGED <<admitted, rate>>
    BY <1>10 DEF authenticate, get_current_user, open_route, incr_quota,
       expire_quota, quota_unavailable, insert_model, AtPc, rateVars
  <2>2. hit'[h].pc \notin {"expire", "check"}
    BY <1>10, HitUpdates DEF authenticate, get_current_user, open_route, Deny,
       incr_quota, expire_quota, quota_unavailable, insert_model, HitPc, IdleHit
  <2>3. Same
    BY <1>3, <2>1, <2>2
  <2> QED BY <1>4, <2>3
<1> QED BY <1>4, <1>5, <1>6, <1>7, <1>8, <1>9, <1>10 DEF Steps

(* The requests that the authentication denies.                            *)
LEMMA StepDenied ==
    ASSUME LimitsTypeOK, HitsInv, DeniedInv, NEW h \in Hits, Steps(h)
    PROVE  DeniedInv'
<1> SUFFICES ASSUME NEW id \in LimitedIds, NEW t \in Hours
             PROVE  denied'[<<id, t>>] + Cardinality(ToAuthorize(<<id, t>>)')
                       <= admitted'[<<id, t>>]
  BY DEF DeniedInv
<1> DEFINE b == <<id, t>>
           S == ToAuthorize(b)
           T == ToAuthorize(b)'
<1>0. /\ b \in Buckets /\ admitted[b] \in Nat /\ denied[b] \in Nat
  BY DEF LimitsTypeOK, Buckets, LimitedIds
<1>1. /\ Cardinality(S) \in Nat /\ Cardinality(T) \in Nat
      /\ h \in S /\ h \notin T => Cardinality(S) = Cardinality(T) + 1
      /\ h \notin S /\ h \in T => Cardinality(T) = Cardinality(S) + 1
      /\ (h \in S <=> h \in T) => S = T
  <2>1. IsFiniteSet(S) /\ S \ {h} = T \ {h}
    BY SetsMove
  <2> HIDE DEF S, T
  <2> QED BY <2>1, OneMoves
<1>2. denied[b] + Cardinality(S) <= admitted[b]
  BY DEF DeniedInv
<1>3. /\ h \in S <=> /\ hit[h].pc \in {"auth", "route"}
                     /\ hit[h].req.path # "exempt" /\ Key(h) = b
      /\ h \in T <=> /\ hit'[h].pc \in {"auth", "route"}
                     /\ hit'[h].req.path # "exempt" /\ Key(h)' = b
  BY DEF ToAuthorize
<1> DEFINE Same == UNCHANGED <<admitted, denied>> /\ (h \in S <=> h \in T)
<1> HIDE DEF S, T
<1> SUFFICES denied'[b] + Cardinality(T) <= admitted'[b]
  BY DEF T
<1>4. CASE Same
  BY <1>1, <1>2, <1>4
<1>5. CASE check_rate(h)
  <2>1. h \notin S /\ denied' = denied
    BY <1>3, <1>5 DEF check_rate, AtPc
  <2>2. CASE Reply(h) /\ UNCHANGED admitted
    <3>1. Same
      BY <1>3, <2>1, <2>2, HitUpdates DEF IdleHit
    <3> QED BY <1>4, <3>1
  <2>3. CASE /\ admitted' = [admitted EXCEPT ![Key(h)] = @ + 1]
             /\ HitGoto(h, "auth")
    <3>1. h \in T => Key(h) = b
      BY <1>3, <2>3, HitUpdates DEF HitPc, Key
    <3>2. admitted'[b] = IF Key(h) = b THEN admitted[b] + 1 ELSE admitted[b]
      BY <1>0, <2>3 DEF LimitsTypeOK
    <3> QED BY <1>0, <1>1, <1>2, <2>1, <3>1, <3>2
  <2> QED BY <1>5, <2>2, <2>3 DEF check_rate
<1>6. CASE authenticate(h) \/ get_current_user(h) \/ open_route(h)
  <2>0. hit[h].pc \in {"auth", "route"} /\ admitted' = admitted
    BY <1>6 DEF authenticate, get_current_user, open_route, AtPc
  <2>1. CASE Deny(h) /\ hit[h].req.path # "exempt"
    <3>1. h \in S <=> Key(h) = b
      BY <1>3, <2>0, <2>1
    <3>2. denied'[b] = IF Key(h) = b THEN denied[b] + 1 ELSE denied[b]
      BY <1>0, <2>1 DEF LimitsTypeOK, Deny
    <3>3. h \notin T
      BY <1>3, <2>1, HitUpdates DEF Deny, IdleHit
    <3> QED BY <1>0, <1>1, <1>2, <2>0, <3>1, <3>2, <3>3
  <2>2. CASE /\ UNCHANGED denied
             /\ Reply(h) \/ HitGoto(h, "route") \/ HitGoto(h, "quota")
    <3>1. h \in T => h \in S
      BY <1>3, <2>0, <2>2, HitUpdates DEF HitPc, IdleHit, Key
    <3> QED BY <1>0, <1>1, <1>2, <2>0, <2>2, <3>1
  <2>3. \/ Deny(h) /\ hit[h].req.path # "exempt"
        \/ /\ UNCHANGED denied
           /\ Reply(h) \/ HitGoto(h, "route") \/ HitGoto(h, "quota")
    BY <1>6 DEF authenticate, get_current_user, open_route
  <2> QED BY <2>1, <2>2, <2>3
<1>7. ASSUME NEW q \in Sent, _enforce_limit(h, q)  PROVE Same
  <2>1. hit'[h].pc \in {"expire", "check"}
    BY <1>7, HitEnters
  <2> QED BY <1>3, <1>7, <2>1 DEF _enforce_limit, AtPc
<1>8. ASSUME NEW q \in Sent, dispatch_uncounted(h, q)  PROVE Same
  <2>1. /\ Key(h)' = <<Identity(q), hour>> /\ hit'[h].req = q
        /\ UNCHANGED <<admitted, denied>> /\ h \notin S
    BY <1>3, <1>8, HitEnters DEF Key, dispatch_uncounted, AtPc, rateVars
  <2>2. q.path = "exempt" \/ Identity(q) # id
    BY <1>8 DEF dispatch_uncounted, Counted, LimitedIds
  <2> QED BY <1>3, <2>1, <2>2
<1>9. CASE read_quota(h)
  <2>1. quota[Owner(h)] \in Nat
    BY <1>9 DEF read_quota, AtPc, HitsInv, LimitsTypeOK, Uploading
  <2>2. Same
    BY <1>3, <1>9, <2>1, HitEnters, HitUpdates
       DEF read_quota, AtPc, rateVars, HitPc, IdleHit
  <2> QED BY <1>4, <2>2
<1>10. CASE \/ expire_rate(h) \/ incr_quota(h) \/ expire_quota(h)
            \/ quota_unavailable(h) \/ insert_model(h)
  <2>1. hit[h].pc \notin {"auth", "route"} /\ UNCHANGED <<admitted, denied>>
    BY <1>10 DEF expire_rate, incr_quota, expire_quota, quota_unavailable,
       insert_model, AtPc, rateVars
  <2>2. hit'[h].pc \notin {"auth", "route"}
    BY <1>10, HitUpdates DEF expire_rate, incr_quota, expire_quota,
       quota_unavailable, insert_model, HitPc, IdleHit
  <2>3. Same
    BY <1>3, <2>1, <2>2
  <2> QED BY <1>4, <2>3
<1> QED BY <1>4, <1>5, <1>6, <1>7, <1>8, <1>9, <1>10 DEF Steps

(* A request begins to block its process only if no other one does.        *)
LEMMA StepBlocking ==
    ASSUME LimitsTypeOK, HitsInv, BlockingInv, NEW h \in Hits, Steps(h)
    PROVE  BlockingInv'
<1>1. \A o \in Hits \ {h} : hit'[o] = hit[o] /\ (Blocking(o)' <=> Blocking(o))
  BY HitStep DEF Blocking
<1>2. \A o \in Hits \ {h} : OnProc[o] = OnProc[h] => ~ Blocking(o)
  BY HitStep DEF Runs
<1> QED BY <1>1, <1>2 DEF BlockingInv

(* So no more requests are between reading and incrementing the quota of a *)
(* user than there are processes.                                          *)
LEMMA FewIncrement ==
    ASSUME LimitsTypeOK, HitsInv, BlockingInv, NEW u
    PROVE  Cardinality(ToIncrement(u)) <= Cardinality(Procs)
<1>1. IsFiniteSet(ToIncrement(u))
  <2>1. ToIncrement(u) \in SUBSET InFlight
    BY DEF ToIncrement, InFlight
  <2> QED BY <2>1, FS_Subset DEF HitsInv
<1>2. IsFiniteSet(Procs)
  BY LimitsOK
<1> DEFINE f == [h \in ToIncrement(u) |-> OnProc[h]]
<1>3. f \in [ToIncrement(u) -> Procs]
  BY LimitsOK DEF ToIncrement
<1>4. \A h, o \in ToIncrement(u) : f[h] = f[o] => h = o
  BY DEF BlockingInv, Blocking, ToIncrement
<1>5. /\ Cardinality(ToIncrement(u)) \in Nat /\ Cardinality(Procs) \in Nat
  BY <1>1, <1>2, FS_CardinalityType
<1> HIDE DEF f
<1>6. ~ (Cardinality(Procs) < Cardinality(ToIncrement(u)))
  BY <1>1, <1>2, <1>3, <1>4, FS_PigeonHole
<1> QED BY <1>5, <1>6

(* The quota.                                                              *)
LEMMA StepQuota ==
    ASSUME LimitsTypeOK, HitsInv, BlockingInv, QuotaInv,
           NEW h \in Hits, Steps(h)
    PROVE  QuotaInv'
<1> SUFFICES ASSUME NEW u \in LimitedUsers
             PROVE  /\ uploads'[u] + Cardinality(ToInsert(u)')
                          <= quota'[u] + free'[u]
                    /\ quota'[u] + Cardinality(ToIncrement(u)')
                          <= Quota[Plan[u]] + Cardinality(Procs) - 1
  BY DEF QuotaInv
<1> DEFINE I == ToInsert(u)
           J == ToInsert(u)'
           S == ToIncrement(u)
           T == ToIncrement(u)'
<1>0. /\ uploads[u] \in Nat /\ quota[u] \in Nat /\ free[u] \in Nat
      /\ Quota[Plan[u]] \in Nat /\ Cardinality(Procs) \in Nat
  BY LimitsOK, FS_CardinalityType, RequestTypes DEF LimitsTypeOK, LimitedUsers
<1>1. /\ Cardinality(S) \in Nat /\ Cardinality(T) \in Nat
      /\ h \in S /\ h \notin T => Cardinality(S) = Cardinality(T) + 1
      /\ h \notin S /\ h \in T => Cardinality(T) = Cardinality(S) + 1
      /\ (h \in S <=> h \in T) => S = T
  <2>1. IsFiniteSet(S) /\ S \ {h} = T \ {h}
    BY SetsMove
  <2> HIDE DEF S, T
  <2> QED BY <2>1, OneMoves
<1>2. /\ Cardinality(I) \in Nat /\ Cardinality(J) \in Nat
      /\ h \in I /\ h \notin J => Cardinality(I) = Cardinality(J) + 1
      /\ h \notin I /\ h \in J => Cardinality(J) = Cardinality(I) + 1
      /\ (h \in I <=> h \in J) => I = J
  <2>1. IsFiniteSet(I) /\ I \ {h} = J \ {h}
    BY SetsMove
  <2> HIDE DEF I, J
  <2> QED BY <2>1, OneMoves
<1>3. /\ uploads[u] + Cardinality(I) <= quota[u] + free[u]
      /\ quota[u] + Cardinality(S) <= Quota[Plan[u]] + Cardinality(Procs) - 1
  BY DEF QuotaInv
<1>4. /\ h \in S <=> hit[h].pc = "incr" /\ Owner(h) = u
      /\ h \in T <=> hit'[h].pc = "incr" /\ UserOf(hit'[h].req) = u
      /\ h \in I <=> hit[h].pc \in {"ttl", "insert"} /\ Owner(h) = u
      /\ h \in J <=> hit'[h].pc \in {"ttl", "insert"} /\ UserOf(hit'[h].req) = u
  BY DEF ToInsert, ToIncrement, Owner
<1>5. Cardinality(T) <= Cardinality(Procs)
  <2>1. LimitsTypeOK' /\ HitsInv' /\ BlockingInv'
    BY StepHits, StepBlocking
  <2>2. (LimitsTypeOK /\ HitsInv /\ BlockingInv
            => Cardinality(ToIncrement(u)) <= Cardinality(Procs))'
    BY FewIncrement, PTL
  <2> QED BY <2>1, <2>2
<1> DEFINE Goal == /\ uploads'[u] + Cardinality(J) <= quota'[u] + free'[u]
                   /\ quota'[u] + Cardinality(T)
                         <= Quota[Plan[u]] + Cardinality(Procs) - 1
           Same == /\ UNCHANGED <<quota, uploads, free>>
                   /\ (h \in S <=> h \in T) /\ (h \in I <=> h \in J)
<1> HIDE DEF I, J, S, T
<1> SUFFICES Goal
  BY DEF J, T
<1>6. CASE Same
  BY <1>1, <1>2, <1>3, <1>6
<1>7. CASE read_quota(h)
  <2>0. UNCHANGED <<quota, uploads, free>> /\ h \notin S /\ h \notin I
    BY <1>4, <1>7 DEF read_quota, AtPc, quotaVars
  <2>1. CASE Unlimited(Owner(h))
    <3>1. UserOf(hit'[h].req) # u
      BY <1>7, <2>1, HitUpdates DEF read_quota, HitPc, Owner, LimitedUsers
    <3> QED BY <1>4, <1>6, <2>0, <3>1
  <2> DEFINE reached == QuotaReached(quota[Owner(h)], Quota[Plan[Owner(h)]])
  <2>2. CASE ~ Unlimited(Owner(h)) /\ reached
    <3>1. hit'[h].pc = "idle"
      BY <1>7, <2>2, HitUpdates DEF read_quota, IdleHit
    <3> QED BY <1>4, <1>6, <2>0, <3>1
  <2>3. CASE ~ Unlimited(Owner(h)) /\ ~ reached
    <3>1. quota[Owner(h)] \in Nat
      BY <1>7 DEF read_quota, AtPc, HitsInv, LimitsTypeOK, Uploading
    <3>2. hit'[h].pc = "incr" /\ UserOf(hit'[h].req) = Owner(h)
      BY <1>7, <2>3, <3>1, HitEnters DEF read_quota, Owner
    <3>3. CASE Owner(h) = u
      <4>1. quota[u] <= Quota[Plan[u]] - 1
        BY <1>0, <2>3, <3>3 DEF QuotaReached
      <4>2. h \notin J
        BY <1>4, <3>2
      <4> QED BY <1>0, <1>1, <1>2, <1>3, <1>5, <2>0, <4>1, <4>2
    <3>4. CASE Owner(h) # u
      BY <1>4, <1>6, <2>0, <3>2, <3>4
    <3> QED BY <3>3, <3>4
  <2> QED BY <2>1, <2>2, <2>3
<1>8. CASE incr_quota(h)
  <2>1. /\ hit'[h].pc \in {"ttl", "insert"} /\ UserOf(hit'[h].req) = Owner(h)
        /\ hit[h].pc = "incr"
    BY <1>8, HitUpdates DEF incr_quota, HitPc, AtPc, Owner
  <2>2. UNCHANGED <<uploads, free>>
    BY <1>8 DEF incr_quota
  <2>3. CASE Owner(h) = u
    <3>1. quota'[u] = quota[u] + 1
      BY <1>8, <2>3 DEF incr_quota, LimitsTypeOK, LimitedUsers
    <3>2. h \in S /\ h \notin T /\ h \notin I /\ h \in J
      BY <1>4, <2>1, <2>3
    <3> QED BY <1>0, <1>1, <1>2, <1>3, <2>2, <3>1, <3>2
  <2>4. CASE Owner(h) # u
    <3>1. quota'[u] = quota[u]
      BY <1>8, <2>4 DEF incr_quota, LimitsTypeOK, LimitedUsers
    <3>2. h \notin S /\ h \notin T /\ h \notin I /\ h \notin J
      BY <1>4, <2>1, <2>4
    <3> QED BY <1>0, <1>1, <1>2, <1>3, <2>2, <3>1, <3>2
  <2> QED BY <2>3, <2>4
<1>9. CASE quota_unavailable(h)
  <2>1. /\ hit'[h].pc = "insert" /\ UserOf(hit'[h].req) = Owner(h)
        /\ hit[h].pc \in {"quota", "incr", "ttl"}
    BY <1>9, HitUpdates DEF quota_unavailable, HitPc, Owner
  <2>2. UNCHANGED <<uploads, quota>>
    BY <1>9 DEF quota_unavailable
  <2>3. CASE Owner(h) = u
    <3>1. free'[u] = free[u] + 1
      BY <1>9, <2>3 DEF quota_unavailable, LimitsTypeOK, LimitedUsers
    <3>2. h \notin T /\ h \in J
      BY <1>4, <2>1, <2>3
    <3>3. Cardinality(T) <= Cardinality(S) /\ Cardinality(J) <= Cardinality(I) + 1
      BY <1>1, <1>2, <3>2
    <3> QED BY <1>0, <1>1, <1>2, <1>3, <2>2, <3>1, <3>3
  <2>4. CASE Owner(h) # u
    <3>1. free'[u] = free[u]
      BY <1>9, <2>4 DEF quota_unavailable, LimitsTypeOK, LimitedUsers
    <3>2. h \notin S /\ h \notin T /\ h \notin I /\ h \notin J
      BY <1>4, <2>1, <2>4
    <3> QED BY <1>0, <1>1, <1>2, <1>3, <2>2, <3>1, <3>2
  <2> QED BY <2>3, <2>4
<1>10. CASE insert_model(h)
  <2>1. h \notin T /\ h \notin J /\ h \notin S /\ (h \in I <=> Owner(h) = u)
    BY <1>4, <1>10, HitUpdates DEF insert_model, AtPc, IdleHit
  <2>2. UNCHANGED <<quota, free>>
    BY <1>10 DEF insert_model
  <2>3. CASE Owner(h) = u
    <3>1. uploads'[u] \in {uploads[u], uploads[u] + 1}
      BY <1>10, <2>3 DEF insert_model, LimitsTypeOK, LimitedUsers
    <3> QED BY <1>0, <1>1, <1>2, <1>3, <2>1, <2>2, <2>3, <3>1
  <2>4. CASE Owner(h) # u
    <3>1. uploads'[u] = uploads[u]
      BY <1>10, <2>4 DEF insert_model, LimitsTypeOK, LimitedUsers
    <3> QED BY <1>0, <1>1, <1>2, <1>3, <2>1, <2>2, <2>4, <3>1
  <2> QED BY <2>3, <2>4
<1>11. CASE expire_quota(h)
  <2>1. Same
    BY <1>4, <1>11, HitUpdates DEF expire_quota, AtPc, HitPc, Owner
  <2> QED BY <1>6, <2>1
<1>12. ASSUME NEW q \in Sent,
              dispatch_uncounted(h, q) \/ _enforce_limit(h, q)
       PROVE  Same
  <2>1. hit'[h].pc \in {"auth", "expire", "check"} /\ hit[h].pc = "idle"
    BY <1>12, HitEnters DEF dispatch_uncounted, _enforce_limit, AtPc
  <2> QED BY <1>4, <1>12, <2>1 DEF dispatch_uncounted, _enforce_limit, quotaVars
<1>13. CASE \/ expire_rate(h) \/ check_rate(h) \/ authenticate(h)
            \/ get_current_user(h) \/ open_route(h)
  <2>1. /\ hit[h].pc \notin {"incr", "ttl", "insert"}
        /\ UNCHANGED <<quota, uploads, free>>
    BY <1>13 DEF expire_rate, check_rate, authenticate, get_current_user,
       open_route, AtPc, quotaVars
  <2>2. hit'[h].pc \notin {"incr", "ttl", "insert"}
    BY <1>13, HitUpdates DEF expire_rate, check_rate, authenticate,
       get_current_user, open_route, Deny, HitPc, IdleHit
  <2> QED BY <1>4, <1>6, <2>1, <2>2
<1> QED BY <1>6, <1>7, <1>8, <1>9, <1>10, <1>11, <1>12, <1>13 DEF Steps

(* Every step keeps the invariant.                                         *)
LEMMA NextLimits == LimitsInv /\ [LimitsNext]_limitVars => LimitsInv'
<1> SUFFICES ASSUME LimitsInv, [LimitsNext]_limitVars  PROVE LimitsInv'
  OBVIOUS
<1>1. CASE UNCHANGED limitVars
  <2>1. \A x : /\ ToAdmit(x)' = ToAdmit(x) /\ ToAuthorize(x)' = ToAuthorize(x)
               /\ ToInsert(x)' = ToInsert(x)
               /\ ToIncrement(x)' = ToIncrement(x)
    BY <1>1 DEF limitVars, ToAdmit, ToAuthorize, ToInsert, ToIncrement, Key,
       Owner
  <2>2. LimitsTypeOK' /\ HitsInv' /\ BlockingInv'
    BY <1>1 DEF LimitsInv, limitVars, LimitsTypeOK, HitsInv, InFlight,
       Owner, BlockingInv, Blocking
  <2>3. RateInv' /\ DeniedInv' /\ QuotaInv'
    BY <1>1, <2>1 DEF LimitsInv, limitVars, RateInv, DeniedInv, QuotaInv
  <2> QED BY <2>2, <2>3 DEF LimitsInv
<1>2. ASSUME NEW h \in Hits, Steps(h)  PROVE LimitsInv'
  BY <1>2, StepHits, StepRate, StepDenied, StepBlocking, StepQuota
     DEF LimitsInv
<1>3. CASE next_hour \/ \E id \in Identities, t \in Hours : expired(id, t)
  <2>1. \A x : /\ ToAdmit(x)' = ToAdmit(x) /\ ToAuthorize(x)' = ToAuthorize(x)
               /\ ToInsert(x)' = ToInsert(x)
               /\ ToIncrement(x)' = ToIncrement(x)
    BY <1>3 DEF next_hour, expired, ToAdmit, ToAuthorize, ToInsert,
       ToIncrement, Key, Owner
  <2>2. LimitsTypeOK' /\ HitsInv'
    BY <1>3, ClockHits DEF LimitsInv
  <2>3. DeniedInv' /\ QuotaInv' /\ BlockingInv'
    BY <1>3, <2>1 DEF LimitsInv, DeniedInv, QuotaInv, BlockingInv, Blocking,
       next_hour, expired, rateVars, quotaVars
  <2>4. RateInv'
    <3> SUFFICES ASSUME NEW id \in LimitedIds, NEW t \in Hours
                 PROVE  IF t < hour' THEN admitted[<<id, t>>] <= LimitOf(id)
                        ELSE LET passing == admitted[<<id, t>>]
                                          + Cardinality(ToAdmit(<<id, t>>))
                             IN  /\ passing <= LimitOf(id)
                                 /\ passing <= rate'[<<id, t>>]
      <4>1. admitted' = admitted
        BY <1>3 DEF next_hour, expired, rateVars
      <4> QED BY <2>1, <4>1 DEF RateInv
    <3>0. /\ t \in Nat /\ hour \in Nat /\ LimitOf(id) \in Nat
          /\ admitted[<<id, t>>] \in Nat
      BY LimitsOK, RequestTypes
         DEF LimitsInv, LimitsTypeOK, Hours, Buckets, LimitedIds
    <3>1. Cardinality(ToAdmit(<<id, t>>)) \in Nat
      <4>1. ToAdmit(<<id, t>>) \in SUBSET InFlight
        BY DEF ToAdmit, InFlight
      <4> QED BY <4>1, FS_Subset, FS_CardinalityType DEF LimitsInv, HitsInv
    <3>2. CASE next_hour
      <4>1. hour' = hour + 1 /\ rate' = rate
        BY <3>2 DEF next_hour, rateVars
      <4> QED BY <3>0, <3>1, <4>1 DEF LimitsInv, RateInv
    <3>3. ASSUME NEW k \in Identities, NEW c \in Hours, expired(k, c)
          PROVE  /\ hour' = hour
                 /\ t >= hour => rate'[<<id, t>>] = rate[<<id, t>>]
      <4>1. t >= hour => t # c
        BY <3>0, <3>3 DEF expired, Hours
      <4> QED BY <3>3, <4>1
              DEF expired, LimitsInv, LimitsTypeOK, Buckets, LimitedIds
    <3> QED BY <1>3, <3>0, <3>2, <3>3 DEF LimitsInv, RateInv
  <2> QED BY <2>2, <2>3, <2>4 DEF LimitsInv
<1> QED BY <1>1, <1>2, <1>3 DEF LimitsNext, Steps

LEMMA InitLimits == LimitsInit => LimitsInv
<1> SUFFICES ASSUME LimitsInit  PROVE LimitsInv
  OBVIOUS
<1>1. IdleHit \in HitRecord /\ 0 \in Hours /\ 0 \in 0..MaxHits
  BY LimitsOK, RequestTypes DEF IdleHit, HitRecord, HitPc, Hours
<1>2. LimitsTypeOK
  BY <1>1 DEF LimitsInit, LimitsTypeOK, HitRecord
<1>3. /\ InFlight = {}
      /\ \A x : /\ ToAdmit(x) = {} /\ ToAuthorize(x) = {}
                /\ ToInsert(x) = {} /\ ToIncrement(x) = {}
  BY DEF LimitsInit, IdleHit, InFlight, ToAdmit, ToAuthorize, ToInsert,
     ToIncrement
<1> DEFINE Zero(x) == /\ Cardinality(ToAdmit(x)) = 0
                      /\ Cardinality(ToAuthorize(x)) = 0
                      /\ Cardinality(ToInsert(x)) = 0
                      /\ Cardinality(ToIncrement(x)) = 0
<1>4. \A x : Zero(x)
  BY <1>3, FS_EmptySet
<1>5. HitsInv /\ BlockingInv
  BY <1>3, FS_EmptySet DEF LimitsInit, IdleHit, HitsInv, BlockingInv, Blocking,
     Uploading
<1>6. RateInv /\ DeniedInv
  <2>1. \A id \in LimitedIds, t \in Hours :
            /\ admitted[<<id, t>>] = 0 /\ denied[<<id, t>>] = 0
            /\ rate[<<id, t>>] = 0 /\ t \in Nat
            /\ Zero(<<id, t>>) /\ LimitOf(id) \in Nat
    BY <1>4, RequestTypes DEF LimitsInit, Buckets, Hours, LimitedIds
  <2> QED BY <2>1 DEF LimitsInit, RateInv, DeniedInv
<1>7. QuotaInv
  <2>1. Cardinality(Procs) \in Nat /\ Cardinality(Procs) # 0
    BY LimitsOK, FS_CardinalityType, FS_EmptySet
  <2>2. \A u \in LimitedUsers :
            /\ uploads[u] = 0 /\ quota[u] = 0 /\ free[u] = 0
            /\ Zero(u) /\ Quota[Plan[u]] \in Nat
    BY <1>4, RequestTypes DEF LimitsInit, LimitedUsers
  <2> QED BY <2>1, <2>2 DEF QuotaInv
<1> QED BY <1>2, <1>5, <1>6, <1>7 DEF LimitsInv

LEMMA LimitsHold == LimitsSpec => []LimitsInv
  BY InitLimits, NextLimits, PTL DEF LimitsSpec

(***************************************************************************)
(* No identity that the limiter counts - a JWT's user, an `ofv_...' token, *)
(* an address, or an address at login - gets more than its limit through   *)
(* in an hour, whatever number of requests interleave at the limiter's     *)
(* commands and whenever the counters of past hours expire.                *)
(***************************************************************************)
THEOREM RateIsLimited == LimitsSpec => []RateLimitHolds
<1>1. LimitsInv => RateLimitHolds
  <2> SUFFICES ASSUME LimitsInv, NEW id \in LimitedIds, NEW t \in Hours
               PROVE  admitted[<<id, t>>] <= LimitOf(id)
    BY DEF RateLimitHolds, LimitedIds
  <2>1. Cardinality(ToAdmit(<<id, t>>)) \in Nat
    <3>1. ToAdmit(<<id, t>>) \in SUBSET InFlight
      BY DEF ToAdmit, InFlight
    <3> QED BY <3>1, FS_Subset, FS_CardinalityType DEF LimitsInv, HitsInv
  <2>2. admitted[<<id, t>>] \in Nat /\ LimitOf(id) \in Nat
    BY RequestTypes DEF LimitsInv, LimitsTypeOK, Buckets, LimitedIds
  <2> QED BY <2>1, <2>2 DEF LimitsInv, RateInv
<1> QED BY <1>1, LimitsHold, PTL

(***************************************************************************)
(* Requests that are answered 401 behind the limiter are limited too: those *)
(* without a token, and refused logins, by address; those with a token     *)
(* that looks like a key by that token, so that a client which tries many  *)
(* such tokens has a limit for each.                                       *)
(***************************************************************************)
THEOREM DeniedIsLimited == LimitsSpec => []GuessesAreLimited
<1>1. LimitsInv /\ RateLimitHolds => GuessesAreLimited
  <2> SUFFICES ASSUME LimitsInv, RateLimitHolds,
                      NEW id \in LimitedIds, NEW t \in Hours
               PROVE  denied[<<id, t>>] <= LimitOf(id)
    BY DEF GuessesAreLimited, LimitedIds
  <2>1. Cardinality(ToAuthorize(<<id, t>>)) \in Nat
    <3>1. ToAuthorize(<<id, t>>) \in SUBSET InFlight
      BY DEF ToAuthorize, InFlight
    <3> QED BY <3>1, FS_Subset, FS_CardinalityType DEF LimitsInv, HitsInv
  <2>2. /\ admitted[<<id, t>>] \in Nat /\ denied[<<id, t>>] \in Nat
        /\ LimitOf(id) \in Nat
    BY RequestTypes DEF LimitsInv, LimitsTypeOK, Buckets, LimitedIds
  <2> QED BY <2>1, <2>2 DEF LimitsInv, DeniedInv, RateLimitHolds,
          LimitedIds
<1> QED BY <1>1, LimitsHold, RateIsLimited, PTL

(***************************************************************************)
(* Reading the upload quota and incrementing it are two commands: each API *)
(* process beyond the first may let one upload too many in, and no more,   *)
(* besides those let in while Redis failed.                                *)
(***************************************************************************)
THEOREM QuotaAlmostHolds == LimitsSpec => []QuotaOvershoot
<1>1. LimitsInv => QuotaOvershoot
  <2> SUFFICES ASSUME LimitsInv, NEW u \in LimitedUsers
               PROVE  uploads[u] <= Quota[Plan[u]] + Cardinality(Procs) - 1 + free[u]
    BY DEF QuotaOvershoot, LimitedUsers
  <2>1. /\ Cardinality(ToInsert(u)) \in Nat
        /\ Cardinality(ToIncrement(u)) \in Nat
    <3>1. ToInsert(u) \in SUBSET InFlight /\ ToIncrement(u) \in SUBSET InFlight
      BY DEF ToInsert, ToIncrement, InFlight
    <3> QED BY <3>1, FS_Subset, FS_CardinalityType DEF LimitsInv, HitsInv
  <2>2. /\ uploads[u] \in Nat /\ quota[u] \in Nat /\ free[u] \in Nat
        /\ Quota[Plan[u]] \in Nat /\ Cardinality(Procs) \in Nat
    BY LimitsOK, FS_CardinalityType, RequestTypes
       DEF LimitsInv, LimitsTypeOK, LimitedUsers
  <2> QED BY <2>1, <2>2 DEF LimitsInv, QuotaInv
<1> QED BY <1>1, LimitsHold, PTL

(* Whether counters expire.  A request that read 0 is the first one as     *)
(* long as the counter is 0: what it read is never more than the counter.  *)
ExpireInv == ReadInv /\ CountersExpire

LEMMA StepRead ==
    ASSUME LimitsTypeOK, HitsInv, ReadInv, NEW h \in Hits, Steps(h)
    PROVE  ReadInv'
<1>0. /\ \A o \in Hits \ {h} : hit'[o] = hit[o]
      /\ hit' \in [Hits -> HitRecord]
  BY HitStep
<1>1. \A u \in Users : /\ quota[u] \in Nat /\ quota'[u] \in Nat
                         /\ quota[u] <= quota'[u]
  <2>1. quota' = quota \/ incr_quota(h)
    BY DEF Steps, dispatch_uncounted, _enforce_limit, expire_rate, check_rate,
       authenticate, get_current_user, open_route, read_quota, expire_quota,
       quota_unavailable, insert_model, quotaVars
  <2>2. quota \in [Users -> Nat]
    BY DEF LimitsTypeOK
  <2>3. CASE incr_quota(h)
    BY <2>2, <2>3 DEF incr_quota
  <2> QED BY <2>1, <2>2, <2>3
<1>2. \A o \in Hits : o # h /\ hit[o].pc = "incr" =>
         hit[o].count \in Nat /\ Owner(o) \in Users
  BY DEF LimitsTypeOK, HitsInv, Uploading
<1>3. hit'[h].pc = "incr" => hit'[h].count <= quota'[UserOf(hit'[h].req)]
  <2>1. CASE read_quota(h)
    <3>1. Owner(h) \in Users /\ quota[Owner(h)] \in Nat
      BY <2>1 DEF read_quota, AtPc, HitsInv, LimitsTypeOK, Uploading
    <3> DEFINE stops == \/ Unlimited(Owner(h))
                        \/ QuotaReached(quota[Owner(h)], Quota[Plan[Owner(h)]])
    <3>2. CASE stops
      BY <2>1, <3>2, HitUpdates DEF read_quota, HitPc, IdleHit
    <3>3. CASE ~ stops
      BY <2>1, <3>1, <3>3, HitEnters DEF read_quota, quotaVars, Owner
    <3> QED BY <3>2, <3>3
  <2>2. CASE \E q \in Sent : dispatch_uncounted(h, q) \/ _enforce_limit(h, q)
    BY <2>2, HitEnters
  <2>3. CASE \/ expire_rate(h) \/ check_rate(h) \/ authenticate(h)
             \/ get_current_user(h) \/ open_route(h) \/ incr_quota(h) \/ expire_quota(h)
             \/ quota_unavailable(h) \/ insert_model(h)
    BY <2>3, HitUpdates DEF expire_rate, check_rate, authenticate,
       get_current_user, open_route, Deny, incr_quota, expire_quota,
       quota_unavailable, insert_model, HitPc, IdleHit
  <2> QED BY <2>1, <2>2, <2>3 DEF Steps
<1> SUFFICES ASSUME NEW o \in Hits, o # h, hit'[o].pc = "incr"
             PROVE  hit'[o].count <= quota'[UserOf(hit'[o].req)]
  BY <1>3 DEF ReadInv, Owner
<1>4. hit[o].count <= quota[Owner(o)]
  BY <1>0 DEF ReadInv
<1> QED BY <1>0, <1>1, <1>2, <1>4 DEF Owner

LEMMA StepExpire ==
    ASSUME "ttl" \notin LimitFaults,
           LimitsTypeOK, HitsInv, ExpireInv, NEW h \in Hits, Steps(h)
    PROVE  CountersExpire'
<1>0. /\ \A o \in Hits \ {h} : hit'[o] = hit[o] /\ Key(o)' = Key(o)
      /\ rate \in [Buckets -> Nat] /\ quota \in [Users -> Nat]
  BY HitStep DEF Key, LimitsTypeOK
<1>1. ASSUME NEW b \in Buckets, rate'[b] > 0, b \notin rateTtl'
      PROVE  \E o \in Hits : hit'[o].pc = "expire" /\ Key(o)' = b
  <2>1. ASSUME NEW q \in Sent, _enforce_limit(h, q), b = <<Identity(q), hour>>,
               rate[b] = 0
        PROVE  \E o \in Hits : hit'[o].pc = "expire" /\ Key(o)' = b
    <3>1. FirstOfWindow(rate[<<Identity(q), hour>>] + 1)
      BY <2>1 DEF FirstOfWindow
    <3>2. hit'[h].pc = "expire" /\ Key(h)' = b
      BY <2>1, <3>1, HitEnters DEF Key
    <3> QED BY <3>2
  <2>2. CASE rate[b] > 0
    <3>1. b \notin rateTtl
      BY <1>1 DEF Steps, dispatch_uncounted, _enforce_limit, expire_rate,
         check_rate, authenticate, get_current_user, open_route, read_quota,
         incr_quota, expire_quota,
         quota_unavailable, insert_model, rateVars
    <3>2. PICK o \in Hits : hit[o].pc = "expire" /\ Key(o) = b
      BY <2>2, <3>1 DEF ExpireInv, CountersExpire
    <3>3. o # h
      <4> SUFFICES ASSUME o = h  PROVE FALSE
        OBVIOUS
      <4>1. expire_rate(h)
        BY <3>2 DEF Steps, dispatch_uncounted, _enforce_limit,
           check_rate, authenticate, get_current_user, open_route, read_quota,
         incr_quota, expire_quota,
           quota_unavailable, insert_model, AtPc
      <4> QED BY <1>1, <3>2, <4>1 DEF expire_rate
    <3> QED BY <1>0, <3>2, <3>3
  <2>3. CASE rate[b] = 0
    <3>1. rate' # rate
      BY <1>1, <2>3
    <3>2. PICK q \in Sent : _enforce_limit(h, q)
      BY <3>1 DEF Steps, dispatch_uncounted, expire_rate,
         check_rate, authenticate, get_current_user, open_route, read_quota,
         incr_quota, expire_quota,
         quota_unavailable, insert_model, rateVars
    <3>3. b = <<Identity(q), hour>>
      BY <1>0, <1>1, <2>3, <3>2 DEF _enforce_limit
    <3> QED BY <2>1, <2>3, <3>2, <3>3
  <2> QED BY <1>0, <2>2, <2>3
<1>2. ASSUME NEW u \in Users, quota'[u] > 0, u \notin quotaTtl'
      PROVE  \E o \in Hits : hit'[o].pc = "ttl" /\ UserOf(hit'[o].req) = u
  <2>1. CASE quota[u] > 0
    <3>1. u \notin quotaTtl
      BY <1>2 DEF Steps, dispatch_uncounted, _enforce_limit, expire_rate,
         check_rate, authenticate, get_current_user, open_route, read_quota,
         incr_quota, expire_quota,
         quota_unavailable, insert_model, quotaVars
    <3>2. PICK o \in Hits : hit[o].pc = "ttl" /\ Owner(o) = u
      BY <2>1, <3>1 DEF ExpireInv, CountersExpire
    <3>3. o # h
      <4> SUFFICES ASSUME o = h  PROVE FALSE
        OBVIOUS
      <4>1. expire_quota(h)
        BY <3>2 DEF Steps, dispatch_uncounted, _enforce_limit, expire_rate,
           check_rate, authenticate, get_current_user, open_route, read_quota,
         incr_quota,
           quota_unavailable, insert_model, AtPc
      <4> QED BY <1>2, <3>2, <4>1 DEF expire_quota
    <3> QED BY <1>0, <3>2, <3>3 DEF Owner
  <2>2. CASE quota[u] = 0
    <3>1. quota' # quota
      BY <1>2, <2>2
    <3>2. incr_quota(h)
      BY <3>1 DEF Steps, dispatch_uncounted, _enforce_limit, expire_rate,
         check_rate, authenticate, get_current_user, open_route, read_quota,
         expire_quota,
         quota_unavailable, insert_model, quotaVars
    <3>3. Owner(h) = u
      BY <1>0, <1>2, <2>2, <3>2 DEF incr_quota
    <3>4. hit[h].count = 0
      BY <2>2, <3>2, <3>3
         DEF incr_quota, AtPc, ExpireInv, ReadInv, LimitsTypeOK
    <3>5. hit'[h].pc = "ttl" /\ UserOf(hit'[h].req) = u
      BY <3>2, <3>3, <3>4, HitUpdates DEF incr_quota, ExpiresQuota, HitPc,
         Owner
    <3> QED BY <3>5
  <2> QED BY <1>0, <2>1, <2>2
<1> QED BY <1>1, <1>2 DEF CountersExpire, Owner

(***************************************************************************)
(* Every counter in Redis has an expiry or a request that is about to set  *)
(* it, so that nobody is shut out for good: as long as EXPIRE does not     *)
(* fail after the INCR that it belongs to.                                 *)
(***************************************************************************)
THEOREM CountersDoExpire ==
    ASSUME "ttl" \notin LimitFaults
    PROVE  LimitsSpec => []CountersExpire
<1>1. LimitsInit => ExpireInv
  BY DEF LimitsInit, IdleHit, ExpireInv, ReadInv, CountersExpire
<1>2. LimitsInv /\ ExpireInv /\ [LimitsNext]_limitVars => ExpireInv'
  <2> SUFFICES ASSUME LimitsInv, ExpireInv, [LimitsNext]_limitVars
               PROVE  ExpireInv'
    OBVIOUS
  <2>1. CASE UNCHANGED limitVars
    BY <2>1 DEF limitVars, ExpireInv, ReadInv, CountersExpire, Key, Owner
  <2>2. ASSUME NEW h \in Hits, Steps(h)  PROVE ExpireInv'
    BY <2>2, StepRead, StepExpire DEF LimitsInv, ExpireInv
  <2>3. CASE next_hour
    BY <2>3 DEF next_hour, rateVars, quotaVars, ExpireInv, ReadInv,
       CountersExpire, Key, Owner
  <2>4. ASSUME NEW id \in Identities, NEW t \in Hours, expired(id, t)
        PROVE  ExpireInv'
    <3>1. \A b \in Buckets : b # <<id, t>> =>
             rate'[b] = rate[b] /\ (b \in rateTtl' <=> b \in rateTtl)
      BY <2>4 DEF expired, LimitsInv, LimitsTypeOK
    <3>2. ~ (rate'[<<id, t>>] > 0)
      BY <2>4 DEF expired, LimitsInv, LimitsTypeOK, Buckets
    <3> QED BY <2>4, <3>1, <3>2 DEF expired, quotaVars, ExpireInv, ReadInv,
            CountersExpire, Key, Owner
  <2> QED BY <2>1, <2>2, <2>3, <2>4 DEF LimitsNext, Steps
<1>3. ExpireInv => CountersExpire
  BY DEF ExpireInv
<1> QED BY <1>1, <1>2, <1>3, LimitsHold, PTL DEF LimitsSpec

-----------------------------------------------------------------------------
(* Webhooks.                                                               *)
(* Workers that may still send a retry or a first POST, the tries that a   *)
(* message or a worker still has, and POSTs that may still be made.        *)
Unanswered(j) == {w \in Holders(j) : task[w].answer \notin {"2xx", "4xx"}}
NextTry(w)    == IF task[w].pc \in {"url", "post"} THEN task[w].try
                                                   ELSE task[w].try + 1
MessagePosts(j) == UNION {{m} \X (m[1] .. MaxRetries) : m \in Messages(j)}
HolderPosts(j)  == UNION {{w} \X (NextTry(w) .. MaxRetries) : w \in Holders(j)}

(* Tasks have a job that was sent; of a job to be sent there is nothing.   *)
TasksInv ==
    /\ \A w \in Workers :
          /\ task[w].pc = "idle" <=> task[w].job = NoJob
          /\ task[w].job <= sent
          /\ task[w].pc \in {"url", "post"} => task[w].answer = "none"
    /\ \A j \in Jobs : j > sent =>
          /\ \A n \in Tries : waiting[<<j, n>>] = 0
          /\ posts[j] = 0 /\ final[j] = 0 /\ ended[j] = 0
          /\ j \notin accepted

FiniteInv ==
    \A j \in Jobs : /\ IsFiniteSet(Messages(j)) /\ IsFiniteSet(Holders(j))
                    /\ IsFiniteSet(MessagePosts(j))
                    /\ IsFiniteSet(HolderPosts(j))

(* Only a crash multiplies messages, and only those of the job it hurts.   *)
CopiesInv ==
    \A j \in Jobs : /\ Live(j) + ended[j] <= 1 + crashes
                    /\ j \notin hurt => Live(j) + ended[j] <= 1

(* What was answered for good, and what may still be.                      *)
FinalInv ==
    \A j \in Jobs :
        final[j] + Cardinality(Messages(j)) + Cardinality(Unanswered(j))
            <= 1 + crashes

(* The POSTs made and those that may still be made.                        *)
PostsInv ==
    \A j \in Jobs :
        posts[j] + Cardinality(MessagePosts(j)) + Cardinality(HolderPosts(j))
            <= (MaxRetries + 1) * (1 + crashes)

(* Between the answer and the INSERT the worker has the answer.            *)
LogInv ==
    \A j \in accepted :
        \/ j \in log \/ j \in hurt
        \/ hook[job[j].hook].row = "deleted"
        \/ \E w \in Workers : /\ task[w].job = j /\ task[w].pc = "log"
                              /\ task[w].answer = "2xx"

TaskRecord == [pc : TaskPc, job : Jobs \cup {NoJob}, try : Tries,
               public : BOOLEAN, answer : Answers]

(* What the updates of a task do.                                          *)
LEMMA TaskUpdates ==
    ASSUME HookTypeOK, NEW w \in Workers
    PROVE  /\ \A pc \in TaskPc, a \in Answers : TaskGoto(w, pc, a) =>
                 /\ task' \in [Workers -> TaskRecord]
                 /\ task'[w].pc = pc /\ task'[w].answer = a
                 /\ task'[w].job = task[w].job /\ task'[w].try = task[w].try
           /\ \A b \in BOOLEAN :
                 task' = [task EXCEPT ![w].pc = "post", ![w].public = b] =>
                 /\ task' \in [Workers -> TaskRecord]
                 /\ task'[w].pc = "post" /\ task'[w].answer = task[w].answer
                 /\ task'[w].job = task[w].job /\ task'[w].try = task[w].try
           /\ \A j \in Jobs, n \in Tries :
                 task' = [task EXCEPT ![w] = [IdleTask EXCEPT !.pc = "url",
                                                 !.job = j, !.try = n]] =>
                 /\ task' \in [Workers -> TaskRecord]
                 /\ task'[w].pc = "url" /\ task'[w].answer = "none"
                 /\ task'[w].job = j /\ task'[w].try = n
           /\ task' = [task EXCEPT ![w] = IdleTask] =>
                 /\ task' \in [Workers -> TaskRecord]
                 /\ task'[w] = IdleTask
<1>0. task \in [Workers -> TaskRecord] /\ task[w] \in TaskRecord
  BY DEF HookTypeOK, TaskRecord
<1>1. ASSUME NEW pc \in TaskPc, NEW a \in Answers, TaskGoto(w, pc, a)
      PROVE  /\ task' \in [Workers -> TaskRecord]
             /\ task'[w].pc = pc /\ task'[w].answer = a
             /\ task'[w].job = task[w].job /\ task'[w].try = task[w].try
  <2> DEFINE v == [[[task[w] EXCEPT !.pc = pc] EXCEPT !.answer = a]
                      EXCEPT !.public = TRUE]
  <2>1. task' = [task EXCEPT ![w] = v]
    BY <1>0, <1>1 DEF TaskGoto
  <2>2. v \in TaskRecord /\ v.pc = pc /\ v.answer = a
        /\ v.job = task[w].job /\ v.try = task[w].try
    BY <1>0 DEF TaskRecord
  <2> HIDE DEF v
  <2> QED BY <1>0, <2>1, <2>2
<1>2. ASSUME NEW b \in BOOLEAN,
             task' = [task EXCEPT ![w].pc = "post", ![w].public = b]
      PROVE  /\ task' \in [Workers -> TaskRecord]
             /\ task'[w].pc = "post" /\ task'[w].answer = task[w].answer
             /\ task'[w].job = task[w].job /\ task'[w].try = task[w].try
  <2> DEFINE v == [[task[w] EXCEPT !.pc = "post"] EXCEPT !.public = b]
  <2>1. task' = [task EXCEPT ![w] = v]
    BY <1>0, <1>2
  <2>2. v \in TaskRecord /\ v.pc = "post" /\ v.answer = task[w].answer
        /\ v.job = task[w].job /\ v.try = task[w].try
    BY <1>0 DEF TaskRecord, TaskPc
  <2> HIDE DEF v
  <2> QED BY <1>0, <2>1, <2>2
<1>3. ASSUME NEW j \in Jobs, NEW n \in Tries,
             task' = [task EXCEPT ![w] = [IdleTask EXCEPT !.pc = "url",
                                             !.job = j, !.try = n]]
      PROVE  /\ task' \in [Workers -> TaskRecord]
             /\ task'[w].pc = "url" /\ task'[w].answer = "none"
             /\ task'[w].job = j /\ task'[w].try = n
  <2> DEFINE v == [IdleTask EXCEPT !.pc = "url", !.job = j, !.try = n]
  <2>2. v \in TaskRecord /\ v.pc = "url" /\ v.answer = "none"
        /\ v.job = j /\ v.try = n
    BY DEF TaskRecord, TaskPc, IdleTask, Answers
  <2>3. task' = [task EXCEPT ![w] = v]
    BY <1>3
  <2> HIDE DEF v
  <2> QED BY <1>0, <2>2, <2>3
<1>4. IdleTask \in TaskRecord
  BY HooksOK DEF IdleTask, TaskRecord, TaskPc, Tries, Answers
<1> QED BY <1>0, <1>1, <1>2, <1>3, <1>4

(* A worker's step moves that worker only.                                 *)
WorkerSteps(w) == RunTask(w) \/ Take(w) \/ crash(w)

LEMMA WorkerStep ==
    ASSUME HookTypeOK, TasksInv, NEW w \in Workers, WorkerSteps(w)
    PROVE  /\ task' \in [Workers -> TaskRecord]
           /\ \A v \in Workers \ {w} : task'[v] = task[v]
           /\ task[w].pc # "idle" => task[w].job \in 1 .. sent
           /\ UNCHANGED <<hook, sent, job>>
<1>0. task \in [Workers -> TaskRecord] /\ task[w] \in TaskRecord
  BY DEF HookTypeOK, TaskRecord
<1>1. task[w].pc # "idle" => task[w].job \in 1 .. sent
  BY <1>0 DEF TasksInv, TaskRecord, Jobs, NoJob, HookTypeOK
<1>2. /\ \A v \in Workers \ {w} : task'[v] = task[v]
      /\ UNCHANGED <<hook, sent, job>>
  BY <1>0 DEF WorkerSteps, RunTask, Take, take, crash, get_webhook_row,
     get_webhook_row_fails, deliver, log_delivery, finish, retry, ack,
     SendRetry, EndTask, TaskGoto, senderVars
<1>3. CASE Take(w)
  <2>1. PICK j \in Jobs, n \in Tries : take(w, j, n)
    BY <1>3 DEF Take
  <2>2. task' = [task EXCEPT ![w] = [IdleTask EXCEPT !.pc = "url", !.job = j,
                                                    !.try = n]]
    BY <2>1 DEF take
  <2>3. task' \in [Workers -> TaskRecord]
    BY <2>2, TaskUpdates
  <2> QED BY <1>1, <1>2, <2>3
<1>4. CASE get_webhook_row(w)
  <2>1. hook[job[task[w].job].hook].public \in BOOLEAN
    <3>1. task[w].job \in Jobs
      <4>1. task[w].pc # "idle"
        BY <1>4 DEF get_webhook_row
      <4>2. sent \in 0 .. MaxJobs /\ MaxJobs \in Nat
        BY HooksOK DEF HookTypeOK
      <4> QED BY <1>1, <4>1, <4>2 DEF Jobs
    <3>2. job[task[w].job].hook \in Hooks
      BY <3>1 DEF HookTypeOK
    <3> QED BY <3>2 DEF HookTypeOK, Row
  <2> QED BY <1>1, <1>2, <1>4, <2>1, TaskUpdates DEF get_webhook_row, EndTask
<1>5. CASE deliver(w)
  BY <1>1, <1>2, <1>5, TaskUpdates DEF deliver, Answers, TaskPc
<1>6. CASE log_delivery(w)
  BY <1>0, <1>1, <1>2, <1>6, TaskUpdates DEF log_delivery, TaskPc, TaskRecord
<1>7. CASE retry(w)
  BY <1>1, <1>2, <1>7, TaskUpdates DEF retry, TaskPc, Answers
<1>8. CASE crash(w) \/ get_webhook_row_fails(w) \/ finish(w) \/ ack(w)
  BY <1>1, <1>2, <1>8, TaskUpdates
     DEF crash, get_webhook_row_fails, finish, ack, EndTask
<1> QED BY <1>3, <1>4, <1>5, <1>6, <1>7, <1>8 DEF WorkerSteps, RunTask

(* Types.                                                                  *)
LEMMA NextHookTypes ==
    ASSUME HookTypeOK, TasksInv, HookNext  PROVE HookTypeOK'
<1>0. MaxRetries \in Nat /\ MaxJobs \in Nat /\ MaxCrashes \in Nat
  BY HooksOK
<1>1. ASSUME NEW h \in Hooks, update_webhook(h) \/ delete_webhook(h)
      PROVE  HookTypeOK'
  <2>1. hook' \in [Hooks -> Row] /\ log' \subseteq Jobs
    <3>1. CASE update_webhook(h)
      <4>1. PICK a, s, p \in BOOLEAN :
               hook' = [hook EXCEPT ![h] = [row |-> "live", active |-> a,
                                        subscribed |-> s, public |-> p]]
        BY <3>1 DEF update_webhook
      <4>2. [row |-> "live", active |-> a, subscribed |-> s, public |-> p]
               \in Row
        BY DEF Row
      <4> QED BY <3>1, <4>1, <4>2 DEF update_webhook, taskVars, HookTypeOK
    <3>2. CASE delete_webhook(h)
      <4>1. Gone \in Row
        BY DEF Gone, Row
      <4> QED BY <3>2, <4>1 DEF delete_webhook, HookTypeOK
    <3> QED BY <1>1, <3>1, <3>2
  <2> QED BY <1>1, <2>1 DEF HookTypeOK, update_webhook, delete_webhook,
          senderVars, taskVars, historyVars, answerVars
<1>2. ASSUME NEW s \in Sources, select_webhooks(s) \/ send_task_fails(s)
      PROVE  HookTypeOK'
  <2>1. fanout' \in [Sources -> SUBSET Hooks]
    BY <1>2 DEF HookTypeOK, select_webhooks, send_task_fails
  <2> QED BY <1>2, <2>1 DEF HookTypeOK, select_webhooks, send_task_fails,
          taskVars
<1>3. ASSUME NEW s \in Sources, NEW h \in Hooks, send_task(s, h)
      PROVE  HookTypeOK'
  <2>1. sent' \in 0..MaxJobs /\ sent' \in Jobs
    BY <1>0, <1>3 DEF HookTypeOK, send_task, Jobs
  <2>2. fanout' \in [Sources -> SUBSET Hooks]
    BY <1>3 DEF HookTypeOK, send_task
  <2>3. waiting' \in [Jobs \X Tries -> Nat]
    BY <1>3 DEF HookTypeOK, send_task
  <2>4. job' \in [Jobs -> [hook : Hooks, source : Sources,
                           queue : Consumed \cup {"celery"}]]
    <3>1. [hook |-> h, source |-> s, queue |-> QueueOf(s)] \in
             [hook : Hooks, source : Sources, queue : Consumed \cup {"celery"}]
      BY DEF QueueOf, Consumed
    <3> QED BY <1>3, <3>1 DEF HookTypeOK, send_task
  <2> QED BY <1>3, <2>1, <2>2, <2>3, <2>4
          DEF HookTypeOK, send_task, historyVars, answerVars
<1>4. ASSUME NEW w \in Workers, WorkerSteps(w)  PROVE HookTypeOK'
  <2>1. /\ task' \in [Workers -> TaskRecord]
        /\ task[w].pc # "idle" => task[w].job \in Jobs
        /\ UNCHANGED <<hook, sent, job>>
        /\ task[w] \in TaskRecord
    <3>1. /\ task' \in [Workers -> TaskRecord]
          /\ task[w].pc # "idle" => task[w].job \in 1 .. sent
          /\ UNCHANGED <<hook, sent, job>>
      BY WorkerStep, <1>4
    <3>2. sent \in 0 .. MaxJobs /\ task[w] \in TaskRecord
      BY DEF HookTypeOK, TaskRecord
    <3> QED BY <1>0, <3>1, <3>2 DEF Jobs
  <2>2. fanout' = fanout
    BY <1>4 DEF WorkerSteps, RunTask, Take, take, crash, get_webhook_row,
       get_webhook_row_fails, deliver, log_delivery, finish, retry, ack,
       senderVars
  <2>3. ended' \in [Jobs -> Nat]
    <3>1. CASE EndTask(w) /\ task[w].pc # "idle"
      BY <2>1, <3>1 DEF HookTypeOK, EndTask
    <3>2. CASE ended' = ended
      BY <3>2 DEF HookTypeOK
    <3> QED BY <1>4, <3>1, <3>2 DEF WorkerSteps, RunTask, Take, take, crash,
            get_webhook_row, get_webhook_row_fails, deliver, log_delivery,
            finish, retry, ack, historyVars
  <2>4. /\ posts' \in [Jobs -> Nat] /\ final' \in [Jobs -> Nat]
        /\ accepted' \subseteq Jobs
    <3>1. CASE deliver(w)
      BY <2>1, <3>1 DEF HookTypeOK, deliver, answerVars
    <3>2. CASE UNCHANGED answerVars
      BY <3>2 DEF HookTypeOK, answerVars
    <3> QED BY <1>4, <3>1, <3>2 DEF WorkerSteps, RunTask, Take, take, crash,
            get_webhook_row, get_webhook_row_fails, log_delivery, finish,
            retry, ack, historyVars, answerVars
  <2>5. log' \subseteq Jobs /\ hurt' \subseteq Jobs
    BY <1>4, <2>1 DEF HookTypeOK, WorkerSteps, RunTask, Take, take, crash,
       get_webhook_row, get_webhook_row_fails, deliver, log_delivery, finish,
       retry, ack, historyVars
  <2>6. waiting' \in [Jobs \X Tries -> Nat] /\ crashes' \in 0..MaxCrashes
    <3>1. CASE Take(w)
      <4>1. PICK j \in Jobs, n \in Tries : take(w, j, n)
        BY <3>1 DEF Take
      <4>2. waiting[<<j, n>>] - 1 \in Nat
        BY <4>1 DEF take, HookTypeOK
      <4> QED BY <4>1, <4>2 DEF take, HookTypeOK
    <3>2. CASE crash(w)
      <4>1. crashes' \in 0..MaxCrashes
        BY <1>0, <3>2 DEF HookTypeOK, crash
      <4>2. waiting[<<task[w].job, task[w].try>>] + 1 \in Nat
        BY <2>1, <3>2 DEF HookTypeOK, crash, TaskRecord
      <4> QED BY <3>2, <4>1, <4>2 DEF HookTypeOK, crash, given_back
    <3>3. CASE retry(w)
      <4>1. waiting[<<task[w].job, task[w].try + 1>>] + 1 \in Nat
        BY <1>0, <2>1, <3>3 DEF HookTypeOK, retry, SendRetry, TaskRecord, Tries
      <4> QED BY <3>3, <4>1 DEF HookTypeOK, retry, SendRetry
    <3>4. CASE \/ get_webhook_row(w) \/ get_webhook_row_fails(w) \/ deliver(w)
               \/ log_delivery(w) \/ finish(w) \/ ack(w)
      BY <3>4 DEF HookTypeOK, get_webhook_row, get_webhook_row_fails, deliver,
         log_delivery, finish, ack
    <3> QED BY <1>4, <3>1, <3>2, <3>3, <3>4 DEF WorkerSteps, RunTask
  <2> QED BY <2>1, <2>2, <2>3, <2>4, <2>5, <2>6 DEF HookTypeOK, TaskRecord
<1> QED BY <1>1, <1>2, <1>3, <1>4 DEF HookNext, WorkerSteps

-----------------------------------------------------------------------------
(* A block of pairs <<x, a>>, ..., <<x, b>> beside a set.                  *)
Block(x, a, b) == {x} \X (a .. b)

Beside(S, B) == /\ S \cap B = {}
                /\ IsFiniteSet(S) \/ IsFiniteSet(S \cup B)
Gains(S, T, k) == /\ IsFiniteSet(S) /\ IsFiniteSet(T)
                  /\ Cardinality(S) \in Nat
                  /\ Cardinality(T) = Cardinality(S) + k

LEMMA BlockBeside ==
    ASSUME NEW S, NEW x, NEW a \in Nat, NEW b \in Nat, NEW k \in Nat,
           k = b + 1 - a, Beside(S, Block(x, a, b))
    PROVE  Gains(S, S \cup Block(x, a, b), k)
<1> DEFINE B == Block(x, a, b)
<1>1. IsFiniteSet(B) /\ Cardinality(B) = k
  <2>1. IsFiniteSet(a .. b) /\ Cardinality(a .. b) = b + 1 - a
    BY FS_Interval
  <2>2. IsFiniteSet({x}) /\ Cardinality({x}) = 1
    BY FS_Singleton
  <2>3. IsFiniteSet(B) /\ Cardinality(B) = 1 * (b + 1 - a)
    BY <2>1, <2>2, FS_Product DEF Block
  <2> QED BY <2>3
<1> HIDE DEF B
<1>2. IsFiniteSet(S) /\ S \cap B = {}
  <2>1. S \in SUBSET (S \cup B)
    OBVIOUS
  <2> QED BY <2>1, FS_Subset DEF Beside, B
<1>3. /\ IsFiniteSet(S \cup B)
      /\ Cardinality(S \cup B)
            = Cardinality(S) + Cardinality(B) - Cardinality(S \cap B)
  BY <1>1, <1>2, FS_Union
<1>4. Cardinality(S \cap B) = 0 /\ Cardinality(S) \in Nat
  BY <1>2, FS_EmptySet, FS_CardinalityType
<1> QED BY <1>1, <1>2, <1>3, <1>4 DEF Gains, B

(* The POSTs that workers may still make: those of w, and of the others.   *)
OtherPosts(j, w) ==
    UNION {{v} \X (NextTry(v) .. MaxRetries) : v \in Holders(j) \ {w}}

LEMMA HolderSplit ==
    ASSUME HookTypeOK, NEW w \in Workers, NEW j,
           IsFiniteSet(HolderPosts(j)) \/ IsFiniteSet(OtherPosts(j, w))
    PROVE  /\ IsFiniteSet(HolderPosts(j)) /\ IsFiniteSet(OtherPosts(j, w))
           /\ Cardinality(OtherPosts(j, w)) \in Nat
           /\ w \in Holders(j) =>
                 Cardinality(HolderPosts(j)) = Cardinality(OtherPosts(j, w))
                                               + (MaxRetries + 1 - NextTry(w))
           /\ w \notin Holders(j) => HolderPosts(j) = OtherPosts(j, w)
<1> DEFINE O == OtherPosts(j, w)
           B == {w} \X (NextTry(w) .. MaxRetries)
<1>1. CASE w \notin Holders(j)
  <2>1. HolderPosts(j) = O
    BY <1>1 DEF HolderPosts, OtherPosts
  <2> HIDE DEF O
  <2> QED BY <1>1, <2>1, FS_CardinalityType DEF O
<1>2. CASE w \in Holders(j)
  <2>1. HolderPosts(j) = O \cup B
    BY <1>2 DEF HolderPosts, OtherPosts
  <2>2. O \cap B = {}
    BY DEF OtherPosts
  <2>3. NextTry(w) \in Nat /\ MaxRetries \in Nat /\ NextTry(w) <= MaxRetries + 1
    BY HooksOK DEF HookTypeOK, NextTry, Tries
  <2>4. Beside(O, Block(w, NextTry(w), MaxRetries))
    BY <2>1, <2>2 DEF Beside, Block
  <2> DEFINE n == NextTry(w)
             k == MaxRetries + 1 - n
  <2>5. k \in Nat /\ k = MaxRetries + 1 - n /\ n \in Nat /\ MaxRetries \in Nat
    BY <2>3
  <2> HIDE DEF O, n, k
  <2>6. Gains(O, O \cup Block(w, n, MaxRetries), k)
    BY <2>4, <2>5, BlockBeside DEF n
  <2> QED BY <1>2, <2>1, <2>6 DEF O, n, k, Gains, Block
<1> QED BY <1>1, <1>2

(* How a worker's step changes what the invariants count of the workers:   *)
(* by its own part, next to that of the others.                            *)
LEMMA HoldersMove ==
    ASSUME HookTypeOK, HookTypeOK', NEW w \in Workers,
           \A v \in Workers \ {w} : task'[v] = task[v],
           NEW j, IsFiniteSet(Holders(j)), IsFiniteSet(HolderPosts(j))
    PROVE  /\ IsFiniteSet(Holders(j)') /\ IsFiniteSet(HolderPosts(j)')
           /\ \E c \in Nat :
                 /\ Cardinality(Holders(j))
                       = c + (IF w \in Holders(j) THEN 1 ELSE 0)
                 /\ Cardinality(Holders(j)')
                       = c + (IF w \in Holders(j)' THEN 1 ELSE 0)
           /\ \E c \in Nat :
                 /\ Cardinality(Unanswered(j))
                       = c + (IF w \in Unanswered(j) THEN 1 ELSE 0)
                 /\ Cardinality(Unanswered(j)')
                       = c + (IF w \in Unanswered(j)' THEN 1 ELSE 0)
           /\ \E c \in Nat :
                 /\ Cardinality(HolderPosts(j))
                       = c + (IF w \in Holders(j)
                              THEN MaxRetries + 1 - NextTry(w) ELSE 0)
                 /\ Cardinality(HolderPosts(j)')
                       = c + (IF w \in Holders(j)'
                              THEN MaxRetries + 1 - NextTry(w)' ELSE 0)
<1>1. ASSUME NEW S, NEW T, IsFiniteSet(S), S \ {w} = T \ {w}
      PROVE  /\ IsFiniteSet(T)
             /\ \E c \in Nat :
                   /\ Cardinality(S) = c + (IF w \in S THEN 1 ELSE 0)
                   /\ Cardinality(T) = c + (IF w \in T THEN 1 ELSE 0)
  <2> DEFINE O == S \ {w}
  <2>1. IsFiniteSet(O) /\ Cardinality(O) \in Nat
    BY <1>1, FS_RemoveElement, FS_CardinalityType
  <2>2. /\ IsFiniteSet(T)
        /\ Cardinality(S) = Cardinality(O) + (IF w \in S THEN 1 ELSE 0)
        /\ Cardinality(T) = Cardinality(O) + (IF w \in T THEN 1 ELSE 0)
    <3>1. O \ {w} = S \ {w} /\ O \ {w} = T \ {w} /\ w \notin O
      BY <1>1
    <3> HIDE DEF O
    <3>2. Cardinality(S) = Cardinality(O) + (IF w \in S THEN 1 ELSE 0)
      BY <2>1, <3>1, OneMoves
    <3> QED BY <2>1, <3>1, <3>2, OneMoves
  <2> HIDE DEF O
  <2> QED BY <2>1, <2>2
<1>2. Holders(j) \ {w} = Holders(j)' \ {w}
  BY DEF Holders
<1>3. Unanswered(j) \ {w} = Unanswered(j)' \ {w}
  BY DEF Holders, Unanswered
<1>4. IsFiniteSet(Unanswered(j))
  <2>1. Unanswered(j) \in SUBSET Holders(j)
    BY DEF Unanswered
  <2> QED BY <2>1, FS_Subset
<1>5. OtherPosts(j, w)' = OtherPosts(j, w)
  <2>1. \A v \in Holders(j) \ {w} : NextTry(v)' = NextTry(v)
    BY DEF NextTry, Holders
  <2> QED BY <1>2, <2>1 DEF OtherPosts
<1>6. /\ IsFiniteSet(OtherPosts(j, w))
      /\ Cardinality(OtherPosts(j, w)) \in Nat
      /\ Cardinality(HolderPosts(j)) = Cardinality(OtherPosts(j, w))
             + (IF w \in Holders(j) THEN MaxRetries + 1 - NextTry(w) ELSE 0)
  BY HolderSplit
<1>7. /\ IsFiniteSet(HolderPosts(j)')
      /\ Cardinality(HolderPosts(j)') = Cardinality(OtherPosts(j, w))
             + (IF w \in Holders(j)' THEN MaxRetries + 1 - NextTry(w)' ELSE 0)
  <2>1. (HookTypeOK /\ IsFiniteSet(OtherPosts(j, w)) =>
         /\ IsFiniteSet(HolderPosts(j))
         /\ Cardinality(OtherPosts(j, w)) \in Nat
         /\ w \in Holders(j) =>
               Cardinality(HolderPosts(j)) = Cardinality(OtherPosts(j, w))
                                             + (MaxRetries + 1 - NextTry(w))
         /\ w \notin Holders(j) => HolderPosts(j) = OtherPosts(j, w))'
    BY HolderSplit, PTL
  <2> QED BY <1>5, <1>6, <2>1
<1>8. \E c \in Nat :
         /\ Cardinality(HolderPosts(j))
               = c + (IF w \in Holders(j)
                      THEN MaxRetries + 1 - NextTry(w) ELSE 0)
         /\ Cardinality(HolderPosts(j)')
               = c + (IF w \in Holders(j)'
                      THEN MaxRetries + 1 - NextTry(w)' ELSE 0)
  BY <1>6, <1>7
<1>9. /\ IsFiniteSet(Holders(j)')
      /\ \E c \in Nat :
            /\ Cardinality(Holders(j))
                  = c + (IF w \in Holders(j) THEN 1 ELSE 0)
            /\ Cardinality(Holders(j)')
                  = c + (IF w \in Holders(j)' THEN 1 ELSE 0)
  BY <1>1, <1>2
<1>10. \E c \in Nat :
          /\ Cardinality(Unanswered(j))
                = c + (IF w \in Unanswered(j) THEN 1 ELSE 0)
          /\ Cardinality(Unanswered(j)')
                = c + (IF w \in Unanswered(j)' THEN 1 ELSE 0)
  <2> DEFINE S == Unanswered(j)
             T == Unanswered(j)'
  <2>1. IsFiniteSet(S) /\ S \ {w} = T \ {w}
    BY <1>3, <1>4
  <2> HIDE DEF S, T
  <2>2. \E c \in Nat : /\ Cardinality(S) = c + (IF w \in S THEN 1 ELSE 0)
                       /\ Cardinality(T) = c + (IF w \in T THEN 1 ELSE 0)
    BY <1>1, <2>1
  <2> QED BY <2>2 DEF S, T
<1> QED BY <1>7, <1>8, <1>9, <1>10

(* Messages, as a function of the broker's contents.                       *)
MessagesIn(f, j) == UNION {{n} \X (1 .. f[<<j, n>>]) : n \in Tries}
PostsOf(ms)      == UNION {{m} \X (m[1] .. MaxRetries) : m \in ms}

LEMMA MessagesAre ==
    ASSUME NEW f, NEW j
    PROVE  /\ \A t, i : <<t, i>> \in MessagesIn(f, j)
                           <=> t \in Tries /\ i \in 1 .. f[<<j, t>>]
           /\ \A m \in MessagesIn(f, j) : m = <<m[1], m[2]>>
<1>1. ASSUME NEW m
      PROVE  m \in MessagesIn(f, j)
                <=> \E n \in Tries : m \in {n} \X (1 .. f[<<j, n>>])
  BY Zenon DEF MessagesIn
<1>2. ASSUME NEW t, NEW i
      PROVE  <<t, i>> \in MessagesIn(f, j)
                <=> t \in Tries /\ i \in 1 .. f[<<j, t>>]
  <2>1. \A n : <<t, i>> \in {n} \X (1 .. f[<<j, n>>])
                  <=> n = t /\ i \in 1 .. f[<<j, n>>]
    BY SMT
  <2> QED BY <1>1, <2>1
<1>3. ASSUME NEW m \in MessagesIn(f, j)  PROVE m = <<m[1], m[2]>>
  <2>1. PICK n \in Tries : m \in {n} \X (1 .. f[<<j, n>>])
    BY <1>1
  <2> QED BY <2>1, SMT
<1> QED BY <1>2, <1>3

(* One more message of try n for job k.                                    *)
More(f, g, k, n) == g = [f EXCEPT ![<<k, n>>] = f[<<k, n>>] + 1]
FiniteIn(f, j)   == /\ IsFiniteSet(MessagesIn(f, j))
                    /\ IsFiniteSet(PostsOf(MessagesIn(f, j)))
GainsIn(f, g, j, a, b) ==
    /\ Gains(MessagesIn(f, j), MessagesIn(g, j), a)
    /\ Gains(PostsOf(MessagesIn(f, j)), PostsOf(MessagesIn(g, j)), b)

LEMMA MessageMore ==
    ASSUME NEW f \in [Jobs \X Tries -> Nat], NEW g \in [Jobs \X Tries -> Nat],
           NEW k \in Jobs, NEW n \in Tries, NEW j \in Jobs,
           More(f, g, k, n), FiniteIn(f, j) \/ FiniteIn(g, j)
    PROVE  /\ j = k => GainsIn(f, g, j, 1, MaxRetries + 1 - n)
           /\ j # k => GainsIn(f, g, j, 0, 0)
<1>0. /\ g = [f EXCEPT ![<<k, n>>] = f[<<k, n>>] + 1]
      /\ \/ /\ IsFiniteSet(MessagesIn(f, j))
            /\ IsFiniteSet(PostsOf(MessagesIn(f, j)))
         \/ /\ IsFiniteSet(MessagesIn(g, j))
            /\ IsFiniteSet(PostsOf(MessagesIn(g, j)))
  BY DEF More, FiniteIn
<1> DEFINE F == MessagesIn(f, j)
           G == MessagesIn(g, j)
<1>1. CASE j # k
  <2>1. \A t \in Tries : g[<<j, t>>] = f[<<j, t>>]
    BY <1>0, <1>1
  <2>2. F = G
    <3>1. \A t, i : <<t, i>> \in F <=> <<t, i>> \in G
      <4>1. \A t, i : <<t, i>> \in F <=> t \in Tries /\ i \in 1 .. f[<<j, t>>]
        BY MessagesAre
      <4>2. \A t, i : <<t, i>> \in G <=> t \in Tries /\ i \in 1 .. g[<<j, t>>]
        BY MessagesAre
      <4> HIDE DEF F, G
      <4> QED BY <2>1, <4>1, <4>2
    <3>2. \A m \in F \cup G : m = <<m[1], m[2]>>
      BY MessagesAre
    <3> HIDE DEF F, G
    <3>3. ASSUME NEW m \in F  PROVE m \in G
      <4>1. m = <<m[1], m[2]>>
        BY <3>2
      <4>2. <<m[1], m[2]>> \in F
        BY <4>1
      <4> QED BY <3>1, <4>1, <4>2
    <3>4. ASSUME NEW m \in G  PROVE m \in F
      <4>1. m = <<m[1], m[2]>>
        BY <3>2
      <4>2. <<m[1], m[2]>> \in G
        BY <4>1
      <4> QED BY <3>1, <4>1, <4>2
    <3> QED BY <3>3, <3>4
  <2> HIDE DEF F, G
  <2>3. IsFiniteSet(F) /\ IsFiniteSet(PostsOf(F))
    BY <1>0, <2>2 DEF F, G
  <2>4. Cardinality(F) \in Nat /\ Cardinality(PostsOf(F)) \in Nat
    BY <2>3, FS_CardinalityType
  <2>5. /\ Cardinality(G) = Cardinality(F)
        /\ Cardinality(PostsOf(G)) = Cardinality(PostsOf(F))
        /\ IsFiniteSet(G) /\ IsFiniteSet(PostsOf(G))
    BY <2>2, <2>3
  <2>6. Gains(F, G, 0) /\ Gains(PostsOf(F), PostsOf(G), 0)
    BY <2>3, <2>4, <2>5 DEF Gains
  <2> QED BY <1>1, <2>6 DEF F, G, GainsIn
<1>2. CASE j = k
  <2> DEFINE c == f[<<j, n>>]
             new == <<n, c + 1>>
             B == {new} \X (n .. MaxRetries)
             left == MaxRetries + 1 - n
  <2>1. c \in Nat /\ g[<<j, n>>] = c + 1
        /\ \A t \in Tries : t # n => g[<<j, t>>] = f[<<j, t>>]
    BY <1>0, <1>2
  <2>2. \A m : m \in G <=> m \in F \/ m = new
    <3>1. \A i : i \in 1 .. c + 1 <=> i \in 1 .. c \/ i = c + 1
      BY <2>1
    <3>2. \A t, i : <<t, i>> \in G <=> <<t, i>> \in F \/ <<t, i>> = new
      <4> HIDE DEF c
      <4>1. ASSUME NEW t, NEW i
            PROVE  <<t, i>> \in G <=> <<t, i>> \in F \/ <<t, i>> = new
        <5>1. <<t, i>> \in G <=> t \in Tries /\ i \in 1 .. g[<<j, t>>]
          BY MessagesAre
        <5>2. <<t, i>> \in F <=> t \in Tries /\ i \in 1 .. f[<<j, t>>]
          BY MessagesAre
        <5>3. <<t, i>> = new <=> t = n /\ i = c + 1
          OBVIOUS
        <5>4. CASE t = n
          BY <2>1, <3>1, <5>1, <5>2, <5>3, <5>4 DEF c
        <5>5. CASE t # n
          <6>1. t \in Tries => g[<<j, t>>] = f[<<j, t>>]
            BY <2>1, <5>5
          <6> QED BY <5>1, <5>2, <5>3, <5>5, <6>1
        <5> QED BY <5>4, <5>5
      <4> QED BY <4>1
    <3>3. \A m \in F \cup G : m = <<m[1], m[2]>>
      BY MessagesAre
    <3>4. new = <<new[1], new[2]>>
      OBVIOUS
    <3> HIDE DEF F, G, new
    <3> QED BY <3>2, <3>3, <3>4
  <2>3. new \notin F
    <3>1. c + 1 \notin 1 .. c
      BY <2>1
    <3> QED BY <3>1, MessagesAre
  <2>4. G = F \cup {new}
    BY <2>2
  <2>5. new[1] = n
    OBVIOUS
  <2>6. n \in Nat /\ MaxRetries \in Nat /\ n <= MaxRetries + 1
    BY HooksOK DEF Tries
  <2> HIDE DEF F, G, new
  <2>7. PostsOf(G) = PostsOf(F) \cup B
    BY <2>4, <2>5 DEF PostsOf
  <2>8. PostsOf(F) \cap B = {}
    BY <2>3 DEF PostsOf
  <2>9. IsFiniteSet(F) /\ (IsFiniteSet(PostsOf(F)) \/ IsFiniteSet(PostsOf(G)))
    <3>1. F \in SUBSET G
      BY <2>4
    <3>2. IsFiniteSet(G) => IsFiniteSet(F)
      BY <3>1, FS_Subset
    <3> QED BY <1>0, <3>2 DEF F, G
  <2>10. /\ IsFiniteSet(PostsOf(F)) /\ IsFiniteSet(PostsOf(F) \cup B)
         /\ Cardinality(PostsOf(F)) \in Nat
         /\ Cardinality(PostsOf(F) \cup B)
               = Cardinality(PostsOf(F)) + left
    <3>1. Beside(PostsOf(F), Block(new, n, MaxRetries))
      BY <2>7, <2>8, <2>9 DEF Beside, Block
    <3>2. left \in Nat /\ left = MaxRetries + 1 - n
      BY <2>6
    <3> HIDE DEF left
    <3>3. Gains(PostsOf(F), PostsOf(F) \cup Block(new, n, MaxRetries), left)
      BY <2>6, <3>1, <3>2, BlockBeside
    <3> QED BY <3>3 DEF Gains, Block
  <2>11. IsFiniteSet(F \cup {new}) /\ Cardinality(F) \in Nat
         /\ Cardinality(F \cup {new}) = Cardinality(F) + 1
    <3>1. Cardinality(F) \in Nat
      BY <2>9, FS_CardinalityType
    <3> QED BY <2>3, <2>9, <3>1, FS_AddElement
  <2>12. /\ IsFiniteSet(F) /\ IsFiniteSet(PostsOf(F))
         /\ IsFiniteSet(G) /\ IsFiniteSet(PostsOf(G))
         /\ Cardinality(F) \in Nat /\ Cardinality(PostsOf(F)) \in Nat
         /\ Cardinality(G) = Cardinality(F) + 1
         /\ Cardinality(PostsOf(G))
               = Cardinality(PostsOf(F)) + (MaxRetries + 1 - n)
    BY <2>4, <2>7, <2>9, <2>10, <2>11
  <2>13. /\ Gains(F, G, 1)
         /\ Gains(PostsOf(F), PostsOf(G), MaxRetries + 1 - n)
    BY <2>12 DEF Gains
  <2> QED BY <1>2, <2>13 DEF F, G, GainsIn
<1> QED BY <1>1, <1>2

(* The messages of job j after a step.                                     *)
LEMMA MessagesMove ==
    ASSUME HookTypeOK, HookTypeOK', FiniteInv,
           NEW k \in Jobs, NEW n \in Tries, NEW j \in Jobs
    PROVE  /\ Cardinality(Messages(j)) \in Nat
           /\ Cardinality(MessagePosts(j)) \in Nat
           /\ waiting' = waiting =>
                 /\ Messages(j)' = Messages(j)
                 /\ MessagePosts(j)' = MessagePosts(j)
           /\ waiting' = [waiting EXCEPT ![<<k, n>>] = @ + 1] =>
                 /\ IsFiniteSet(Messages(j)') /\ IsFiniteSet(MessagePosts(j)')
                 /\ Cardinality(Messages(j)')
                       = Cardinality(Messages(j)) + (IF j = k THEN 1 ELSE 0)
                 /\ Cardinality(MessagePosts(j)')
                       = Cardinality(MessagePosts(j))
                         + (IF j = k THEN MaxRetries + 1 - n ELSE 0)
           /\ waiting[<<k, n>>] > 0
              /\ waiting' = [waiting EXCEPT ![<<k, n>>] = @ - 1] =>
                 /\ IsFiniteSet(Messages(j)') /\ IsFiniteSet(MessagePosts(j)')
                 /\ Cardinality(Messages(j)') \in Nat
                 /\ Cardinality(MessagePosts(j)') \in Nat
                 /\ Cardinality(Messages(j))
                       = Cardinality(Messages(j)') + (IF j = k THEN 1 ELSE 0)
                 /\ Cardinality(MessagePosts(j))
                       = Cardinality(MessagePosts(j)')
                         + (IF j = k THEN MaxRetries + 1 - n ELSE 0)
<1>0. /\ waiting \in [Jobs \X Tries -> Nat] /\ waiting' \in [Jobs \X Tries -> Nat]
      /\ Messages(j) = MessagesIn(waiting, j)
      /\ MessagePosts(j) = PostsOf(MessagesIn(waiting, j))
      /\ Messages(j)' = MessagesIn(waiting', j)
      /\ MessagePosts(j)' = PostsOf(MessagesIn(waiting', j))
  BY DEF HookTypeOK, Messages, MessagesIn, MessagePosts, PostsOf
<1>1. /\ IsFiniteSet(MessagesIn(waiting, j))
      /\ IsFiniteSet(PostsOf(MessagesIn(waiting, j)))
  BY <1>0 DEF FiniteInv
<1>2. /\ Cardinality(Messages(j)) \in Nat
      /\ Cardinality(MessagePosts(j)) \in Nat
  BY <1>0, <1>1, FS_CardinalityType
<1>3. waiting' = waiting => /\ Messages(j)' = Messages(j)
                            /\ MessagePosts(j)' = MessagePosts(j)
  BY <1>0
<1>4. ASSUME waiting' = [waiting EXCEPT ![<<k, n>>] = @ + 1]
      PROVE  /\ IsFiniteSet(Messages(j)') /\ IsFiniteSet(MessagePosts(j)')
             /\ Cardinality(Messages(j)')
                   = Cardinality(Messages(j)) + (IF j = k THEN 1 ELSE 0)
             /\ Cardinality(MessagePosts(j)')
                   = Cardinality(MessagePosts(j))
                     + (IF j = k THEN MaxRetries + 1 - n ELSE 0)
  <2>1. More(waiting, waiting', k, n) /\ FiniteIn(waiting, j)
    BY <1>0, <1>1, <1>4 DEF More, FiniteIn
  <2>2. /\ j = k => GainsIn(waiting, waiting', j, 1, MaxRetries + 1 - n)
        /\ j # k => GainsIn(waiting, waiting', j, 0, 0)
    BY <1>0, <2>1, MessageMore
  <2> QED BY <1>0, <1>2, <2>2 DEF GainsIn, Gains
<1>5. ASSUME waiting[<<k, n>>] > 0,
             waiting' = [waiting EXCEPT ![<<k, n>>] = @ - 1]
      PROVE  /\ IsFiniteSet(Messages(j)') /\ IsFiniteSet(MessagePosts(j)')
             /\ Cardinality(Messages(j)') \in Nat
             /\ Cardinality(MessagePosts(j)') \in Nat
             /\ Cardinality(Messages(j))
                   = Cardinality(Messages(j)') + (IF j = k THEN 1 ELSE 0)
             /\ Cardinality(MessagePosts(j))
                   = Cardinality(MessagePosts(j)')
                     + (IF j = k THEN MaxRetries + 1 - n ELSE 0)
  <2>1. More(waiting', waiting, k, n)
    <3>1. waiting'[<<k, n>>] + 1 = waiting[<<k, n>>]
      BY <1>0, <1>5
    <3> DEFINE g == [waiting' EXCEPT ![<<k, n>>] = waiting'[<<k, n>>] + 1]
    <3>2. \A x \in Jobs \X Tries : g[x] = waiting[x]
      BY <1>0, <1>5, <3>1
    <3>3. g \in [Jobs \X Tries -> Nat]
      BY <1>0
    <3> HIDE DEF g
    <3>4. g = waiting
      BY <1>0, <3>2, <3>3
    <3> QED BY <3>4 DEF g, More
  <2>2. FiniteIn(waiting, j)
    BY <1>1 DEF FiniteIn
  <2>3. /\ j = k => GainsIn(waiting', waiting, j, 1, MaxRetries + 1 - n)
        /\ j # k => GainsIn(waiting', waiting, j, 0, 0)
    BY <1>0, <2>1, <2>2, MessageMore
  <2> QED BY <1>0, <2>3 DEF GainsIn, Gains
<1> QED BY <1>2, <1>3, <1>4, <1>5

(* What the invariants say of one job.                                     *)
Bound(c) == (MaxRetries + 1) * (1 + c)

Counts(j) ==
    /\ IsFiniteSet(Messages(j)) /\ IsFiniteSet(Holders(j))
    /\ IsFiniteSet(MessagePosts(j)) /\ IsFiniteSet(HolderPosts(j))
    /\ Cardinality(Messages(j)) + Cardinality(Holders(j)) + ended[j]
          <= 1 + crashes
    /\ j \notin hurt =>
          Cardinality(Messages(j)) + Cardinality(Holders(j)) + ended[j] <= 1
    /\ final[j] + Cardinality(Messages(j)) + Cardinality(Unanswered(j))
          <= 1 + crashes
    /\ posts[j] + Cardinality(MessagePosts(j)) + Cardinality(HolderPosts(j))
          <= Bound(crashes)

CountsInv == FiniteInv /\ CopiesInv /\ FinalInv /\ PostsInv

LEMMA CountsOfJobs == CountsInv <=> \A j \in Jobs : Counts(j)
  BY DEF CountsInv, FiniteInv, CopiesInv, FinalInv, PostsInv, Counts, Bound,
     Live

LEMMA BoundGrows ==
    ASSUME NEW c \in Nat
    PROVE  /\ Bound(c) \in Nat
           /\ Bound(c + 1) = Bound(c) + (MaxRetries + 1)
           /\ MaxRetries + 1 <= Bound(c)
<1>1. MaxRetries \in Nat
  BY HooksOK
<1>2. Bound(c) = MaxRetries * c + MaxRetries + c + 1
  BY <1>1 DEF Bound
<1>3. Bound(c + 1) = MaxRetries * (c + 1) + MaxRetries + (c + 1) + 1
  BY <1>1 DEF Bound
<1>4. MaxRetries * (c + 1) = MaxRetries * c + MaxRetries
  BY <1>1
<1>5. MaxRetries * c \in Nat
  BY <1>1
<1> HIDE DEF Bound
<1> QED BY <1>1, <1>2, <1>3, <1>4, <1>5

(* A worker's step keeps the counts of each job.                           *)
LEMMA WorkerCounts ==
    ASSUME HookTypeOK, HookTypeOK', TasksInv, CountsInv,
           NEW w \in Workers, WorkerSteps(w), NEW j \in Jobs
    PROVE  Counts(j)'
<1>0. /\ task \in [Workers -> TaskRecord] /\ task[w] \in TaskRecord
      /\ task' \in [Workers -> TaskRecord] /\ task'[w] \in TaskRecord
      /\ \A v \in Workers \ {w} : task'[v] = task[v]
      /\ MaxRetries \in Nat
  BY WorkerStep, HooksOK DEF HookTypeOK, TaskRecord
<1>1. /\ ended[j] \in Nat /\ final[j] \in Nat /\ posts[j] \in Nat
      /\ crashes \in Nat
  BY DEF HookTypeOK
<1>2. /\ Counts(j) /\ FiniteInv
      /\ IsFiniteSet(Holders(j)) /\ IsFiniteSet(HolderPosts(j))
  BY CountsOfJobs DEF CountsInv, FiniteInv
<1>3. /\ IsFiniteSet(Holders(j)') /\ IsFiniteSet(HolderPosts(j)')
      /\ \E c \in Nat :
            /\ Cardinality(Holders(j))
                  = c + (IF w \in Holders(j) THEN 1 ELSE 0)
            /\ Cardinality(Holders(j)')
                  = c + (IF w \in Holders(j)' THEN 1 ELSE 0)
      /\ \E c \in Nat :
            /\ Cardinality(Unanswered(j))
                  = c + (IF w \in Unanswered(j) THEN 1 ELSE 0)
            /\ Cardinality(Unanswered(j)')
                  = c + (IF w \in Unanswered(j)' THEN 1 ELSE 0)
      /\ \E c \in Nat :
            /\ Cardinality(HolderPosts(j))
                  = c + (IF w \in Holders(j)
                         THEN MaxRetries + 1 - NextTry(w) ELSE 0)
            /\ Cardinality(HolderPosts(j)')
                  = c + (IF w \in Holders(j)'
                         THEN MaxRetries + 1 - NextTry(w)' ELSE 0)
  BY <1>0, <1>2, HoldersMove
<1>4. /\ w \in Holders(j) <=> task[w].job = j /\ task[w].pc # "ack"
      /\ w \in Holders(j)' <=> task'[w].job = j /\ task'[w].pc # "ack"
      /\ w \in Unanswered(j) <=> /\ w \in Holders(j)
                                 /\ task[w].answer \notin {"2xx", "4xx"}
      /\ w \in Unanswered(j)' <=> /\ w \in Holders(j)'
                                  /\ task'[w].answer \notin {"2xx", "4xx"}
  BY DEF Holders, Unanswered
<1>5. /\ task[w].try \in Nat /\ task[w].try <= MaxRetries
      /\ task'[w].try \in Nat /\ task'[w].try <= MaxRetries
      /\ NextTry(w) = IF task[w].pc \in {"url", "post"} THEN task[w].try
                                                   ELSE task[w].try + 1
      /\ NextTry(w)' = IF task'[w].pc \in {"url", "post"} THEN task'[w].try
                                                   ELSE task'[w].try + 1
  BY <1>0 DEF TaskRecord, Tries, NextTry
<1>6. /\ Bound(crashes) \in Nat
      /\ Bound(crashes + 1) = Bound(crashes) + (MaxRetries + 1)
  BY <1>1, BoundGrows
<1>7. /\ Cardinality(Messages(j)) \in Nat
      /\ Cardinality(MessagePosts(j)) \in Nat
      /\ waiting' = waiting =>
            /\ Messages(j)' = Messages(j)
            /\ MessagePosts(j)' = MessagePosts(j)
  BY <1>2, MessagesMove, <1>0, 0 \in Tries DEF Tries
<1>8. NoJob \notin Jobs
  BY DEF NoJob, Jobs
<1>9. ASSUME NEW i \in Jobs, NEW n \in Tries, take(w, i, n)  PROVE Counts(j)'
  <2>1. /\ w \notin Holders(j) /\ w \notin Unanswered(j)
        /\ w \in Holders(j)' <=> j = i
        /\ w \in Unanswered(j)' <=> j = i
        /\ NextTry(w)' = n
    <3>1. task[w].job = NoJob
      BY <1>9 DEF TasksInv, take
    <3>2. /\ task'[w].pc = "url" /\ task'[w].answer = "none"
          /\ task'[w].job = i /\ task'[w].try = n
      <4> DEFINE v == [IdleTask EXCEPT !.pc = "url", !.job = i, !.try = n]
      <4>1. /\ v.pc = "url" /\ v.answer = "none" /\ v.job = i /\ v.try = n
        BY DEF IdleTask
      <4>2. task' = [task EXCEPT ![w] = v]
        BY <1>9 DEF take
      <4> HIDE DEF v
      <4> QED BY <1>0, <4>1, <4>2
    <3> QED BY <1>4, <1>5, <1>8, <3>1, <3>2
  <2>2. /\ IsFiniteSet(Messages(j)') /\ IsFiniteSet(MessagePosts(j)')
        /\ Cardinality(Messages(j)') \in Nat
        /\ Cardinality(MessagePosts(j)') \in Nat
        /\ Cardinality(Messages(j))
              = Cardinality(Messages(j)') + (IF j = i THEN 1 ELSE 0)
        /\ Cardinality(MessagePosts(j))
              = Cardinality(MessagePosts(j)')
                + (IF j = i THEN MaxRetries + 1 - n ELSE 0)
    BY <1>2, <1>9, MessagesMove DEF take
  <2>3. UNCHANGED <<posts, final, ended, hurt, crashes>>
    BY <1>9 DEF take, historyVars, answerVars
  <2>4. Cardinality(Messages(j)') + Cardinality(Holders(j)')
           = Cardinality(Messages(j)) + Cardinality(Holders(j))
    BY <1>3, <1>7, <2>1, <2>2
  <2>5. Cardinality(Messages(j)') + Cardinality(Unanswered(j)')
           = Cardinality(Messages(j)) + Cardinality(Unanswered(j))
    BY <1>3, <1>7, <2>1, <2>2
  <2>6. Cardinality(MessagePosts(j)') + Cardinality(HolderPosts(j)')
           = Cardinality(MessagePosts(j)) + Cardinality(HolderPosts(j))
    BY <1>0, <1>3, <1>7, <2>1, <2>2 DEF Tries
  <2>7. /\ Cardinality(Holders(j)) \in Nat /\ Cardinality(Holders(j)') \in Nat
        /\ Cardinality(Unanswered(j)) \in Nat
        /\ Cardinality(Unanswered(j)') \in Nat
        /\ Cardinality(HolderPosts(j)) \in Nat
        /\ Cardinality(HolderPosts(j)') \in Nat
    BY <1>2, <1>3, FS_CardinalityType
  <2> QED BY <1>1, <1>2, <1>3, <1>6, <1>7, <2>2, <2>3, <2>4, <2>5, <2>6, <2>7
          DEF Counts
<1>10. CASE /\ EndTask(w) /\ task[w].pc \in {"url", "end"}
            /\ UNCHANGED <<waiting, posts, final, crashes>>
            /\ hurt \subseteq hurt'
  <2>1. /\ w \in Holders(j) <=> j = task[w].job
        /\ w \notin Holders(j)' /\ w \notin Unanswered(j)'
    <3>1. task'[w] = IdleTask
      BY <1>10, TaskUpdates DEF EndTask
    <3> QED BY <1>4, <1>8, <1>10, <3>1 DEF IdleTask
  <2>2. ended'[j] = ended[j] + (IF j = task[w].job THEN 1 ELSE 0)
    BY <1>10 DEF EndTask, HookTypeOK
  <2>3. MaxRetries + 1 - NextTry(w) >= 0
    BY <1>0, <1>5
  <2>4. /\ Cardinality(Holders(j)) \in Nat /\ Cardinality(Holders(j)') \in Nat
        /\ Cardinality(Unanswered(j)) \in Nat
        /\ Cardinality(Unanswered(j)') \in Nat
        /\ Cardinality(HolderPosts(j)) \in Nat
        /\ Cardinality(HolderPosts(j)') \in Nat
    BY <1>2, <1>3, FS_CardinalityType
  <2>5. Cardinality(Holders(j)') + ended'[j]
           = Cardinality(Holders(j)) + ended[j]
    BY <1>1, <1>3, <2>1, <2>2
  <2>6. Cardinality(Unanswered(j)') <= Cardinality(Unanswered(j))
    BY <1>3, <2>1
  <2>7. Cardinality(HolderPosts(j)') <= Cardinality(HolderPosts(j))
    BY <1>0, <1>3, <1>5, <2>1, <2>3
  <2>8. /\ ended'[j] \in Nat
        /\ UNCHANGED <<Messages(j), MessagePosts(j), posts, final, crashes>>
        /\ j \notin hurt' => j \notin hurt
    BY <1>7, <1>10 DEF HookTypeOK
  <2> QED BY <1>1, <1>2, <1>3, <1>6, <1>7, <2>4, <2>5, <2>6, <2>7, <2>8
          DEF Counts
<1>11. CASE /\ task'[w].job = task[w].job /\ NextTry(w)' = NextTry(w)
            /\ task'[w].answer = task[w].answer
            /\ task[w].pc # "ack" /\ task'[w].pc # "ack"
            /\ UNCHANGED <<waiting, posts, final, ended, crashes>>
            /\ hurt \subseteq hurt'
  <2>1. /\ w \in Holders(j)' <=> w \in Holders(j)
        /\ w \in Unanswered(j)' <=> w \in Unanswered(j)
    BY <1>4, <1>11
  <2> QED BY <1>1, <1>2, <1>3, <1>6, <1>7, <1>11, <2>1 DEF Counts
<1>12. CASE deliver(w)
  <2>1. PICK a \in Answers :
           /\ task'[w].pc = "log" /\ task'[w].answer = a
           /\ task'[w].job = task[w].job /\ task'[w].try = task[w].try
           /\ posts'[j] \in {posts[j],
                   posts[j] + (IF j = task[w].job THEN 1 ELSE 0)}
           /\ final'[j] = final[j] + (IF j = task[w].job /\ a \in {"2xx", "4xx"}
                                      THEN 1 ELSE 0)
    <3>1. CASE ~ task[w].public
      <4>1. /\ task'[w].pc = "log" /\ task'[w].answer = "none"
            /\ task'[w].job = task[w].job /\ task'[w].try = task[w].try
        BY <1>12, <3>1, TaskUpdates DEF deliver, TaskPc, Answers
      <4>2. posts' = posts /\ final' = final
        BY <1>12, <3>1 DEF deliver, answerVars
      <4> QED BY <1>1, <4>1, <4>2 DEF Answers
    <3>2. CASE task[w].public
      <4>1. PICK a \in Answers :
               /\ TaskGoto(w, "log", a)
               /\ posts' = IF a = "none" THEN posts
                           ELSE [posts EXCEPT ![task[w].job] = @ + 1]
               /\ final' = IF a \in {"2xx", "4xx"}
                           THEN [final EXCEPT ![task[w].job] = @ + 1] ELSE final
        BY <1>12, <3>2 DEF deliver
      <4>2. /\ task'[w].pc = "log" /\ task'[w].answer = a
            /\ task'[w].job = task[w].job /\ task'[w].try = task[w].try
        BY <4>1, TaskUpdates DEF TaskPc
      <4>3. posts'[j] \in {posts[j],
                   posts[j] + (IF j = task[w].job THEN 1 ELSE 0)}
        BY <1>1, <4>1 DEF HookTypeOK
      <4>4. final'[j] = final[j]
                        + (IF j = task[w].job /\ a \in {"2xx", "4xx"}
                           THEN 1 ELSE 0)
        BY <1>1, <4>1 DEF HookTypeOK
      <4> QED BY <4>2, <4>3, <4>4
    <3> QED BY <3>1, <3>2
  <2>2. task[w].pc = "post" /\ task[w].answer = "none"
    BY <1>12 DEF deliver, TasksInv
  <2>3. /\ w \in Holders(j) <=> j = task[w].job
        /\ w \in Unanswered(j) <=> j = task[w].job
        /\ w \in Holders(j)' <=> j = task[w].job
        /\ w \in Unanswered(j)' <=> j = task[w].job /\ a \notin {"2xx", "4xx"}
    BY <1>4, <2>1, <2>2
  <2>4. NextTry(w)' = NextTry(w) + 1 /\ NextTry(w) \in Nat
    BY <1>5, <2>1, <2>2
  <2>5. UNCHANGED <<waiting, ended, hurt, crashes>>
    BY <1>12 DEF deliver
  <2>6. posts'[j] \in Nat /\ final'[j] \in Nat
    BY DEF HookTypeOK
  <2>7. /\ Cardinality(Holders(j)') = Cardinality(Holders(j))
        /\ Cardinality(Holders(j)) \in Nat
    BY <1>3, <2>3
  <2>8. final'[j] + Cardinality(Unanswered(j)')
           = final[j] + Cardinality(Unanswered(j))
    BY <1>1, <1>3, <2>1, <2>3
  <2>9. posts'[j] + Cardinality(HolderPosts(j)')
           <= posts[j] + Cardinality(HolderPosts(j))
    BY <1>0, <1>1, <1>3, <2>1, <2>3, <2>4
  <2>10. /\ Cardinality(Unanswered(j)) \in Nat
         /\ Cardinality(Unanswered(j)') \in Nat
    BY <1>3
  <2>11. /\ Cardinality(HolderPosts(j)) \in Nat
         /\ Cardinality(HolderPosts(j)') \in Nat
    BY <1>2, <1>3, FS_CardinalityType
  <2> QED BY <1>1, <1>2, <1>3, <1>6, <1>7, <2>5, <2>6, <2>7, <2>8, <2>9,
             <2>10, <2>11 DEF Counts
<1>13. CASE retry(w)
  <2>1. /\ w \in Holders(j) <=> j = task[w].job
        /\ w \in Unanswered(j) <=> j = task[w].job
        /\ w \notin Holders(j)' /\ w \notin Unanswered(j)'
        /\ NextTry(w) = task[w].try + 1
    <3>1. task'[w].pc = "ack"
      BY <1>13, TaskUpdates DEF retry, TaskPc, Answers
    <3> QED BY <1>4, <1>5, <1>13, <3>1 DEF retry, SendRetry, Retried
  <2>2. task[w].job \in Jobs /\ task[w].try + 1 \in Tries
    BY <1>0, <1>13 DEF retry, SendRetry, TasksInv, TaskRecord, Tries
  <2>3. /\ IsFiniteSet(Messages(j)') /\ IsFiniteSet(MessagePosts(j)')
        /\ Cardinality(Messages(j)') = Cardinality(Messages(j))
              + (IF j = task[w].job THEN 1 ELSE 0)
        /\ Cardinality(MessagePosts(j)') = Cardinality(MessagePosts(j))
              + (IF j = task[w].job
                 THEN MaxRetries + 1 - (task[w].try + 1) ELSE 0)
    <3> DEFINE k == task[w].job
               n == task[w].try + 1
    <3>1. k \in Jobs /\ n \in Tries
          /\ waiting' = [waiting EXCEPT ![<<k, n>>] = @ + 1]
      BY <1>13, <2>2 DEF retry, SendRetry
    <3> HIDE DEF k, n
    <3>2. /\ IsFiniteSet(Messages(j)') /\ IsFiniteSet(MessagePosts(j)')
          /\ Cardinality(Messages(j)')
                = Cardinality(Messages(j)) + (IF j = k THEN 1 ELSE 0)
          /\ Cardinality(MessagePosts(j)')
                = Cardinality(MessagePosts(j))
                  + (IF j = k THEN MaxRetries + 1 - n ELSE 0)
      BY <1>2, <3>1, MessagesMove
    <3> QED BY <3>2 DEF k, n
  <2>4. UNCHANGED <<posts, final, ended, hurt, crashes>>
    BY <1>13 DEF retry, historyVars, answerVars
  <2> QED BY <1>0, <1>1, <1>2, <1>3, <1>5, <1>6, <1>7, <2>1, <2>3, <2>4
          DEF Counts
<1>14. CASE ack(w)
  <2>1. /\ w \notin Holders(j) /\ w \notin Unanswered(j)
        /\ w \notin Holders(j)' /\ w \notin Unanswered(j)'
    <3>1. task'[w] = IdleTask
      BY <1>14, TaskUpdates DEF ack
    <3> QED BY <1>4, <1>8, <1>14, <3>1 DEF ack, IdleTask
  <2>2. UNCHANGED <<waiting, posts, final, ended, hurt, crashes>>
    BY <1>14 DEF ack, historyVars, answerVars
  <2> QED BY <1>1, <1>2, <1>3, <1>6, <1>7, <2>1, <2>2 DEF Counts
<1>15. CASE crash(w)
  <2>1. /\ w \in Holders(j) => j = task[w].job
        /\ w \in Unanswered(j) => j = task[w].job
        /\ w \notin Holders(j)' /\ w \notin Unanswered(j)'
    <3>1. task'[w] = IdleTask
      BY <1>15, TaskUpdates DEF crash
    <3> QED BY <1>4, <1>8, <3>1 DEF IdleTask
  <2>2. task[w].job \in Jobs /\ task[w].try \in Tries
    BY <1>0, <1>15 DEF crash, TasksInv, TaskRecord
  <2>3. /\ IsFiniteSet(Messages(j)') /\ IsFiniteSet(MessagePosts(j)')
        /\ Cardinality(Messages(j)') = Cardinality(Messages(j))
              + (IF j = task[w].job THEN 1 ELSE 0)
        /\ Cardinality(MessagePosts(j)') = Cardinality(MessagePosts(j))
              + (IF j = task[w].job THEN MaxRetries + 1 - task[w].try ELSE 0)
    <3> DEFINE k == task[w].job
               n == task[w].try
    <3>1. k \in Jobs /\ n \in Tries
          /\ waiting' = [waiting EXCEPT ![<<k, n>>] = @ + 1]
      BY <1>15, <2>2 DEF crash, given_back
    <3> HIDE DEF k, n
    <3>2. /\ IsFiniteSet(Messages(j)') /\ IsFiniteSet(MessagePosts(j)')
          /\ Cardinality(Messages(j)')
                = Cardinality(Messages(j)) + (IF j = k THEN 1 ELSE 0)
          /\ Cardinality(MessagePosts(j)')
                = Cardinality(MessagePosts(j))
                  + (IF j = k THEN MaxRetries + 1 - n ELSE 0)
      BY <1>2, <3>1, MessagesMove
    <3> QED BY <3>2 DEF k, n
  <2>4. /\ UNCHANGED <<posts, final, ended>> /\ crashes' = crashes + 1
        /\ hurt' = hurt \cup {task[w].job}
    BY <1>15 DEF crash, answerVars
  <2>5. /\ Cardinality(Holders(j)') <= Cardinality(Holders(j))
        /\ Cardinality(Unanswered(j)') <= Cardinality(Unanswered(j))
        /\ Cardinality(HolderPosts(j)') <= Cardinality(HolderPosts(j))
    BY <1>0, <1>3, <1>5, <2>1
  <2>6. /\ Cardinality(Messages(j)') <= Cardinality(Messages(j)) + 1
        /\ Cardinality(MessagePosts(j)')
              <= Cardinality(MessagePosts(j)) + (MaxRetries + 1)
        /\ Cardinality(Messages(j)') \in Nat
        /\ Cardinality(MessagePosts(j)') \in Nat
    BY <1>0, <1>5, <1>7, <2>3, FS_CardinalityType
  <2>7. /\ Cardinality(Holders(j)') \in Nat /\ Cardinality(Holders(j)) \in Nat
        /\ Cardinality(Unanswered(j)') \in Nat
        /\ Cardinality(Unanswered(j)) \in Nat
        /\ Cardinality(HolderPosts(j)') \in Nat
        /\ Cardinality(HolderPosts(j)) \in Nat
    BY <1>2, <1>3, FS_CardinalityType
  <2>8. j \notin hurt' => /\ Cardinality(Messages(j)') = Cardinality(Messages(j))
                          /\ j \notin hurt
    BY <1>7, <2>3, <2>4
  <2> QED BY <1>0, <1>1, <1>2, <1>3, <1>6, <1>7, <2>3, <2>4, <2>5, <2>6, <2>7,
             <2>8 DEF Counts
<1>16. CASE get_webhook_row(w)
  <2> DEFINE h == job[task[w].job].hook
  <2>1. CASE hook[h].row = "live" /\ hook[h].active
    <3>1. task' = [task EXCEPT ![w].pc = "post", ![w].public = hook[h].public]
      BY <1>16, <2>1 DEF get_webhook_row
    <3>2. hook[h].public \in BOOLEAN
      <4>1. task[w].job \in Jobs
        BY <1>0, <1>16 DEF get_webhook_row, TasksInv, TaskRecord
      <4>2. h \in Hooks
        BY <4>1 DEF HookTypeOK
      <4> QED BY <4>2 DEF HookTypeOK, Row
    <3> HIDE DEF h
    <3>3. /\ task'[w].pc = "post" /\ task'[w].answer = task[w].answer
          /\ task'[w].job = task[w].job /\ task'[w].try = task[w].try
      BY <3>1, <3>2, TaskUpdates
    <3>4. /\ task[w].pc = "url" /\ hurt' = hurt
          /\ UNCHANGED <<waiting, posts, final, ended, crashes>>
      BY <1>16, <2>1 DEF get_webhook_row, answerVars, h
    <3> QED BY <1>5, <1>11, <3>3, <3>4
  <2>2. CASE ~ (hook[h].row = "live" /\ hook[h].active)
    <3>1. /\ EndTask(w) /\ task[w].pc = "url" /\ hurt' = hurt
          /\ UNCHANGED <<waiting, posts, final, crashes>>
      BY <1>16, <2>2 DEF get_webhook_row, answerVars
    <3> QED BY <1>10, <3>1
  <2> QED BY <2>1, <2>2
<1>17. CASE log_delivery(w)
  <2>1. /\ task'[w].pc = "end" /\ task'[w].answer = task[w].answer
        /\ task'[w].job = task[w].job /\ task'[w].try = task[w].try
    BY <1>0, <1>17, TaskUpdates DEF log_delivery, TaskPc, TaskRecord
  <2>2. /\ task[w].pc = "log" /\ hurt \subseteq hurt'
        /\ UNCHANGED <<waiting, posts, final, ended, crashes>>
    BY <1>17 DEF log_delivery, answerVars
  <2> QED BY <1>5, <1>11, <2>1, <2>2
<1>18. CASE get_webhook_row_fails(w) \/ finish(w)
  <2>1. /\ EndTask(w) /\ task[w].pc \in {"url", "end"}
        /\ UNCHANGED <<waiting, posts, final, crashes>>
        /\ hurt \subseteq hurt'
    BY <1>18 DEF get_webhook_row_fails, finish, answerVars
  <2> QED BY <1>10, <2>1
<1> QED BY <1>9, <1>12, <1>13, <1>14, <1>15, <1>16, <1>17, <1>18
        DEF WorkerSteps, RunTask, Take

(* A fan-out sends the first message of a job.                             *)
LEMMA SendCounts ==
    ASSUME HookTypeOK, HookTypeOK', TasksInv, CountsInv,
           NEW s \in Sources, NEW h \in Hooks, send_task(s, h), NEW j \in Jobs
    PROVE  Counts(j)'
<1> DEFINE k == sent + 1
<1>1. /\ k \in Jobs /\ 0 \in Tries /\ MaxRetries \in Nat
      /\ waiting' = [waiting EXCEPT ![<<k, 0>>] = 1]
      /\ UNCHANGED <<task, posts, final, ended, hurt, crashes>>
  BY HooksOK DEF send_task, HookTypeOK, Jobs, Tries, historyVars, answerVars
<1>2. /\ \A n \in Tries : waiting[<<k, n>>] = 0
      /\ posts[k] = 0 /\ final[k] = 0 /\ ended[k] = 0
      /\ \A w \in Workers : task[w].job # k
  BY <1>1 DEF TasksInv, HookTypeOK
<1> HIDE DEF k
<1>3. waiting' = [waiting EXCEPT ![<<k, 0>>] = @ + 1]
  <2>1. waiting[<<k, 0>>] + 1 = 1
    BY <1>1, <1>2
  <2> QED BY <1>1, <2>1
<1>4. Counts(j) /\ FiniteInv
  BY CountsOfJobs DEF CountsInv
<1>5. /\ IsFiniteSet(Messages(j)') /\ IsFiniteSet(MessagePosts(j)')
      /\ Cardinality(Messages(j)) \in Nat
      /\ Cardinality(MessagePosts(j)) \in Nat
      /\ Cardinality(Messages(j)')
            = Cardinality(Messages(j)) + (IF j = k THEN 1 ELSE 0)
      /\ Cardinality(MessagePosts(j)')
            = Cardinality(MessagePosts(j))
              + (IF j = k THEN MaxRetries + 1 - 0 ELSE 0)
  BY <1>1, <1>3, <1>4, MessagesMove
<1>6. UNCHANGED <<Holders(j), Unanswered(j), HolderPosts(j)>>
  BY <1>1 DEF Holders, Unanswered, HolderPosts, NextTry
<1>7. crashes \in Nat /\ posts[j] \in Nat /\ final[j] \in Nat
      /\ ended[j] \in Nat
  BY DEF HookTypeOK
<1>8. Bound(crashes) \in Nat /\ MaxRetries + 1 <= Bound(crashes)
  BY <1>7, BoundGrows
<1>9. CASE j # k
  BY <1>1, <1>4, <1>5, <1>6, <1>9 DEF Counts
<1>10. CASE j = k
  <2>1. Messages(j) = {} /\ Holders(j) = {}
    <3>1. \A n \in Tries : 1 .. waiting[<<j, n>>] = {}
      BY <1>2, <1>10
    <3>2. Messages(j) = {}
      <4>1. \A n \in Tries : {n} \X (1 .. waiting[<<j, n>>]) = {}
        BY <3>1
      <4> QED BY <4>1, Zenon DEF Messages
    <3>3. Holders(j) = {}
      BY <1>2, <1>10 DEF Holders
    <3> QED BY <3>2, <3>3
  <2>2. MessagePosts(j) = {} /\ HolderPosts(j) = {} /\ Unanswered(j) = {}
    BY <2>1 DEF MessagePosts, HolderPosts, Unanswered
  <2>3. Cardinality({}) = 0 /\ IsFiniteSet({})
    BY FS_EmptySet
  <2> QED BY <1>1, <1>2, <1>5, <1>6, <1>7, <1>8, <1>10, <2>1, <2>2, <2>3
          DEF Counts
<1> QED BY <1>9, <1>10

(* The rows and the fan-outs do not count.                                 *)
LEMMA OthersCount ==
    ASSUME CountsInv, UNCHANGED <<task, waiting, posts, final, ended, hurt,
                                  crashes>>
    PROVE  CountsInv'
<1>1. ASSUME NEW j \in Jobs  PROVE Counts(j)'
  <2>1. Counts(j)
    BY CountsOfJobs
  <2>2. UNCHANGED <<Messages(j), MessagePosts(j), Holders(j), Unanswered(j),
                    HolderPosts(j)>>
    BY DEF Messages, MessagePosts, Holders, Unanswered, HolderPosts, NextTry
  <2> QED BY <2>1, <2>2 DEF Counts
<1>2. (CountsInv <=> \A j \in Jobs : Counts(j))'
  BY CountsOfJobs, PTL
<1> QED BY <1>1, <1>2

-----------------------------------------------------------------------------
(* The rows that the tasks run for.                                        *)
LEMMA WorkerTasks ==
    ASSUME HookTypeOK, HookTypeOK', TasksInv,
           NEW w \in Workers, WorkerSteps(w)
    PROVE  TasksInv'
<1>0. /\ task \in [Workers -> TaskRecord] /\ task[w] \in TaskRecord
      /\ task' \in [Workers -> TaskRecord] /\ task'[w] \in TaskRecord
      /\ \A v \in Workers \ {w} : task'[v] = task[v]
      /\ task[w].pc # "idle" => task[w].job \in 1 .. sent
      /\ sent' = sent /\ sent \in Nat /\ NoJob \notin Jobs
  BY WorkerStep DEF HookTypeOK, TaskRecord, NoJob, Jobs
<1>1. /\ task'[w].pc = "idle" <=> task'[w].job = NoJob
      /\ task'[w].job <= sent
      /\ task'[w].pc \in {"url", "post"} => task'[w].answer = "none"
  <2>1. CASE task' = [task EXCEPT ![w] = IdleTask]
    <3>1. task'[w] = IdleTask
      BY <2>1, <1>0
    <3> QED BY <1>0, <3>1 DEF IdleTask, NoJob
  <2>2. ASSUME NEW j \in Jobs, NEW n \in Tries, take(w, j, n)
        PROVE  /\ task'[w].pc = "url" /\ task'[w].job = j /\ j <= sent
               /\ task'[w].answer = "none"
    <3> DEFINE v == [IdleTask EXCEPT !.pc = "url", !.job = j, !.try = n]
    <3>1. v.pc = "url" /\ v.answer = "none" /\ v.job = j
      BY DEF IdleTask
    <3>2. task' = [task EXCEPT ![w] = v] /\ j <= sent
      BY <2>2 DEF take
    <3> HIDE DEF v
    <3> QED BY <1>0, <3>1, <3>2
  <2>3. CASE Take(w)
    BY <1>0, <2>2, <2>3 DEF Take
  <2>4. ASSUME task[w].pc # "idle", task'[w].job = task[w].job,
               task'[w].pc # "idle", task'[w].pc # "url",
               task'[w].pc = "post" => task'[w].answer = "none"
        PROVE  /\ task'[w].pc = "idle" <=> task'[w].job = NoJob
               /\ task'[w].job <= sent
               /\ task'[w].pc \in {"url", "post"} => task'[w].answer = "none"
    BY <1>0, <2>4 DEF NoJob
  <2>5. CASE get_webhook_row(w) /\ task' # [task EXCEPT ![w] = IdleTask]
    <3> DEFINE h == job[task[w].job].hook
    <3>1. /\ task' = [task EXCEPT ![w].pc = "post",
                                  ![w].public = hook[h].public]
          /\ task[w].pc = "url"
      BY <2>5 DEF get_webhook_row, EndTask
    <3>2. hook[h].public \in BOOLEAN
      <4>1. task[w].job \in Jobs
        BY <1>0, <3>1 DEF HookTypeOK, TaskRecord, NoJob
      <4>2. h \in Hooks
        BY <4>1 DEF HookTypeOK
      <4> QED BY <4>2 DEF HookTypeOK, Row
    <3> HIDE DEF h
    <3>3. /\ task'[w].pc = "post" /\ task'[w].answer = task[w].answer
          /\ task'[w].job = task[w].job
      BY <3>1, <3>2, TaskUpdates
    <3>4. task[w].answer = "none"
      BY <3>1 DEF TasksInv
    <3> QED BY <2>4, <3>1, <3>3, <3>4
  <2>6. ASSUME NEW pc \in {"log", "end", "ack"}, NEW a \in Answers,
               TaskGoto(w, pc, a), task[w].pc # "idle"
        PROVE  /\ task'[w].pc = "idle" <=> task'[w].job = NoJob
               /\ task'[w].job <= sent
               /\ task'[w].pc \in {"url", "post"} => task'[w].answer = "none"
    <3>1. task'[w].pc = pc /\ task'[w].job = task[w].job
      <4>1. pc \in TaskPc
        BY DEF TaskPc
      <4> QED BY <2>6, <4>1, TaskUpdates
    <3> QED BY <2>4, <2>6, <3>1
  <2>7. CASE deliver(w)
    BY <2>6, <2>7 DEF deliver, Answers
  <2>8. CASE log_delivery(w)
    <3>1. task[w].answer \in Answers
      BY <1>0 DEF TaskRecord
    <3> QED BY <2>6, <2>8, <3>1 DEF log_delivery
  <2>9. CASE retry(w)
    BY <2>6, <2>9 DEF retry, SendRetry, Answers
  <2> QED BY <2>1, <2>3, <2>5, <2>7, <2>8, <2>9 DEF WorkerSteps, RunTask,
          get_webhook_row_fails, finish, ack, crash, EndTask
<1>2. ASSUME NEW j \in Jobs, j > sent
      PROVE  /\ \A n \in Tries : waiting'[<<j, n>>] = 0
             /\ posts'[j] = 0 /\ final'[j] = 0 /\ ended'[j] = 0
             /\ j \notin accepted'
  <2>1. /\ \A n \in Tries : waiting[<<j, n>>] = 0
        /\ posts[j] = 0 /\ final[j] = 0 /\ ended[j] = 0
        /\ j \notin accepted
    BY <1>2 DEF TasksInv
  <2>2. task[w].pc # "idle" => task[w].job # j
    BY <1>0, <1>2
  <2>3. \A n \in Tries : waiting'[<<j, n>>] = waiting[<<j, n>>]
    <3>1. ASSUME NEW i, NEW m, NEW x, i # j,
                 waiting' = [waiting EXCEPT ![<<i, m>>] = x]
          PROVE  \A n \in Tries : waiting'[<<j, n>>] = waiting[<<j, n>>]
      BY <3>1 DEF HookTypeOK
    <3>2. CASE Take(w)
      <4>1. PICK i \in Jobs, m \in Tries : take(w, i, m)
        BY <3>2 DEF Take
      <4>2. i # j
        <5>1. i <= sent /\ i \in Nat /\ j \in Nat
          BY <4>1 DEF take, Jobs
        <5> QED BY <1>0, <1>2, <5>1
      <4>3. waiting' = [waiting EXCEPT ![<<i, m>>] = waiting[<<i, m>>] - 1]
        BY <4>1 DEF take
      <4> QED BY <3>1, <4>2, <4>3
    <3>3. CASE crash(w)
      BY <2>2, <3>1, <3>3 DEF crash, given_back
    <3>4. CASE retry(w)
      BY <2>2, <3>1, <3>4 DEF retry, SendRetry
    <3>5. CASE waiting' = waiting
      BY <3>5
    <3> QED BY <3>2, <3>3, <3>4, <3>5 DEF WorkerSteps, RunTask,
            get_webhook_row, get_webhook_row_fails, deliver, log_delivery,
            finish, ack
  <2>4. ended'[j] = ended[j]
    BY <2>2 DEF HookTypeOK, WorkerSteps, RunTask, Take, take, crash,
       get_webhook_row, get_webhook_row_fails, deliver, log_delivery, finish,
       retry, ack, EndTask, historyVars
  <2>5. /\ posts'[j] = posts[j] /\ final'[j] = final[j]
        /\ j \in accepted' <=> j \in accepted
    <3>1. CASE deliver(w)
      BY <2>2, <3>1 DEF HookTypeOK, deliver, answerVars
    <3>2. CASE UNCHANGED answerVars
      BY <3>2 DEF answerVars
    <3> QED BY <3>1, <3>2 DEF WorkerSteps, RunTask, Take, take, crash,
            get_webhook_row, get_webhook_row_fails, log_delivery, finish,
            retry, ack, historyVars
  <2> QED BY <2>1, <2>3, <2>4, <2>5
<1> QED BY <1>0, <1>1, <1>2 DEF TasksInv

(* Between the answer and the log.                                         *)
LEMMA WorkerLogs ==
    ASSUME HookTypeOK, HookTypeOK', TasksInv, LogInv,
           NEW w \in Workers, WorkerSteps(w)
    PROVE  LogInv'
<1>0. /\ task \in [Workers -> TaskRecord] /\ task[w] \in TaskRecord
      /\ \A v \in Workers \ {w} : task'[v] = task[v]
      /\ task[w].pc # "idle" => task[w].job \in Jobs
      /\ UNCHANGED <<hook, sent, job>>
  <2>1. /\ task[w].pc # "idle" => task[w].job \in 1 .. sent
        /\ \A v \in Workers \ {w} : task'[v] = task[v]
        /\ UNCHANGED <<hook, sent, job>>
    BY WorkerStep
  <2>2. sent \in 0 .. MaxJobs /\ MaxJobs \in Nat
    BY HooksOK DEF HookTypeOK
  <2> QED BY <2>1, <2>2 DEF HookTypeOK, TaskRecord, Jobs
<1>1. log \subseteq log' /\ hurt \subseteq hurt'
  BY DEF WorkerSteps, RunTask, Take, take, crash, get_webhook_row,
     get_webhook_row_fails, deliver, log_delivery, finish, retry, ack,
     historyVars
<1> SUFFICES ASSUME NEW j \in accepted'
             PROVE  \/ j \in log' \/ j \in hurt'
                    \/ hook'[job'[j].hook].row = "deleted"
                    \/ \E v \in Workers : /\ task'[v].job = j
                                          /\ task'[v].pc = "log"
                                          /\ task'[v].answer = "2xx"
  BY DEF LogInv
<1>2. CASE j \notin accepted
  <2>1. deliver(w)
    BY <1>2 DEF WorkerSteps, RunTask, Take, take, crash, get_webhook_row,
       get_webhook_row_fails, log_delivery, finish, retry, ack, historyVars,
       answerVars
  <2>2. TaskGoto(w, "log", "2xx") /\ j = task[w].job
    BY <1>2, <2>1 DEF deliver, answerVars
  <2>3. task'[w].pc = "log" /\ task'[w].answer = "2xx" /\ task'[w].job = j
    BY <2>2, TaskUpdates DEF TaskPc, Answers
  <2> QED BY <2>3
<1>3. CASE j \in accepted
  <2>1. CASE \/ j \in log \/ j \in hurt \/ hook[job[j].hook].row = "deleted"
    BY <1>0, <1>1, <2>1
  <2>2. CASE \E v \in Workers : /\ task[v].job = j /\ task[v].pc = "log"
                                /\ task[v].answer = "2xx"
    <3>1. PICK v \in Workers : /\ task[v].job = j /\ task[v].pc = "log"
                               /\ task[v].answer = "2xx"
      BY <2>2
    <3>2. CASE v # w
      BY <1>0, <3>1, <3>2
    <3>3. CASE v = w
      <4>1. log_delivery(w) \/ crash(w)
        BY <3>1, <3>3 DEF WorkerSteps, RunTask, Take, take, get_webhook_row,
           get_webhook_row_fails, deliver, finish, retry, ack, SendRetry
      <4>2. CASE crash(w)
        BY <3>1, <3>3, <4>2 DEF crash
      <4>3. CASE log_delivery(w)
        <5>1. j \in Jobs
          BY <1>0, <3>1, <3>3
        <5>2. hook[job[j].hook].row \in {"live", "deleted"}
          <6>1. job[j].hook \in Hooks
            BY <5>1 DEF HookTypeOK
          <6> QED BY <6>1 DEF HookTypeOK, Row
        <5> QED BY <1>0, <3>1, <3>3, <4>3, <5>2 DEF log_delivery, LogsSuccess
      <4> QED BY <4>1, <4>2, <4>3
    <3> QED BY <3>2, <3>3
  <2> QED BY <1>3, <2>1, <2>2 DEF LogInv
<1> QED BY <1>2, <1>3

-----------------------------------------------------------------------------
(* Steps of users, fan-outs and workers.                                   *)
HookInv == HookTypeOK /\ TasksInv /\ CountsInv /\ LogInv

LEMMA InitHooks == HookInit => HookInv
<1> SUFFICES ASSUME HookInit  PROVE HookInv
  OBVIOUS
<1>0. MaxRetries \in Nat /\ MaxJobs \in Nat /\ MaxCrashes \in Nat
      /\ Hooks # {} /\ 0 \in Tries
  BY HooksOK DEF Tries
<1>1. HookTypeOK
  <2>1. hook \in [Hooks -> Row]
    BY DEF HookInit, Row
  <2>2. job \in [Jobs -> [hook : Hooks, source : Sources,
                         queue : Consumed \cup {"celery"}]]
    <3>1. (CHOOSE h \in Hooks : TRUE) \in Hooks
      BY <1>0
    <3> QED BY <3>1 DEF HookInit, Sources, Consumed
  <2>3. IdleTask \in TaskRecord
    BY <1>0 DEF IdleTask, TaskRecord, TaskPc, Answers
  <2>4. task \in [Workers -> TaskRecord]
    BY <2>3 DEF HookInit
  <2> QED BY <1>0, <2>1, <2>2, <2>4 DEF HookInit, HookTypeOK, TaskRecord
<1>2. TasksInv
  <2>1. \A w \in Workers : task[w] = IdleTask
    BY DEF HookInit
  <2>2. /\ IdleTask.pc = "idle" /\ IdleTask.job = NoJob
        /\ NoJob <= sent
    BY DEF HookInit, IdleTask, NoJob
  <2>3. \A j \in Jobs : /\ \A n \in Tries : waiting[<<j, n>>] = 0
                        /\ posts[j] = 0 /\ final[j] = 0 /\ ended[j] = 0
                        /\ j \notin accepted
    BY DEF HookInit
  <2> QED BY <2>1, <2>2, <2>3 DEF TasksInv
<1>3. ASSUME NEW j \in Jobs  PROVE Counts(j)
  <2>1. Messages(j) = {}
    <3>1. \A n \in Tries : {n} \X (1 .. waiting[<<j, n>>]) = {}
      BY DEF HookInit
    <3> QED BY <3>1, Zenon DEF Messages
  <2>2. Holders(j) = {}
    BY DEF HookInit, Holders, IdleTask, NoJob, Jobs
  <2>3. MessagePosts(j) = {} /\ HolderPosts(j) = {} /\ Unanswered(j) = {}
    BY <2>1, <2>2 DEF MessagePosts, HolderPosts, Unanswered
  <2>4. Cardinality({}) = 0 /\ IsFiniteSet({})
    BY FS_EmptySet
  <2>5. Bound(0) \in Nat
    BY BoundGrows
  <2> QED BY <2>1, <2>2, <2>3, <2>4, <2>5 DEF Counts, HookInit
<1>4. LogInv
  BY DEF HookInit, LogInv
<1> QED BY <1>1, <1>2, <1>3, <1>4, CountsOfJobs DEF HookInv

LEMMA NextHooks == HookInv /\ [HookNext]_hookVars => HookInv'
<1> SUFFICES ASSUME HookInv, [HookNext]_hookVars  PROVE HookInv'
  OBVIOUS
<1> USE DEF HookInv
<1>1. ASSUME HookNext  PROVE HookTypeOK'
  BY <1>1, NextHookTypes
<1>2. CASE UNCHANGED hookVars
  <2>1. HookTypeOK' /\ TasksInv' /\ LogInv'
    BY <1>2 DEF hookVars, HookTypeOK, TasksInv, LogInv
  <2>2. CountsInv'
    BY <1>2, OthersCount DEF hookVars
  <2> QED BY <2>1, <2>2
<1>3. ASSUME HookNext, NEW h \in Hooks,
             update_webhook(h) \/ delete_webhook(h)
      PROVE  HookInv'
  <2>1. /\ UNCHANGED <<task, waiting, posts, final, ended, hurt, crashes>>
        /\ UNCHANGED <<sent, job, accepted>>
    BY <1>3 DEF update_webhook, delete_webhook, senderVars, taskVars,
       historyVars, answerVars
  <2>2. TasksInv' /\ CountsInv'
    BY <2>1, OthersCount DEF TasksInv
  <2>3. LogInv'
    <3>1. CASE update_webhook(h)
      <4>1. /\ log' = log /\ hook[h].row = "live"
            /\ \A g \in Hooks \ {h} : hook'[g] = hook[g]
        BY <3>1 DEF update_webhook, taskVars, HookTypeOK
      <4>2. ASSUME NEW j \in accepted
            PROVE  job[j].hook \in Hooks
        BY DEF HookTypeOK
      <4> QED BY <2>1, <4>1, <4>2 DEF LogInv
    <3>2. CASE delete_webhook(h)
      <4>1. /\ log' = {j \in log : job[j].hook # h}
            /\ hook'[h].row = "deleted"
            /\ \A g \in Hooks \ {h} : hook'[g] = hook[g]
        BY <3>2 DEF delete_webhook, HookTypeOK, Gone
      <4>2. ASSUME NEW j \in accepted
            PROVE  job[j].hook \in Hooks
        BY DEF HookTypeOK
      <4> QED BY <2>1, <4>1, <4>2 DEF LogInv
    <3> QED BY <1>3, <3>1, <3>2
  <2> QED BY <1>1, <1>3, <2>2, <2>3
<1>4. ASSUME HookNext, NEW s \in Sources,
             select_webhooks(s) \/ send_task_fails(s)
      PROVE  HookInv'
  <2>1. UNCHANGED <<hook, sent, job, taskVars>>
    BY <1>4 DEF select_webhooks, send_task_fails
  <2>2. TasksInv' /\ LogInv'
    BY <2>1 DEF taskVars, TasksInv, LogInv
  <2>3. CountsInv'
    BY <2>1, OthersCount DEF taskVars
  <2> QED BY <1>1, <1>4, <2>2, <2>3
<1>5. ASSUME HookNext, NEW s \in Sources, NEW h \in Hooks, send_task(s, h)
      PROVE  HookInv'
  <2>1. HookTypeOK'
    BY <1>1, <1>5
  <2>2. ASSUME NEW j \in Jobs  PROVE Counts(j)'
    BY <1>5, <2>1, SendCounts
  <2>3. CountsInv'
    <3>1. (CountsInv <=> \A j \in Jobs : Counts(j))'
      BY CountsOfJobs, PTL
    <3> QED BY <2>2, <3>1
  <2>4. /\ sent' = sent + 1 /\ sent \in Nat /\ sent' \in Jobs
        /\ \A j \in Jobs : j > sent' => j > sent /\ j # sent'
        /\ \A j \in Jobs : j <= sent => j # sent'
        /\ waiting' = [waiting EXCEPT ![<<sent', 0>>] = 1]
        /\ UNCHANGED <<hook, task, log, posts, final, accepted, ended, hurt>>
    BY <1>5, HooksOK DEF send_task, HookTypeOK, Jobs, historyVars, answerVars
  <2>5. \A w \in Workers : task[w].job \in Nat
    BY DEF HookTypeOK, Jobs, NoJob
  <2>6. TasksInv'
    <3>1. \A w \in Workers :
             /\ task'[w].pc = "idle" <=> task'[w].job = NoJob
             /\ task'[w].job <= sent'
             /\ task'[w].pc \in {"url", "post"} => task'[w].answer = "none"
      BY <2>4, <2>5 DEF TasksInv
    <3>2. \A j \in Jobs, n \in Tries :
             j # sent' => waiting'[<<j, n>>] = waiting[<<j, n>>]
      BY <2>4 DEF HookTypeOK
    <3>3. \A j \in Jobs : j > sent' =>
             /\ \A n \in Tries : waiting'[<<j, n>>] = 0
             /\ posts'[j] = 0 /\ final'[j] = 0 /\ ended'[j] = 0
             /\ j \notin accepted'
      BY <2>4, <3>2 DEF TasksInv
    <3> QED BY <3>1, <3>3 DEF TasksInv
  <2>7. LogInv'
    <3>1. ASSUME NEW j \in accepted  PROVE job'[j] = job[j]
      <4>1. j \in Jobs /\ j # sent'
        BY <2>4 DEF TasksInv, HookTypeOK, Jobs
      <4> QED BY <1>5, <4>1 DEF send_task, HookTypeOK
    <3> QED BY <2>4, <3>1 DEF LogInv
  <2> QED BY <2>1, <2>3, <2>6, <2>7
<1>6. ASSUME HookNext, NEW w \in Workers, WorkerSteps(w)  PROVE HookInv'
  <2>1. HookTypeOK'
    BY <1>1, <1>6
  <2>2. ASSUME NEW j \in Jobs  PROVE Counts(j)'
    BY <1>6, <2>1, WorkerCounts
  <2>3. CountsInv'
    <3>1. (CountsInv <=> \A j \in Jobs : Counts(j))'
      BY CountsOfJobs, PTL
    <3> QED BY <2>2, <3>1
  <2>4. TasksInv' /\ LogInv'
    BY <1>6, <2>1, WorkerTasks, WorkerLogs
  <2> QED BY <2>1, <2>3, <2>4
<1> QED BY <1>2, <1>3, <1>4, <1>5, <1>6 DEF HookNext, WorkerSteps

LEMMA AlwaysHooks == HookSpec => []HookInv
  BY InitHooks, NextHooks, PTL DEF HookSpec

(* A message is never multiplied by a retry, and by a crash only once:     *)
(* webhook.py acknowledges late and raises Retry after it sent the retry.  *)
THEOREM NoCopiesMultiply == HookSpec => []NoExtraCopies
<1>1. HookInv => NoExtraCopies
  BY DEF HookInv, CountsInv, CopiesInv, NoExtraCopies
<1> QED BY <1>1, AlwaysHooks, PTL

(* max_retries bounds the POSTs of a job, and an answer 2xx or 4xx ends    *)
(* them, for every number of workers and retries (deliver_webhook).        *)
THEOREM AttemptsAreBounded == HookSpec => []AttemptsBounded
<1>1. HookInv => AttemptsBounded
  <2> SUFFICES ASSUME HookInv, NEW j \in Jobs
               PROVE  /\ posts[j] <= (MaxRetries + 1) * (1 + crashes)
                      /\ final[j] <= 1 + crashes
    BY DEF AttemptsBounded
  <2>1. Counts(j)
    BY CountsOfJobs DEF HookInv
  <2>2. /\ Cardinality(Messages(j)) \in Nat
        /\ Cardinality(MessagePosts(j)) \in Nat
        /\ Cardinality(HolderPosts(j)) \in Nat
    BY <2>1, FS_CardinalityType DEF Counts
  <2>3. Cardinality(Unanswered(j)) \in Nat
    <3>1. Unanswered(j) \in SUBSET Holders(j)
      BY DEF Unanswered
    <3> QED BY <2>1, <3>1, FS_Subset, FS_CardinalityType DEF Counts
  <2>4. posts[j] \in Nat /\ final[j] \in Nat /\ crashes \in Nat
    BY DEF HookInv, HookTypeOK
  <2>5. posts[j] <= Bound(crashes)
    BY <2>1, <2>2, <2>4, BoundGrows DEF Counts
  <2> QED BY <2>1, <2>2, <2>3, <2>4, <2>5 DEF Counts, Bound
<1> QED BY <1>1, AlwaysHooks, PTL

(* When the task of an accepted POST has ended, the log has its row        *)
(* (log_delivery runs before the task returns, and nothing runs it again). *)
THEOREM AcceptedGetsLogged == HookSpec => []AcceptedIsLogged
<1>1. HookInv => AcceptedIsLogged
  <2> SUFFICES ASSUME HookInv, NEW j \in Jobs, j \in accepted, ended[j] > 0,
                      j \notin log, j \notin hurt
               PROVE  hook[job[j].hook].row = "deleted"
    BY DEF AcceptedIsLogged
  <2>1. CASE \E w \in Workers : task[w].job = j /\ task[w].pc = "log"
    <3>1. PICK w \in Workers : task[w].job = j /\ task[w].pc = "log"
      BY <2>1
    <3>2. w \in Holders(j)
      BY <3>1 DEF Holders
    <3>3. Counts(j)
      BY CountsOfJobs DEF HookInv
    <3>4. IsFiniteSet(Holders(j)) /\ IsFiniteSet(Messages(j))
      BY <3>3 DEF Counts
    <3>5. Cardinality(Holders(j)) \in Nat /\ Cardinality(Messages(j)) \in Nat
      BY <3>4, FS_CardinalityType
    <3>6. Cardinality(Holders(j)) # 0
      BY <3>2, <3>4, FS_EmptySet
    <3>7. ended[j] \in Nat
      BY DEF HookInv, HookTypeOK
    <3> QED BY <3>3, <3>5, <3>6, <3>7 DEF Counts
  <2> QED BY <2>1 DEF HookInv, LogInv
<1> QED BY <1>1, AlwaysHooks, PTL

=============================================================================
