----------------------------- MODULE MCClients -----------------------------
(***************************************************************************)
(* What clients meet outside a project's records, in one run: webhooks,    *)
(* request limits, share links, pages and the parts of a split model.      *)
(* `part' picks the part that takes all the steps of a behaviour: they     *)
(* share no variable and no property speaks of two of them.                *)
(***************************************************************************)
EXTENDS WebhookDelivery, RequestLimits, ShareLinks, Pagination, ChunkSplit, TLC

VARIABLE part

CONSTANTS h1, h2, h3, q1, q2

(* Two of three concurrent requests are served by one API process.         *)
TwoProcs == [h \in Hits |-> IF h = h2 THEN q2 ELSE q1]

(* One user, who has a key, and one on the unlimited plan; a token that is *)
(* nobody's key; one address.  What these send is either uploads, or       *)
(* requests that end at the limiter, the authentication or an open route;  *)
(* an hour passes among the latter.                                        *)
Plans  == [u \in Users |-> IF u = "vip" THEN "enterprise" ELSE "pro"]
Owners == [k \in ApiKeys |-> IF k = "k1" THEN "u1" ELSE Nobody]
Limits == [p \in LimitedPlans |-> IF p = "pro" THEN 2 ELSE 1]
Quotas == [p \in LimitedPlans |-> 1]
Sends(path, kind, of) ==
    [path |-> path, from |-> "ip1", kind |-> kind, of |-> of]
Uploads ==
    {Sends("protected", "access", "u1"), Sends("protected", "access", "vip"),
     Sends("protected", "apikey", "k1")}
Others ==
    {Sends("exempt", "none", Nobody), Sends("login", "none", Nobody),
     Sends("protected", "none", Nobody), Sends("account", "apikey", "guess")}
Traffic == Uploads \cup Others

Only(p, next, others) == part = p /\ next /\ UNCHANGED <<part, others>>
Requested(requests) == \A h \in Hits : hit'[h].req \in requests \cup {NoRequest}

ClientsInit ==
    /\ part \in {"hooks", "uploads", "others", "share", "pages", "chunks"}
    /\ LimitsInit /\ ShareInit
    /\ HookInit
    /\ part = "hooks" \/ \A h \in Hooks : Wants(h) /\ hook[h].public
    /\ IF part = "pages" THEN PageInit
       ELSE /\ created = [r \in RowIds |-> 1] /\ visible = {}
            /\ limit = 1 /\ cursor = NoCursor /\ done = FALSE
            /\ seen = {} /\ repeated = {} /\ steady = {}
    /\ SplitInit
    /\ part = "chunks" \/ outputs = <<>>

ClientsNext ==
    \/ Only("hooks", HookNext, <<limitVars, shareVars, pageVars, splitVars>>)
    \/ Only("uploads", LimitsNext /\ Requested(Uploads) /\ UNCHANGED hour,
            <<hookVars, shareVars, pageVars, splitVars>>)
    \/ Only("others", LimitsNext /\ Requested(Others),
            <<hookVars, shareVars, pageVars, splitVars>>)
    \/ Only("share", ShareNext, <<hookVars, limitVars, pageVars, splitVars>>)
    \/ Only("pages", PageNext, <<hookVars, limitVars, shareVars, splitVars>>)
    \/ Only("chunks", SplitNext, <<hookVars, limitVars, shareVars, pageVars>>)

ClientsSpec ==
    /\ ClientsInit
    /\ [][ClientsNext]_<<part, hookVars, limitVars, shareVars, pageVars, splitVars>>
    /\ HookFairness
=============================================================================
