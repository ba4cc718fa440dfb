----------------------------- MODULE ShareLinks -----------------------------
(***************************************************************************)
(* Public share links of one model (services/share.py), resolved without   *)
(* authentication while the link is revoked or expires and the model is    *)
(* converted or deleted.  Every SELECT sees a snapshot of its own.  Roles  *)
(* are checked in ProjectMembers' way, before any step modelled here.      *)
(***************************************************************************)
EXTENDS Naturals

CONSTANTS
    Links,      \* share links that may be created
    Readers     \* concurrent GET requests

VARIABLES
    shared,     \* models.status of the model; "deleted" without a row
    manifest,   \* its model_metadata row lists chunks
    link,       \* share_links rows: "none", "active", "revoked" or "gone"
    lapsed,     \* links whose expires_at has passed
    reader      \* the GET requests in flight

shareVars == <<shared, manifest, link, lapsed, reader>>

SharedStatus == {"processing", "ready", "failed", "deleted"}
ReaderPc     == {"idle", "resolve", "list", "model", "meta", "answer"}

(* links: what the answer names.  dead, lost: history, the links that were *)
(* over when the request arrived; that the model was deleted during it.    *)
IdleReader == [pc |-> "idle", links |-> {}, status |-> "processing",
               chunks |-> FALSE, dead |-> {}, lost |-> FALSE]

ShareTypeOK ==
    /\ shared \in SharedStatus
    /\ manifest \in BOOLEAN
    /\ link \in [Links -> {"none", "active", "revoked", "gone"}]
    /\ lapsed \subseteq Links
    /\ reader \in [Readers -> [pc : ReaderPc, links : SUBSET Links,
                               status : SharedStatus, chunks : BOOLEAN,
                               dead : SUBSET Links, lost : BOOLEAN]]

ShareInit ==
    /\ shared = "processing"
    /\ manifest = FALSE
    /\ link = [l \in Links |-> "none"]
    /\ lapsed = {}
    /\ reader = [r \in Readers |-> IdleReader]

-----------------------------------------------------------------------------
(* The model: a conversion stores the chunks' keys, and only then declares *)
(* it ready; or fails; DELETE takes metadata and links along (CASCADE).    *)
store_metadata ==
    /\ shared = "processing"
    /\ manifest' = TRUE
    /\ UNCHANGED <<shared, link, lapsed, reader>>

finish_processing ==
    /\ shared = "processing"
    /\ \/ shared' = "ready" /\ manifest
       \/ shared' = "failed"
    /\ UNCHANGED <<manifest, link, lapsed, reader>>

delete_shared_model ==
    /\ shared # "deleted"
    /\ shared' = "deleted"
    /\ manifest' = FALSE
    /\ link' = [l \in Links |-> IF link[l] = "none" THEN "none" ELSE "gone"]
    /\ reader' = [r \in Readers |->
                    IF reader[r].pc = "idle" THEN IdleReader
                    ELSE [reader[r] EXCEPT !.lost = TRUE]]
    /\ UNCHANGED lapsed

(* INSERT: the foreign key refuses it once the model is gone.              *)
create_share_link(l) ==
    /\ link[l] = "none"
    /\ shared # "deleted"
    /\ link' = [link EXCEPT ![l] = "active"]
    /\ UNCHANGED <<shared, manifest, lapsed, reader>>

(* By its creator; an UPDATE that finds no row any more raises.            *)
revoke_share_link(l) ==
    /\ link[l] \in {"active", "revoked"}
    /\ link' = [link EXCEPT ![l] = "revoked"]
    /\ UNCHANGED <<shared, manifest, lapsed, reader>>

expire_link(l) ==
    /\ link[l] # "none"
    /\ lapsed' = lapsed \cup {l}
    /\ UNCHANGED <<shared, manifest, link, reader>>

-----------------------------------------------------------------------------
(* A request arrives, and the list request finds its model.  Middleware    *)
(* and the role check await before the links are read.                     *)
Over == {l \in Links : link[l] \in {"revoked", "gone"}}

receive(r) ==
    /\ reader[r].pc = "idle"
    /\ \E pc \in {"resolve", "list"} :
          /\ pc = "list" => shared # "deleted"
          /\ reader' = [reader EXCEPT ![r] = [IdleReader EXCEPT
                        !.pc = pc,
                        !.dead = IF pc = "list" THEN Over ELSE Over \cup lapsed]]
    /\ UNCHANGED <<shared, manifest, link, lapsed>>

(* get_share_link: the link's row, the model, its metadata.                *)
(* Mutant: only the expiry is checked.                                     *)
Unexpired(l)  == link[l] \in {"active", "revoked"} /\ l \notin lapsed
Resolvable(l) == link[l] = "active" /\ l \notin lapsed

(* A link that is not found, revoked or expired is answered with an error. *)
select_link(r, l) ==
    /\ reader[r].pc = "resolve"
    /\ reader' = IF Resolvable(l)
                 THEN [reader EXCEPT ![r].pc = "model", ![r].links = {l}]
                 ELSE [reader EXCEPT ![r] = IdleReader]
    /\ UNCHANGED <<shared, manifest, link, lapsed>>

(* Mutant: the metadata is read first.                                     *)
ReadMetaFirst(r) ==
    \/ /\ reader[r].pc = "model"
       /\ reader' = [reader EXCEPT ![r].pc = "meta", ![r].chunks = manifest]
    \/ /\ reader[r].pc = "meta" /\ shared # "deleted"
       /\ reader' = [reader EXCEPT ![r].pc = "answer", ![r].status = shared]

ReadModelFirst(r) ==
    \/ /\ reader[r].pc = "model"
       /\ reader' = IF shared = "deleted"
                    THEN [reader EXCEPT ![r] = IdleReader]
                    ELSE [reader EXCEPT ![r].pc = "meta",
                                        ![r].status = shared]
    \/ /\ reader[r].pc = "meta"
       /\ reader' = [reader EXCEPT ![r].pc = "answer",
                                   ![r].chunks = manifest]

get_share_link(r) ==
    /\ ReadModelFirst(r)
    /\ UNCHANGED <<shared, manifest, link, lapsed>>

(* list_share_links.  Mutant: the condition never reaches the query (the   *)
(* BUG FIX comment).                                                       *)
ListedUnfiltered(l) == link[l] \in {"active", "revoked"}
Listed(l)           == link[l] = "active"

list_share_links(r) ==
    /\ reader[r].pc = "list"
    /\ reader' = [reader EXCEPT ![r].pc = "answer",
                                ![r].links = {l \in Links : Listed(l)}]
    /\ UNCHANGED <<shared, manifest, link, lapsed>>

reply_shared(r) ==
    /\ reader[r].pc = "answer"
    /\ reader' = [reader EXCEPT ![r] = IdleReader]
    /\ UNCHANGED <<shared, manifest, link, lapsed>>

ShareNext ==
    \/ store_metadata \/ finish_processing \/ delete_shared_model
    \/ \E l \in Links : \/ create_share_link(l) \/ revoke_share_link(l)
                        \/ expire_link(l)
    \/ \E r \in Readers : \/ receive(r)
                          \/ \E l \in Links : select_link(r, l)
                          \/ get_share_link(r) \/ list_share_links(r)
                          \/ reply_shared(r)

ShareSpec == ShareInit /\ [][ShareNext]_shareVars

-----------------------------------------------------------------------------
(* A link that was revoked or had expired, or whose model was deleted,     *)
(* before a request arrived is not resolved by it, and one that was        *)
(* revoked or deleted is not listed, whatever happens to the links until   *)
(* the request reads them (services/share.py, the BUG FIX comment).        *)
RevokedStaysHidden ==
    \A r \in Readers : reader[r].links \cap reader[r].dead = {}

(* A public page that says "ready" has chunks to show, although status and *)
(* chunks come from two queries, unless the model was deleted meanwhile.   *)
SharedReadyHasChunks ==
    \A r \in Readers :
        /\ reader[r].pc = "answer" /\ reader[r].status = "ready"
        => reader[r].chunks \/ reader[r].lost

(* routers/share.py:124: "List active (non-revoked, non-expired) share     *)
(* links for a model."                                                     *)
ListedNotExpired ==
    [][\A r \in Readers :
          reader[r].pc = "list" /\ reader'[r].pc = "answer"
              => reader'[r].links \cap lapsed = {}]_shareVars
=============================================================================
