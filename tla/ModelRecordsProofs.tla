------------------------- MODULE ModelRecordsProofs -------------------------
(***************************************************************************)
(* The records that belong to a model and go with it: public share links   *)
(* and annotations, for any number of them and of concurrent requests.     *)
(***************************************************************************)
EXTENDS ShareLinks, Annotations, TLAPS

-----------------------------------------------------------------------------
(* Share links.                                                            *)

(* What a reader has read so far is consistent: a link that was over when  *)
(* it arrived still is, so it names none of these, and a model that it     *)
(* found ready still lists its chunks unless it was deleted.               *)
Early == {"idle", "resolve", "list", "model"}

ReaderInv(r) ==
    /\ reader[r].links \cap reader[r].dead = {}
    /\ reader[r].pc = "resolve" => reader[r].dead \subseteq Over \cup lapsed
    /\ reader[r].pc = "list" => reader[r].dead \subseteq Over
    /\ reader[r].pc \in Early => reader[r].status # "ready"
    /\ reader[r].status = "ready" =>
          \/ reader[r].lost
          \/ manifest /\ (reader[r].pc = "answer" => reader[r].chunks)

ShareInv ==
    /\ ShareTypeOK
    /\ shared = "ready" => manifest
    /\ \A r \in Readers : ReaderInv(r)

ReaderRecord == [pc : ReaderPc, links : SUBSET Links, status : SharedStatus,
                 chunks : BOOLEAN, dead : SUBSET Links, lost : BOOLEAN]

LEMMA IdleIsFine ==
    /\ IdleReader \in ReaderRecord /\ IdleReader.pc = "idle"
    /\ IdleReader.links = {} /\ IdleReader.status = "processing"
  BY DEF IdleReader, ReaderRecord, ReaderPc, SharedStatus

LEMMA InitShare == ShareInit => ShareInv
<1> SUFFICES ASSUME ShareInit  PROVE ShareInv
  OBVIOUS
<1>1. ShareTypeOK
  BY IdleIsFine DEF ShareInit, ShareTypeOK, SharedStatus, ReaderRecord
<1>2. \A r \in Readers : ReaderInv(r)
  BY IdleIsFine DEF ShareInit, ReaderInv
<1> QED BY <1>1, <1>2 DEF ShareInit, ShareInv

(* A step that changes nothing but what reader r holds.                    *)
LEMMA ReaderStep ==
    ASSUME ShareInv, NEW r \in Readers, NEW v \in ReaderRecord,
           UNCHANGED <<shared, manifest, link, lapsed>>,
           reader' = [reader EXCEPT ![r] = v],
           v.links \cap v.dead = {},
           v.pc = "resolve" => v.dead \subseteq Over \cup lapsed,
           v.pc = "list" => v.dead \subseteq Over,
           v.pc \in Early => v.status # "ready",
           v.status = "ready" =>
              v.lost \/ (manifest /\ (v.pc = "answer" => v.chunks))
    PROVE  ShareInv'
<1>1. /\ reader'[r] = v
      /\ \A q \in Readers \ {r} : reader'[q] = reader[q]
  BY DEF ShareInv, ShareTypeOK
<1>2. ShareTypeOK'
  BY DEF ShareInv, ShareTypeOK, ReaderRecord
<1>3. \A q \in Readers : ReaderInv(q)'
  BY <1>1 DEF ShareInv, ReaderInv, Over
<1> QED BY <1>2, <1>3 DEF ShareInv

(* A step of the model or of the links: readers keep what they hold, and   *)
(* the metadata is only taken away by the deletion, which they note.  What *)
(* is over stays over.                                                     *)
LEMMA ModelStep ==
    ASSUME ShareInv, UNCHANGED reader, manifest => manifest',
           shared' \in SharedStatus, manifest' \in BOOLEAN,
           shared' = "ready" => manifest',
           link' \in [Links -> {"none", "active", "revoked", "gone"}],
           lapsed' \subseteq Links, lapsed \subseteq lapsed',
           Over \subseteq Over'
    PROVE  ShareInv'
<1>1. ShareTypeOK'
  BY DEF ShareInv, ShareTypeOK
<1>2. ASSUME NEW r \in Readers  PROVE ReaderInv(r)'
  BY <1>2 DEF ShareInv, ReaderInv
<1> QED BY <1>1, <1>2 DEF ShareInv

LEMMA DeleteStep ==
    ASSUME ShareInv, delete_shared_model  PROVE ShareInv'
<1> DEFINE v(r) == IF reader[r].pc = "idle" THEN IdleReader
                   ELSE [reader[r] EXCEPT !.lost = TRUE]
<1>1. \A r \in Readers : reader[r] \in ReaderRecord /\ ReaderInv(r)
  BY DEF ShareInv, ShareTypeOK, ReaderRecord
<1>2. reader' = [r \in Readers |-> v(r)]
  BY DEF delete_shared_model
<1>3. \A r \in Readers :
         /\ v(r) \in ReaderRecord /\ v(r).links \cap v(r).dead = {}
         /\ v(r).pc = "resolve" => v(r).dead \subseteq Over \cup lapsed
         /\ v(r).pc = "list" => v(r).dead \subseteq Over
         /\ v(r).pc \in Early => v(r).status # "ready"
         /\ v(r).status = "ready" => v(r).lost
  BY <1>1, IdleIsFine DEF ReaderInv, ReaderRecord
<1> HIDE DEF v
<1>4. \A r \in Readers : reader'[r] = v(r)
  BY <1>2
<1>5. /\ link' \in [Links -> {"none", "active", "revoked", "gone"}]
      /\ shared' = "deleted" /\ manifest' = FALSE /\ lapsed' = lapsed
      /\ Over \subseteq Over'
  BY DEF delete_shared_model, ShareInv, ShareTypeOK, Over
<1>6. ShareTypeOK'
  BY <1>2, <1>3, <1>5 DEF ShareInv, ShareTypeOK, SharedStatus, ReaderRecord
<1>7. \A r \in Readers : ReaderInv(r)'
  BY <1>3, <1>4, <1>5 DEF ReaderInv
<1> QED BY <1>5, <1>6, <1>7 DEF ShareInv

LEMMA NextShare ==
    ASSUME ShareInv, [ShareNext]_shareVars  PROVE ShareInv'
<1> USE DEF ShareInv
<1>1. /\ shared \in SharedStatus /\ manifest \in BOOLEAN /\ lapsed \subseteq Links
      /\ link \in [Links -> {"none", "active", "revoked", "gone"}]
      /\ shared = "ready" => manifest
      /\ \A r \in Readers : reader[r] \in ReaderRecord /\ ReaderInv(r)
  BY DEF ShareTypeOK, ReaderRecord
<1>2. CASE store_metadata
  BY <1>1, <1>2, ModelStep DEF store_metadata, Over
<1>3. CASE finish_processing
  BY <1>1, <1>3, ModelStep DEF finish_processing, SharedStatus, Over
<1>4. ASSUME NEW l \in Links,
             create_share_link(l) \/ revoke_share_link(l) \/ expire_link(l)
      PROVE  ShareInv'
  <2>1. /\ UNCHANGED <<shared, manifest, reader>> /\ lapsed' \subseteq Links
        /\ lapsed \subseteq lapsed' /\ Over \subseteq Over'
        /\ link' \in [Links -> {"none", "active", "revoked", "gone"}]
    BY <1>1, <1>4 DEF create_share_link, revoke_share_link, expire_link, Over
  <2> QED BY <1>1, <2>1, ModelStep
<1>10. ASSUME NEW r \in Readers, receive(r)  PROVE ShareInv'
  <2>1. PICK pc \in {"resolve", "list"} :
           reader' = [reader EXCEPT ![r] = [IdleReader EXCEPT
                        !.pc = pc,
                        !.dead = IF pc = "list" THEN Over ELSE Over \cup lapsed]]
    BY <1>10 DEF receive
  <2> DEFINE v == [IdleReader EXCEPT !.pc = pc,
                     !.dead = IF pc = "list" THEN Over ELSE Over \cup lapsed]
  <2>2. /\ v \in ReaderRecord /\ v.links \cap v.dead = {}
        /\ v.pc = "resolve" => v.dead \subseteq Over \cup lapsed
        /\ v.pc = "list" => v.dead \subseteq Over
        /\ v.status # "ready"
    BY <1>1, <2>1, IdleIsFine DEF Over, ReaderRecord, ReaderPc
  <2>3. /\ reader' = [reader EXCEPT ![r] = v]
        /\ UNCHANGED <<shared, manifest, link, lapsed>>
    BY <1>10, <2>1 DEF receive
  <2> HIDE DEF v
  <2> QED BY <2>2, <2>3, ReaderStep
<1>5. ASSUME NEW r \in Readers, NEW l \in Links, select_link(r, l)  PROVE ShareInv'
  <2>0. /\ reader \in [Readers -> ReaderRecord] /\ reader[r] \in ReaderRecord
        /\ ReaderInv(r)
    BY <1>1 DEF ShareTypeOK, ReaderRecord
  <2>1. CASE ~Resolvable(l)
    BY <1>5, <2>1, IdleIsFine, ReaderStep DEF select_link, Early
  <2>2. CASE Resolvable(l)
    <3> DEFINE v == [reader[r] EXCEPT !.pc = "model", !.links = {l}]
    <3>1. /\ v \in ReaderRecord /\ v.pc = "model" /\ v.links = {l}
          /\ v.dead = reader[r].dead /\ v.status = reader[r].status
      BY <2>0 DEF ReaderRecord, ReaderPc
    <3>2. /\ reader' = [reader EXCEPT ![r] = v]
          /\ reader[r].pc = "resolve"
          /\ UNCHANGED <<shared, manifest, link, lapsed>>
      BY <1>5, <2>0, <2>2 DEF select_link
    <3>3. reader[r].dead \subseteq Over \cup lapsed /\ l \notin Over \cup lapsed
      BY <2>0, <2>2, <3>2 DEF ReaderInv, Resolvable, Over
    <3>4. v.links \cap v.dead = {} /\ v.status # "ready"
      BY <2>0, <3>1, <3>2, <3>3 DEF ReaderInv, Early
    <3> HIDE DEF v
    <3> QED BY <3>1, <3>2, <3>4, ReaderStep
  <2> QED BY <2>1, <2>2
<1>6. ASSUME NEW r \in Readers, get_share_link(r)  PROVE ShareInv'
  <2>1. UNCHANGED <<shared, manifest, link, lapsed>>
    BY <1>6 DEF get_share_link
  <2>2. PICK v \in ReaderRecord :
           /\ reader' = [reader EXCEPT ![r] = v]
           /\ v.links \cap v.dead = {}
           /\ v.pc \notin {"resolve", "list"}
           /\ v.pc \in Early => v.status # "ready"
           /\ v.status = "ready" =>
                 v.lost \/ (manifest /\ (v.pc = "answer" => v.chunks))
    <3>1. reader \in [Readers -> ReaderRecord] /\ reader[r] \in ReaderRecord
          /\ ReaderInv(r)
      BY <1>1 DEF ShareTypeOK, ReaderRecord
    <3>2. CASE reader[r].pc = "model" /\ shared = "deleted"
      BY <1>6, <3>2, IdleIsFine DEF get_share_link, ReadModelFirst
    <3>3. CASE reader[r].pc = "model" /\ shared # "deleted"
      <4> DEFINE v == [reader[r] EXCEPT !.pc = "meta", !.status = shared]
      <4>1. v \in ReaderRecord /\ v.pc = "meta" /\ v.status = shared
            /\ v.links = reader[r].links /\ v.dead = reader[r].dead
        BY <1>1, <3>1 DEF ReaderRecord, ReaderPc
      <4>2. reader' = [reader EXCEPT ![r] = v]
        BY <1>6, <3>1, <3>3 DEF get_share_link, ReadModelFirst
      <4> HIDE DEF v
      <4> QED BY <1>1, <3>1, <4>1, <4>2 DEF ReaderInv, Early
    <3>4. CASE reader[r].pc = "meta"
      <4> DEFINE v == [reader[r] EXCEPT !.pc = "answer", !.chunks = manifest]
      <4>1. v \in ReaderRecord /\ v.pc = "answer" /\ v.chunks = manifest
            /\ v.status = reader[r].status /\ v.lost = reader[r].lost
            /\ v.links = reader[r].links /\ v.dead = reader[r].dead
        BY <1>1, <3>1 DEF ReaderRecord, ReaderPc
      <4>2. reader' = [reader EXCEPT ![r] = v]
        BY <1>6, <3>1, <3>4 DEF get_share_link, ReadModelFirst
      <4> HIDE DEF v
      <4> QED BY <1>1, <3>1, <4>1, <4>2 DEF ReaderInv, Early
    <3> QED BY <1>6, <3>2, <3>3, <3>4 DEF get_share_link, ReadModelFirst
  <2> QED BY <2>1, <2>2, ReaderStep
<1>7. ASSUME NEW r \in Readers, list_share_links(r)  PROVE ShareInv'
  <2> DEFINE good == {l \in Links : Listed(l)}
             v == [reader[r] EXCEPT !.pc = "answer", !.links = good]
  <2>0. /\ reader \in [Readers -> ReaderRecord] /\ reader[r] \in ReaderRecord
        /\ ReaderInv(r)
    BY <1>1 DEF ShareTypeOK, ReaderRecord
  <2>1. /\ v \in ReaderRecord /\ v.pc = "answer" /\ v.links = good
        /\ v.dead = reader[r].dead /\ v.status = reader[r].status
    BY <2>0 DEF ReaderRecord, ReaderPc
  <2>2. /\ reader' = [reader EXCEPT ![r] = v]
        /\ reader[r].pc = "list"
        /\ UNCHANGED <<shared, manifest, link, lapsed>>
    BY <1>7, <2>0 DEF list_share_links
  <2>3. good \cap reader[r].dead = {} /\ reader[r].status # "ready"
    BY <2>0, <2>2 DEF ReaderInv, Listed, Over, Early
  <2> HIDE DEF v, good
  <2> QED BY <2>1, <2>2, <2>3, ReaderStep
<1>8. ASSUME NEW r \in Readers, reply_shared(r)  PROVE ShareInv'
  BY <1>8, IdleIsFine, ReaderStep DEF reply_shared, Early
<1>9. CASE UNCHANGED shareVars
  BY <1>1, <1>9, ModelStep DEF shareVars, Over
<1> QED BY <1>2, <1>3, <1>4, <1>5, <1>6, <1>7, <1>8, <1>9, <1>10, DeleteStep
        DEF ShareNext

LEMMA ShareInvHolds == ShareSpec => []ShareInv
<1>1. ShareInv /\ [ShareNext]_shareVars => ShareInv'
  BY NextShare
<1> QED BY <1>1, InitShare, PTL DEF ShareSpec

-----------------------------------------------------------------------------
(* However links are created, revoked, expire or are deleted with their    *)
(* model while requests are under way, a request does not resolve or list  *)
(* a link that was over when it arrived (services/share.py).               *)
THEOREM RevokedLinksStayHidden == ShareSpec => []RevokedStaysHidden
<1>1. ShareInv => RevokedStaysHidden
  BY DEF ShareInv, ReaderInv, RevokedStaysHidden
<1> QED BY <1>1, ShareInvHolds, PTL

(* Reading the model before its metadata, with the metadata written before *)
(* the status, a page that says ready has chunks to show.                  *)
THEOREM SharedPagesAreComplete == ShareSpec => []SharedReadyHasChunks
<1>1. ShareInv => SharedReadyHasChunks
  BY DEF ShareInv, ReaderInv, SharedReadyHasChunks
<1> QED BY <1>1, ShareInvHolds, PTL

-----------------------------------------------------------------------------
(* Annotations.  A channel that has not heard the status a row has now     *)
(* will hear it: some request is still to read the row, or has read that   *)
(* status and not published it yet.                                        *)
EditRecord == [pc : {"idle", "commit", "refresh", "user", "room"},
               op : {"none", "create", "update", "comment"},
               note : Notes \cup {NoNote}, new : NoteStatus,
               loaded : NoteStatus]

EditInv == \A e \in Edits : edit[e].pc # "idle" => edit[e].note \in Notes

WillTell(e, n, ch) ==
    /\ edit[e].note = n
    /\ \/ edit[e].pc = "refresh"
       \/ edit[e].pc \in {"user", ch} /\ edit[e].loaded = note[n]

EventuallyTold ==
    \A n \in Notes : \A ch \in Channels :
        HasNote(n) /\ ch \notin told[n] => \E e \in Edits : WillTell(e, n, ch)

NotesInv == NotesTypeOK /\ EditInv /\ EventuallyTold

LEMMA IdleEditIsFine == IdleEdit \in EditRecord /\ IdleEdit.pc = "idle"
  BY NotesOK DEF IdleEdit, EditRecord

LEMMA InitNotes == NotesInit => NotesInv
<1> SUFFICES ASSUME NotesInit  PROVE NotesInv
  OBVIOUS
<1>1. NotesTypeOK
  BY IdleEditIsFine DEF NotesInit, NotesTypeOK, EditRecord
<1>2. EditInv
  BY IdleEditIsFine DEF NotesInit, EditInv
<1>3. \A n \in Notes : ~ HasNote(n)
  BY NotesOK DEF NotesInit, HasNote
<1> QED BY <1>1, <1>2, <1>3 DEF NotesInv, EventuallyTold

(* A request moves on, and the rows stay: what it was to tell, it tells or *)
(* still will.                                                             *)
LEMMA EditStep ==
    ASSUME NotesInv, NEW e \in Edits, NEW v \in EditRecord,
           edit' = [edit EXCEPT ![e] = v],
           v.pc # "idle" => v.note \in Notes,
           UNCHANGED <<alive, note>>,
           thread' \subseteq Notes,
           told' \in [Notes -> SUBSET Channels],
           \A n \in Notes : told[n] \subseteq told'[n],
           \A n \in Notes, ch \in Channels :
              HasNote(n) /\ WillTell(e, n, ch) =>
                 ch \in told'[n] \/ WillTell(e, n, ch)'
    PROVE  NotesInv'
<1>1. /\ edit'[e] = v
      /\ \A d \in Edits \ {e} : edit'[d] = edit[d]
  BY DEF NotesInv, NotesTypeOK
<1>2. NotesTypeOK'
  BY DEF NotesInv, NotesTypeOK, EditRecord
<1>3. EditInv'
  BY <1>1 DEF NotesInv, EditInv
<1>4. ASSUME NEW n \in Notes, NEW ch \in Channels, HasNote(n)',
             ch \notin told'[n]
      PROVE  \E d \in Edits : WillTell(d, n, ch)'
  <2>1. HasNote(n) /\ ch \notin told[n]
    BY <1>4 DEF HasNote
  <2>2. PICK d \in Edits : WillTell(d, n, ch)
    BY <2>1 DEF NotesInv, EventuallyTold
  <2>3. CASE d = e
    BY <1>4, <2>1, <2>2, <2>3
  <2>4. CASE d # e
    BY <1>1, <2>2, <2>4 DEF WillTell
  <2> QED BY <2>3, <2>4
<1> QED BY <1>2, <1>3, <1>4 DEF NotesInv, EventuallyTold

(* A request that was to tell nothing.                                     *)
LEMMA SilentEdit ==
    ASSUME NotesInv, NEW e \in Edits, NEW v \in EditRecord,
           edit[e].pc \in {"idle", "commit"},
           edit' = [edit EXCEPT ![e] = v],
           v.pc # "idle" => v.note \in Notes,
           UNCHANGED <<alive, note, told>>,
           thread' \subseteq Notes
    PROVE  NotesInv'
<1>1. \A n \in Notes, ch \in Channels : ~ WillTell(e, n, ch)
  BY DEF WillTell, Channels
<1>2. told' \in [Notes -> SUBSET Channels]
  BY DEF NotesInv, NotesTypeOK
<1> QED BY <1>1, <1>2, EditStep

(* A row gets the status s, perhaps the one it has, and the request that   *)
(* wrote it will read it again.                                            *)
LEMMA WriteStep ==
    ASSUME NotesInv, NEW e \in Edits, NEW s \in NoteStatus, NEW v \in EditRecord,
           edit[e].pc = "commit",
           edit' = [edit EXCEPT ![e] = v], v.pc = "refresh",
           v.note = edit[e].note,
           note' = [note EXCEPT ![v.note] = s],
           told' \in [Notes -> SUBSET Channels],
           \A n \in Notes \ {v.note} : told'[n] = told[n],
           UNCHANGED <<alive, thread>>
    PROVE  NotesInv'
<1>1. /\ edit'[e] = v /\ v.note \in Notes
      /\ \A d \in Edits \ {e} : edit'[d] = edit[d]
      /\ \A n \in Notes \ {v.note} : note'[n] = note[n]
  BY DEF NotesInv, NotesTypeOK, EditInv
<1>2. NotesTypeOK'
  BY DEF NotesInv, NotesTypeOK, EditRecord
<1>3. EditInv'
  BY <1>1 DEF NotesInv, EditInv
<1>4. \A ch \in Channels : WillTell(e, v.note, ch)'
  BY <1>1 DEF WillTell
<1>5. ASSUME NEW n \in Notes \ {v.note}, NEW ch \in Channels, HasNote(n)',
             ch \notin told'[n]
      PROVE  \E d \in Edits : WillTell(d, n, ch)'
  <2>1. PICK d \in Edits : WillTell(d, n, ch)
    BY <1>1, <1>5 DEF NotesInv, EventuallyTold, HasNote
  <2>2. d # e
    BY <1>5, <2>1 DEF WillTell, Channels
  <2> QED BY <1>1, <2>1, <2>2 DEF WillTell
<1> QED BY <1>2, <1>3, <1>4, <1>5 DEF NotesInv, EventuallyTold

LEMMA NextNotes == ASSUME NotesInv, [NotesNext]_noteVars  PROVE NotesInv'
<1>0. /\ edit \in [Edits -> EditRecord] /\ note \in [Notes -> NoteStatus \cup {"none", "gone"}]
      /\ told \in [Notes -> SUBSET Channels] /\ thread \subseteq Notes
      /\ \A e \in Edits : edit[e] \in EditRecord
      /\ {"none", "gone"} \cap NoteStatus = {}
  BY NotesOK DEF NotesInv, NotesTypeOK, EditRecord
<1>1. ASSUME NEW e \in Edits, begin(e)  PROVE NotesInv'
  <2>1. PICK n \in Notes, new \in NoteStatus :
          \/ /\ note[n] = "none"
             /\ edit' = [edit EXCEPT ![e] = [IdleEdit EXCEPT
                            !.pc = "commit", !.op = "create", !.note = n]]
          \/ /\ HasNote(n)
             /\ \E op \in {"update", "comment"} :
                   edit' = [edit EXCEPT ![e] =
                      [pc |-> "commit", op |-> op, note |-> n,
                       new |-> IF op = "update" THEN new ELSE note[n],
                       loaded |-> note[n]]]
    BY <1>1 DEF begin
  <2>2. PICK v \in EditRecord : /\ edit' = [edit EXCEPT ![e] = v]
                                /\ v.note \in Notes
    <3>1. CASE edit' = [edit EXCEPT ![e] = [IdleEdit EXCEPT
                            !.pc = "commit", !.op = "create", !.note = n]]
      <4>1. [IdleEdit EXCEPT !.pc = "commit", !.op = "create", !.note = n]
              \in EditRecord
        BY IdleEditIsFine DEF EditRecord
      <4>2. [IdleEdit EXCEPT !.pc = "commit", !.op = "create",
                             !.note = n].note = n
        BY DEF IdleEdit
      <4> QED BY <3>1, <4>1, <4>2
    <3>2. ASSUME HasNote(n), NEW op \in {"update", "comment"},
                 edit' = [edit EXCEPT ![e] =
                      [pc |-> "commit", op |-> op, note |-> n,
                       new |-> IF op = "update" THEN new ELSE note[n],
                       loaded |-> note[n]]]
          PROVE  \E v \in EditRecord : /\ edit' = [edit EXCEPT ![e] = v]
                                       /\ v.note \in Notes
      <4> DEFINE v == [pc |-> "commit", op |-> op, note |-> n,
                       new |-> IF op = "update" THEN new ELSE note[n],
                       loaded |-> note[n]]
      <4>1. v \in EditRecord /\ v.note = n
        BY <3>2 DEF EditRecord, HasNote
      <4> HIDE DEF v
      <4> QED BY <3>2, <4>1 DEF v
    <3> QED BY <2>1, <3>1, <3>2
  <2> QED BY <1>0, <1>1, <2>2, SilentEdit DEF begin
<1>2. ASSUME NEW e \in Edits, create_annotation(e)  PROVE NotesInv'
  <2>1. CASE alive
    <3>1. PICK v \in EditRecord :
            /\ edit' = [edit EXCEPT ![e] = v]
            /\ v.pc = "refresh" /\ v.note = edit[e].note
      <4> DEFINE v == [edit[e] EXCEPT !.pc = "refresh"]
      <4>1. v \in EditRecord /\ v.pc = "refresh" /\ v.note = edit[e].note
        BY <1>0 DEF EditRecord
      <4>2. edit' = [edit EXCEPT ![e] = v]
        BY <1>0, <1>2, <2>1 DEF create_annotation, EditGoto
      <4> QED BY <4>1, <4>2
    <3>2. note' = [note EXCEPT ![v.note] = "open"] /\ "open" \in NoteStatus
      BY <1>2, <2>1, <3>1, NotesOK DEF create_annotation
    <3> QED BY <1>0, <1>2, <3>1, <3>2, WriteStep DEF create_annotation, Edited
  <2>2. CASE ~ alive
    <3>1. edit' = [edit EXCEPT ![e] = IdleEdit] /\ UNCHANGED <<note, thread>>
      BY <1>2, <2>2 DEF create_annotation, EndEdit
    <3> QED BY <1>0, <1>2, <3>1, IdleEditIsFine, SilentEdit
            DEF create_annotation, Edited
  <2> QED BY <2>1, <2>2
<1>3. ASSUME NEW e \in Edits, update_annotation(e)  PROVE NotesInv'
  <2>0. edit[e].pc = "commit" /\ edit[e].note \in Notes
    BY <1>3 DEF update_annotation, Edited, NotesInv, EditInv
  <2>1. CASE HasNote(edit[e].note)
    <3>1. Written(e) \in NoteStatus
      BY <1>0, <2>1 DEF Written, HasNote, EditRecord
    <3>2. PICK v \in EditRecord :
            /\ edit' = [edit EXCEPT ![e] = v]
            /\ v.pc = "refresh" /\ v.note = edit[e].note
      <4> DEFINE v == [edit[e] EXCEPT !.pc = "refresh", !.new = "open"]
      <4>1. v \in EditRecord /\ v.pc = "refresh" /\ v.note = edit[e].note
        BY <1>0, NotesOK DEF EditRecord
      <4>2. edit' = [edit EXCEPT ![e] = v]
        BY <1>0, <1>3, <2>1 DEF update_annotation
      <4> QED BY <4>1, <4>2
    <3>3. /\ note' = [note EXCEPT ![v.note] = Written(e)]
          /\ told' \in [Notes -> SUBSET Channels]
          /\ \A n \in Notes \ {v.note} : told'[n] = told[n]
      BY <1>0, <1>3, <2>0, <2>1, <3>2 DEF update_annotation
    <3> QED BY <1>0, <1>3, <2>0, <3>1, <3>2, <3>3, WriteStep
            DEF update_annotation
  <2>2. CASE ~ HasNote(edit[e].note)
    <3>1. edit' = [edit EXCEPT ![e] = IdleEdit] /\ UNCHANGED <<note, told>>
      BY <1>3, <2>2 DEF update_annotation, EndEdit
    <3> QED BY <1>0, <1>3, <2>0, <3>1, IdleEditIsFine, SilentEdit
            DEF update_annotation
  <2> QED BY <2>1, <2>2
<1>4. ASSUME NEW e \in Edits, create_comment(e)  PROVE NotesInv'
  <2>1. edit' = [edit EXCEPT ![e] = IdleEdit] /\ edit[e].note \in Notes
    BY <1>4 DEF create_comment, EndEdit, Edited, NotesInv, EditInv
  <2> QED BY <1>0, <1>4, <2>1, IdleEditIsFine, SilentEdit
          DEF create_comment, Edited
<1>5. ASSUME NEW e \in Edits, refresh(e)  PROVE NotesInv'
  <2>0. edit[e].pc = "refresh" /\ edit[e].note \in Notes
    BY <1>5 DEF refresh, NotesInv, EditInv
  <2>1. CASE HasNote(edit[e].note)
    <3>1. PICK v \in EditRecord :
            /\ edit' = [edit EXCEPT ![e] = v]
            /\ v.pc = "user" /\ v.note = edit[e].note
            /\ v.loaded = note[edit[e].note]
      <4> DEFINE v == [edit[e] EXCEPT !.pc = "user",
                                      !.loaded = note[edit[e].note]]
      <4>1. v \in EditRecord /\ v.pc = "user" /\ v.note = edit[e].note
            /\ v.loaded = note[edit[e].note]
        BY <1>0, <2>1 DEF EditRecord, HasNote
      <4>2. edit' = [edit EXCEPT ![e] = v]
        BY <1>0, <1>5, <2>1 DEF refresh
      <4> QED BY <4>1, <4>2
    <3>2. edit'[e] = v
      BY <1>0, <3>1
    <3>3. \A n \in Notes, ch \in Channels :
             WillTell(e, n, ch) => WillTell(e, n, ch)'
      BY <1>5, <3>1, <3>2 DEF refresh, WillTell
    <3> QED BY <1>0, <1>5, <2>0, <3>1, <3>3, EditStep DEF refresh
  <2>2. CASE ~ HasNote(edit[e].note)
    <3>1. edit' = [edit EXCEPT ![e] = IdleEdit]
      BY <1>5, <2>2 DEF refresh
    <3>2. \A n \in Notes, ch \in Channels :
             ~ (HasNote(n) /\ WillTell(e, n, ch))
      BY <2>2 DEF WillTell
    <3> QED BY <1>0, <1>5, <3>1, <3>2, IdleEditIsFine, EditStep DEF refresh
  <2> QED BY <2>1, <2>2
<1>6. ASSUME NEW e \in Edits, publish(e)  PROVE NotesInv'
  <2> DEFINE n == edit[e].note
  <2>0. edit[e].pc \in Channels /\ n \in Notes
    BY <1>6 DEF publish, NotesInv, EditInv, Channels
  <2>1. PICK v \in EditRecord :
          /\ edit' = [edit EXCEPT ![e] = v]
          /\ v.pc # "idle" => v.note = n
          /\ edit[e].pc = "user" =>
                v.pc = "room" /\ v.note = n /\ v.loaded = edit[e].loaded
    <3> DEFINE v == [edit[e] EXCEPT !.pc = "room"]
    <3>1. v \in EditRecord /\ v.pc = "room" /\ v.note = n
          /\ v.loaded = edit[e].loaded
      BY <1>0 DEF EditRecord
    <3>2. CASE edit[e].pc = "user"
      <4>1. edit' = [edit EXCEPT ![e] = v]
        BY <1>0, <1>6, <3>2 DEF publish, EditGoto
      <4> QED BY <3>1, <4>1
    <3>3. CASE edit[e].pc # "user"
      BY <1>6, <3>3, IdleEditIsFine DEF publish, EndEdit
    <3> QED BY <3>2, <3>3
  <2>2. /\ told' \in [Notes -> SUBSET Channels]
        /\ \A x \in Notes : told[x] \subseteq told'[x]
        /\ edit[e].loaded = note[n] => edit[e].pc \in told'[n]
    BY <1>0, <1>6, <2>0 DEF publish
  <2>3. edit'[e] = v /\ UNCHANGED <<alive, note, thread>>
    BY <1>0, <1>6, <2>1 DEF publish
  <2>4. ASSUME NEW x \in Notes, NEW ch \in Channels, WillTell(e, x, ch)
        PROVE  ch \in told'[x] \/ WillTell(e, x, ch)'
    <3>1. x = n /\ edit[e].pc \in {"user", ch} /\ edit[e].loaded = note[n]
      BY <2>0, <2>4 DEF WillTell, Channels
    <3>2. CASE edit[e].pc = ch
      BY <2>2, <3>1, <3>2
    <3>3. CASE edit[e].pc = "user" /\ ch = "room"
      BY <2>1, <2>3, <3>1, <3>3 DEF WillTell
    <3> QED BY <3>1, <3>2, <3>3 DEF Channels
  <2> HIDE DEF n
  <2> QED BY <1>0, <2>0, <2>1, <2>2, <2>3, <2>4, EditStep
<1>7. CASE delete_annotated_model
  <2>1. \A n \in Notes : ~ HasNote(n)'
    BY <1>0, <1>7 DEF delete_annotated_model, HasNote
  <2>2. NotesTypeOK'
    BY <1>7 DEF delete_annotated_model, NotesInv, NotesTypeOK, HasNote
  <2>3. EditInv'
    BY <1>7 DEF delete_annotated_model, NotesInv, EditInv
  <2> QED BY <2>1, <2>2, <2>3 DEF NotesInv, EventuallyTold
<1>8. CASE UNCHANGED noteVars
  BY <1>8 DEF noteVars, NotesInv, NotesTypeOK, EditInv, EventuallyTold,
              WillTell, HasNote
<1> QED BY <1>1, <1>2, <1>3, <1>4, <1>5, <1>6, <1>7, <1>8 DEF NotesNext

LEMMA NotesInvHolds == NotesSpec => []NotesInv
<1>1. NotesInv /\ [NotesNext]_noteVars => NotesInv'
  BY NextNotes
<1> QED BY <1>1, InitNotes, PTL DEF NotesSpec

(* Whatever requests race on a row, when they are over its author and its  *)
(* room have been told the status it has (services/annotations.py: commit, *)
(* refresh, publish).                                                      *)
THEOREM LastStatusIsAnnounced == NotesSpec => []StatusIsAnnounced
<1>1. NotesInv => StatusIsAnnounced
  <2> SUFFICES ASSUME NotesInv, NEW n \in Notes, HasNote(n),
                      \A e \in Edits : edit[e].note # n
               PROVE  told[n] = Channels
    BY DEF StatusIsAnnounced
  <2>1. \A ch \in Channels : ch \in told[n]
    BY DEF NotesInv, EventuallyTold, WillTell
  <2> QED BY <2>1 DEF NotesInv, NotesTypeOK
<1> QED BY <1>1, NotesInvHolds, PTL
=============================================================================
