---------------------------- MODULE Annotations ----------------------------
(***************************************************************************)
(* Annotations of one model and their comments (services/annotations.py)   *)
(* while the model may be deleted.  A request commits its change, reads    *)
(* the row again, and then announces the row on the channels of the author *)
(* and of the model's room.  Webhooks are in WebhookDelivery, roles in     *)
(* ProjectMembers.                                                         *)
(***************************************************************************)
EXTENDS Naturals

CONSTANTS
    Notes,      \* annotations that may be created
    Edits,      \* concurrent requests
    NoteStatus, \* the values of annotation_status_enum
    NoNote      \* "no annotation"

ASSUME NotesOK == /\ NoNote \notin Notes
                  /\ "open" \in NoteStatus
                  /\ NoteStatus \subseteq {"open", "in_review", "resolved"}

VARIABLES
    alive,      \* the model has a row
    note,       \* annotations.status; "none" and "gone" without a row
    thread,     \* annotations with a comment
    edit,       \* the requests in flight
    told        \* history: channels on which the status of a row has been
                \* published since it changed

noteVars == <<alive, note, thread, edit, told>>

Channels   == {"user", "room"}
HasNote(n) == note[n] \in NoteStatus

(* new: the requested status; loaded: the status of the ORM object.        *)
IdleEdit == [pc |-> "idle", op |-> "none", note |-> NoNote, new |-> "open",
             loaded |-> "open"]

NotesTypeOK ==
    /\ alive \in BOOLEAN
    /\ note \in [Notes -> NoteStatus \cup {"none", "gone"}]
    /\ thread \subseteq Notes
    /\ edit \in [Edits -> [pc : {"idle", "commit", "refresh", "user", "room"},
                           op : {"none", "create", "update", "comment"},
                           note : Notes \cup {NoNote},
                           new : NoteStatus, loaded : NoteStatus]]
    /\ told \in [Notes -> SUBSET Channels]

NotesInit ==
    /\ alive = TRUE
    /\ note = [n \in Notes |-> "none"]
    /\ thread = {}
    /\ edit = [e \in Edits |-> IdleEdit]
    /\ told = [n \in Notes |-> {}]

EditGoto(e, pc) == edit' = [edit EXCEPT ![e].pc = pc]
EndEdit(e)      == edit' = [edit EXCEPT ![e] = IdleEdit]

-----------------------------------------------------------------------------
(* The routers load the model, and the annotation unless it is created.    *)
(* A PATCH may leave the status alone: new is then what was loaded.        *)
begin(e) ==
    /\ edit[e].pc = "idle"
    /\ alive
    /\ \E n \in Notes, new \in NoteStatus :
          \/ /\ note[n] = "none"
             /\ \A o \in Edits : edit[o].note # n
             /\ edit' = [edit EXCEPT ![e] = [IdleEdit EXCEPT
                            !.pc = "commit", !.op = "create", !.note = n]]
          \/ /\ HasNote(n)
             /\ \E op \in {"update", "comment"} :
                   edit' = [edit EXCEPT ![e] =
                      [pc |-> "commit", op |-> op, note |-> n,
                       new |-> IF op = "update" THEN new ELSE note[n],
                       loaded |-> note[n]]]
    /\ UNCHANGED <<alive, note, thread, told>>

Edited(e, op) == edit[e].pc = "commit" /\ edit[e].op = op

(* INSERT: the foreign key refuses it once the model is gone.              *)
create_annotation(e) ==
    /\ Edited(e, "create")
    /\ IF alive
       THEN /\ note' = [note EXCEPT ![edit[e].note] = "open"]
            /\ EditGoto(e, "refresh")
       ELSE EndEdit(e) /\ UNCHANGED note
    /\ UNCHANGED <<alive, thread, told>>

(* UPDATE: raises if the row is gone; the status is written only if it     *)
(* differs from the one that was loaded.                                   *)
Written(e) == IF edit[e].new # edit[e].loaded THEN edit[e].new
                                              ELSE note[edit[e].note]

update_annotation(e) ==
    LET n == edit[e].note IN
    /\ Edited(e, "update")
    /\ IF HasNote(n)
       THEN /\ note' = [note EXCEPT ![n] = Written(e)]
            /\ told' = [told EXCEPT ![n] = IF Written(e) = note[n] THEN @
                                                                   ELSE {}]
            /\ edit' = [edit EXCEPT ![e].pc = "refresh", ![e].new = "open"]
       ELSE EndEdit(e) /\ UNCHANGED <<note, told>>
    /\ UNCHANGED <<alive, thread>>

create_comment(e) ==
    /\ Edited(e, "comment")
    /\ thread' = IF HasNote(edit[e].note) THEN thread \cup {edit[e].note}
                                          ELSE thread
    /\ EndEdit(e)
    /\ UNCHANGED <<alive, note, told>>

(* db.refresh: raises if the row is gone.  Mutant: there is no refresh, as *)
(* if the request could announce what it had loaded.                       *)
keep_loaded(e) ==
    /\ edit[e].pc = "refresh"
    /\ EditGoto(e, "user")
    /\ UNCHANGED <<alive, note, thread, told>>

refresh(e) ==
    LET n == edit[e].note IN
    /\ edit[e].pc = "refresh"
    /\ edit' = [edit EXCEPT ![e] = IF HasNote(n)
                   THEN [@ EXCEPT !.pc = "user", !.loaded = note[n]]
                   ELSE IdleEdit]
    /\ UNCHANGED <<alive, note, thread, told>>

(* publish_model_event, then publish_room_event.  Both are best effort: an *)
(* error of Redis is swallowed and the announcement counts as made.        *)
publish(e) ==
    LET n == edit[e].note IN
    /\ edit[e].pc \in Channels
    /\ told' = IF edit[e].loaded = note[n]
               THEN [told EXCEPT ![n] = @ \cup {edit[e].pc}] ELSE told
    /\ IF edit[e].pc = "user" THEN EditGoto(e, "room") ELSE EndEdit(e)
    /\ UNCHANGED <<alive, note, thread>>

(* Everything of the model goes with it (ON DELETE CASCADE).               *)
delete_annotated_model ==
    /\ alive
    /\ alive' = FALSE
    /\ note' = [n \in Notes |-> IF HasNote(n) THEN "gone" ELSE note[n]]
    /\ thread' = {}
    /\ told' = [n \in Notes |-> {}]
    /\ UNCHANGED edit

NotesNext ==
    \/ \E e \in Edits :
          \/ begin(e) \/ create_annotation(e) \/ update_annotation(e)
          \/ create_comment(e) \/ refresh(e) \/ publish(e)
    \/ delete_annotated_model

NotesSpec == NotesInit /\ [][NotesNext]_noteVars

-----------------------------------------------------------------------------
(* When no request is under way, the status that an annotation has now was *)
(* published on both channels after the commit that gave it that status:   *)
(* no change is left unannounced, however requests race.                   *)
StatusIsAnnounced ==
    \A n \in Notes :
        HasNote(n) /\ (\A e \in Edits : edit[e].note # n)
            => told[n] = Channels
=============================================================================
