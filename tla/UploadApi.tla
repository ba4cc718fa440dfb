----------------------------- MODULE UploadApi -----------------------------
(***************************************************************************)
(* The API side of the pipeline: services/models.py (initiate_upload,      *)
(* confirm_upload, delete_model), the client's upload of the bytes, and    *)
(* the calls they make into services/storage.py.  A request runs up to its *)
(* next await or external effect in one step, so that several requests and *)
(* the workers interleave between the SELECT and the COMMIT of a request.  *)
(***************************************************************************)
EXTENDS PipelineState

(* POST /models/upload: the row is inserted as "pending".                  *)
initiate_upload(m) ==
    /\ status[m] = "absent"
    /\ \E f \in Formats :
          /\ fmt' = [fmt EXCEPT ![m] = f]
          /\ status' = [status EXCEPT ![m] = "pending"]
    /\ UNCHANGED <<prefix, meta, storageVars, historyVars, apiVars, sweep,
                   queue, worker, lock, crashes>>

(* The client stores its bytes under raw_s3_key: upload_local_file, or a   *)
(* PUT on the presigned URL.  The documented workflow uploads before the   *)
(* confirm; the endpoint itself only requires the row ("late_put").        *)
upload_local_file(m) ==
    /\ \/ status[m] = "pending"
       \/ "late_put" \in Enabled /\ HasRow(m)
    /\ \E c \in Contents : raw' = [raw EXCEPT ![m] = c]
    /\ UNCHANGED <<rowVars, chunks, historyVars, apiVars, sweep, queue, worker,
                   lock, crashes>>

(* POST /models/{id}/confirm: SELECT the row; it must be pending.          *)
confirm_select(r, m) ==
    /\ confirm[r].pc = "idle"
    /\ status[m] = "pending"
    /\ confirm' = [confirm EXCEPT ![r] = [pc |-> "verify", model |-> m]]
    /\ UNCHANGED <<rowVars, storageVars, historyVars, removal, sweep, queue,
                   worker, lock, crashes>>

EndRequest(r) == confirm' = [confirm EXCEPT ![r] = [pc |-> "idle",
                                                    model |-> NoModel]]

(* HEAD the object, compare its size, sniff its header bytes.  A missing   *)
(* object raises; a mismatch commits "failed" and raises, which tells the  *)
(* owner (no event is published).                                          *)
confirm_verify(r) ==
    LET m == confirm[r].model IN
    /\ confirm[r].pc = "verify"
    /\ \/ /\ raw[m] \in {"clean", "infected"}
          /\ confirm' = [confirm EXCEPT ![r].pc = "commit"]
          /\ UNCHANGED <<status, notices>>
       \/ /\ raw[m] = "mismatch"
          /\ update_model_status(m, "failed")
          /\ notices' = [notices EXCEPT ![m] = Append(@, "failed")]
          /\ EndRequest(r)
       \/ /\ raw[m] = "none" \/ "storage" \in Enabled
          /\ EndRequest(r)
          /\ UNCHANGED <<status, notices>>
    /\ UNCHANGED <<fmt, prefix, meta, storageVars, built, removal, sweep, queue,
                   worker, lock, crashes>>

(* COMMIT of status = "processing", decided on the status read by the      *)
(* SELECT.  The UPDATE of a row deleted meanwhile raises.                  *)
confirm_commit(r) ==
    LET m == confirm[r].model IN
    /\ confirm[r].pc = "commit"
    /\ update_model_status(m, "processing")
    /\ IF HasRow(m) THEN confirm' = [confirm EXCEPT ![r].pc = "enqueue"]
                    ELSE EndRequest(r)
    /\ UNCHANGED <<fmt, prefix, meta, storageVars, historyVars, removal, sweep,
                   queue, worker, lock, crashes>>

(* Mutant: the request dispatches the conversion next to the scan.         *)
confirm_enqueue_both(r) ==
    LET scan == Msg("scan_file", confirm[r].model, 0)
        conv == Msg("convert", confirm[r].model, 0)
    IN
    /\ confirm[r].pc = "enqueue"
    /\ queue' = [queue EXCEPT ![scan] = @ + 1, ![conv] = @ + 1]
    /\ EndRequest(r)
    /\ UNCHANGED <<rowVars, storageVars, historyVars, removal, sweep, worker,
                   lock, crashes>>

(* trigger_clamav_scan, then the MODEL_SYNC event (not a terminal notice). *)
(* If the broker is unreachable send_task raises and the request ends.     *)
confirm_enqueue(r) ==
    /\ confirm[r].pc = "enqueue"
    /\ \/ send_task(Msg("scan_file", confirm[r].model, 0))
       \/ "broker" \in Enabled /\ UNCHANGED queue
    /\ EndRequest(r)
    /\ UNCHANGED <<rowVars, storageVars, historyVars, removal, sweep, worker,
                   lock, crashes>>

confirm_upload(r) ==
    \/ \E m \in Models : confirm_select(r, m)
    \/ confirm_verify(r)
    \/ confirm_commit(r)
    \/ confirm_enqueue(r)

-----------------------------------------------------------------------------
(* DELETE /models/{id}: SELECT the row and remember its prefix, delete the *)
(* raw object, delete the processed objects, delete the row (the metadata  *)
(* row goes with it by ON DELETE CASCADE).  Storage errors are logged.     *)

delete_select(m) ==
    /\ "delete" \in Enabled
    /\ HasRow(m)
    /\ removal[m].pc = "idle"
    /\ removal' = [removal EXCEPT ![m] = [pc |-> "raw", prefix |-> prefix[m]]]
    /\ UNCHANGED <<rowVars, storageVars, historyVars, confirm, sweep, queue,
                   worker, lock, crashes>>

delete_raw_object(m) ==
    /\ removal[m].pc = "raw"
    /\ removal' = [removal EXCEPT ![m].pc = "processed"]
    /\ \/ raw' = [raw EXCEPT ![m] = "none"]
       \/ "storage" \in Enabled /\ UNCHANGED raw
    /\ UNCHANGED <<rowVars, chunks, historyVars, confirm, sweep, queue, worker,
                   lock, crashes>>

delete_processed_objects(m) ==
    /\ removal[m].pc = "processed"
    /\ removal' = [removal EXCEPT ![m].pc = "row"]
    /\ \/ chunks' = IF removal[m].prefix = "none"
                    THEN chunks ELSE [chunks EXCEPT ![m] = {}]
       \/ "storage" \in Enabled /\ UNCHANGED chunks
    /\ UNCHANGED <<rowVars, raw, historyVars, confirm, sweep, queue, worker,
                   lock, crashes>>

delete_row(m) ==
    /\ removal[m].pc = "row"
    /\ removal' = [removal EXCEPT ![m] = [pc |-> "idle", prefix |-> "none"]]
    /\ status' = [status EXCEPT ![m] = "deleted"]
    /\ prefix' = [prefix EXCEPT ![m] = "none"]
    /\ meta' = [meta EXCEPT ![m] = "none"]
    /\ UNCHANGED <<fmt, storageVars, historyVars, confirm, sweep, queue,
                   worker, lock, crashes>>

delete_model(m) ==
    \/ delete_select(m)
    \/ delete_raw_object(m)
    \/ delete_processed_objects(m)
    \/ delete_row(m)

=============================================================================
