----------------------------- MODULE ScanTasks -----------------------------
(***************************************************************************)
(* apps/worker/app/tasks/scan.py and mesh.py: the antivirus gate, and the  *)
(* router that hands non-IFC models to their converter.  One step is one   *)
(* effect on a shared service, so a crash may fall between any two.        *)
(***************************************************************************)
EXTENDS PipelineState

(* get_model_row: a model deleted before the scan is skipped.  A database  *)
(* error here escapes the task; Celery acknowledges it as failed.          *)
scan_load(w) ==
    LET m == worker[w].model IN
    /\ worker[w].pc = "scan_load"
    /\ \/ HasRow(m) /\ Goto(w, "scan_run")
       \/ /\ ~HasRow(m) \/ "db" \in Enabled
          /\ Ack(w)
    /\ UNCHANGED <<rowVars, storageVars, historyVars, apiVars, sweep, queue,
                   lock, crashes>>

(* self.retry(exc=exc): a copy with retries + 1 is sent and this delivery  *)
(* ends; past max_retries Celery re-raises exc itself, which escapes the   *)
(* handler for MaxRetriesExceededError, and the delivery ends.  (If the    *)
(* broker is unreachable, or the soft limit comes first, no copy is sent.) *)
scan_retry(w, m) ==
    /\ Return(w)
    /\ \/ /\ worker[w].retries < ScanMaxRetries
          /\ send_task(Msg("scan_file", m, worker[w].retries + 1))
       \/ /\ \/ worker[w].retries = ScanMaxRetries
             \/ "broker" \in Enabled
             \/ SoftDue(w, "soft_lost")
          /\ UNCHANGED queue

(* Download the raw object and stream it to clamd.  A missing local file,  *)
(* a storage or a clamd connection error is an OSError; a missing S3       *)
(* object is any other exception.                                          *)
_clamd_scan(content) == content # "infected"

scan_run(w) ==
    LET m == worker[w].model IN
    /\ worker[w].pc = "scan_run"
    /\ \/ /\ raw[m] # "none" /\ _clamd_scan(raw[m])
          /\ Goto(w, "scan_dispatch")
          /\ UNCHANGED queue
       \/ /\ raw[m] # "none" /\ ~_clamd_scan(raw[m])
          /\ Goto(w, "infected_status")
          /\ UNCHANGED queue
       \/ /\ raw[m] = "none" \/ {"storage", "clamd"} \cap Enabled # {}
          /\ scan_retry(w, m)
       \/ /\ raw[m] = "none" \/ "storage" \in Enabled
          /\ Goto(w, "error_status")
          /\ UNCHANGED queue
    /\ UNCHANGED <<rowVars, storageVars, historyVars, apiVars, sweep, lock,
                   crashes>>

(* The gate: only a clean scan sends the processing task.  A broker error  *)
(* goes to the handler of unexpected errors.                               *)
ProcessingTask(m) == IF fmt[m] = "ifc" THEN "convert" ELSE "generate_chunks"

_dispatch_processing_task(w) ==
    LET m == worker[w].model IN
    /\ worker[w].pc = "scan_dispatch"
    /\ \/ send_task(Msg(ProcessingTask(m), m, 0)) /\ Return(w)
       \/ /\ "broker" \in Enabled
          /\ Goto(w, "error_status")
          /\ UNCHANGED queue
    /\ UNCHANGED <<rowVars, storageVars, historyVars, apiVars, sweep, lock,
                   crashes>>

(* An infected file: mark failed, delete the object, publish MODEL_FAILED. *)
(* A database error goes to the handler below.                             *)
infected_status(w) ==
    /\ worker[w].pc = "infected_status"
    /\ \/ /\ update_model_status(worker[w].model, "failed")
          /\ Goto(w, "infected_delete")
       \/ /\ "db" \in Enabled
          /\ Goto(w, "error_status")
          /\ UNCHANGED status
    /\ UNCHANGED <<fmt, prefix, meta, storageVars, historyVars, apiVars, sweep,
                   queue, lock, crashes>>

infected_delete(w) ==
    /\ worker[w].pc = "infected_delete"
    /\ Goto(w, "infected_publish")
    /\ \/ raw' = [raw EXCEPT ![worker[w].model] = "none"]
       \/ "storage" \in Enabled /\ UNCHANGED raw
    /\ UNCHANGED <<rowVars, chunks, historyVars, apiVars, sweep, queue, lock,
                   crashes>>

_publish_scan_failure(w) ==
    /\ worker[w].pc = "infected_publish"
    /\ publish_model_failed(worker[w].model)
    /\ Return(w)
    /\ UNCHANGED <<rowVars, storageVars, built, apiVars, sweep, queue, lock,
                   crashes>>

(* Any other exception: mark failed and publish.  If the UPDATE raises the *)
(* exception escapes the task.                                             *)
error_status(w) ==
    /\ worker[w].pc = "error_status"
    /\ \/ /\ update_model_status(worker[w].model, "failed")
          /\ Goto(w, "error_publish")
       \/ /\ "db" \in Enabled
          /\ Ack(w)
          /\ UNCHANGED status
    /\ UNCHANGED <<fmt, prefix, meta, storageVars, historyVars, apiVars, sweep,
                   queue, lock, crashes>>

_publish_scan_error(w) ==
    /\ worker[w].pc = "error_publish"
    /\ publish_model_failed(worker[w].model)
    /\ Return(w)
    /\ UNCHANGED <<rowVars, storageVars, built, apiVars, sweep, queue, lock,
                   crashes>>

(* The soft limit inside the try block is an unexpected error.             *)
scan_soft_handled(w) ==
    /\ SoftDue(w, "soft")
    /\ worker[w].pc \in {"scan_run", "scan_dispatch", "infected_status",
                         "infected_delete", "infected_publish"}
    /\ SoftGoto(w, "error_status", "none")
    /\ UNCHANGED <<rowVars, storageVars, historyVars, apiVars, sweep, queue,
                   lock, crashes>>

(* It is swallowed by the deletion on S3 and by the two publishers, before *)
(* they took effect, and escapes from the SELECT and the last UPDATE.      *)
scan_soft_lost(w) ==
    /\ SoftDue(w, "soft_lost")
    /\ \/ worker[w].pc = "infected_delete" /\ SoftGoto(w, "infected_publish", "none")
       \/ /\ worker[w].pc \in {"infected_publish", "error_publish"}
          /\ SoftGoto(w, "return", "none")
       \/ worker[w].pc \in {"scan_load", "error_status"} /\ Ack(w)
    /\ UNCHANGED <<rowVars, storageVars, historyVars, apiVars, sweep, queue,
                   lock, crashes>>

(* It comes between the last effect of the task and its return: an         *)
(* unexpected error of a scan that has dispatched, or reported, already.   *)
scan_soft_late(w) ==
    LET m == worker[w].model IN
    /\ SoftDue(w, "soft_lost")
    /\ \/ /\ worker[w].pc = "scan_dispatch"
          /\ send_task(Msg(ProcessingTask(m), m, 0))
          /\ UNCHANGED notices
       \/ /\ worker[w].pc = "infected_publish"
          /\ publish_model_failed(m)
          /\ UNCHANGED queue
    /\ SoftGoto(w, "error_status", "none")
    /\ UNCHANGED <<rowVars, storageVars, built, apiVars, sweep, lock, crashes>>

scan_file(w) ==
    \/ scan_load(w)
    \/ scan_run(w)
    \/ _dispatch_processing_task(w)
    \/ infected_status(w)
    \/ infected_delete(w)
    \/ _publish_scan_failure(w)
    \/ error_status(w)
    \/ _publish_scan_error(w)
    \/ scan_soft_handled(w)
    \/ scan_soft_lost(w)
    \/ scan_soft_late(w)

-----------------------------------------------------------------------------
(* mesh.generate_chunks: read the format, send the converter's task.  A    *)
(* missing row, a database or a broker error ends the task.  Every format  *)
(* the API accepts has a converter, so the branch that fails an unknown    *)
(* format is not reachable from initiate_upload.                           *)
generate_chunks(w) ==
    LET m == worker[w].model IN
    /\ worker[w].pc = "route"
    /\ \/ HasRow(m) /\ send_task(Msg("convert", m, 0))
       \/ /\ ~HasRow(m) \/ {"db", "broker"} \cap Enabled # {}
          /\ UNCHANGED queue
    /\ Return(w)
    /\ UNCHANGED <<rowVars, storageVars, historyVars, apiVars, sweep, lock,
                   crashes>>

=============================================================================
