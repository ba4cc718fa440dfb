---------------------------- MODULE ConvertTasks ----------------------------
(***************************************************************************)
(* The five converters of apps/worker/app/tasks (ifc, gltf, step, obj,     *)
(* stl), which share one shape: idempotency guard, Redis lock, row, stages *)
(* inside one try block, and three ways out of it (success, an exception,  *)
(* the soft time limit).  The stages are the values the `stage' variable   *)
(* of the code takes; what a stage does to shared state is in RunStage.    *)
(***************************************************************************)
EXTENDS PipelineState

(* Mutant: the model becomes ready before its chunks are stored.           *)
IfcStagesReadyEarly == <<"download", "size_check", "parse", "validate",
                         "extract", "convert", "metadata", "finalize",
                         "upload">>

IfcStages  == <<"download", "size_check", "parse", "validate", "extract",
                "convert", "upload", "metadata", "finalize">>
GltfStages == <<"download", "size_check", "validate", "compress", "split",
                "upload", "metadata", "finalize">>
StepStages == <<"download", "size_check", "parse", "mesh", "export",
                "compress", "split", "upload", "metadata", "finalize">>
ObjStages  == <<"download", "size_check", "parse", "export", "compress",
                "split", "upload", "metadata", "finalize">>
StlStages  == <<"download", "size_check", "detect", "parse", "validate",
                "export", "compress", "split", "upload", "metadata",
                "finalize">>

(* is_already_processed: a terminal model is skipped (a missing row is     *)
(* not).  A database error escapes the task.                               *)
Guard(w) ==
    LET m == worker[w].model IN
    /\ worker[w].pc = "guard"
    /\ \/ ~is_already_processed(m) /\ Goto(w, "lock")
       \/ /\ is_already_processed(m) \/ "db" \in Enabled
          /\ Ack(w)
    /\ UNCHANGED <<rowVars, storageVars, historyVars, apiVars, sweep, queue,
                   lock, crashes>>

(* Mutant: SET without NX.                                                 *)
LockAlwaysSet(m) == TRUE

LockAvailable(m) == lock[m] = "free"

(* SET NX EX: a held lock means a duplicate, which is skipped and acked.   *)
(* With Redis unreachable the task goes on without the lock.               *)
acquire_task_lock(w) ==
    LET m == worker[w].model IN
    /\ worker[w].pc = "lock"
    /\ \/ /\ LockAvailable(m)
          /\ lock' = [lock EXCEPT ![m] = w]
          /\ Goto(w, "load")
       \/ /\ ~LockAvailable(m)
          /\ Ack(w)
          /\ UNCHANGED lock
       \/ /\ "redis_acquire" \in Enabled
          /\ Goto(w, "load")
          /\ UNCHANGED lock
    /\ UNCHANGED <<rowVars, storageVars, historyVars, apiVars, sweep, queue,
                   crashes>>

(* The key a worker leaves behind when it ends without releasing.          *)
AbandonLock(w) ==
    lock' = [m \in Models |-> IF lock[m] = w THEN "orphan" ELSE lock[m]]

(* Mutant: the size check raises outside the try block.                    *)
OversizeEscapes(w) == Ack(w) /\ AbandonLock(w)

Oversize(w) == Raise(w, "permanent") /\ UNCHANGED lock

(* get_model_row under the lock: no row, release and return; over the      *)
(* plan's size limit, fail; otherwise enter the try block.  A database     *)
(* error escapes the task with the lock still set.                         *)
Load(w) ==
    LET m == worker[w].model IN
    /\ worker[w].pc = "load"
    /\ \/ /\ ~HasRow(m)
          /\ Goto(w, "release")
          /\ UNCHANGED lock
       \/ /\ HasRow(m)
          /\ worker' = [worker EXCEPT ![w] = [@ EXCEPT !.pc = "run", !.stage = 1]]
          /\ UNCHANGED lock
       \/ /\ HasRow(m)
          /\ "size" \in Enabled
          /\ Oversize(w)
       \/ /\ "db" \in Enabled
          /\ Ack(w)
          /\ AbandonLock(w)
    /\ UNCHANGED <<rowVars, storageVars, historyVars, apiVars, sweep, queue,
                   crashes>>

-----------------------------------------------------------------------------
(* The try block.                                                          *)

NextStage(w) == worker' = [worker EXCEPT ![w].stage = @ + 1]

(* Copy the raw object to local disk.  A missing object raises: an OSError *)
(* in local mode (transient), a botocore ClientError on S3 (permanent).    *)
Download(w, m) ==
    /\ \/ /\ raw[m] # "none"
          /\ worker' = [worker EXCEPT
                         ![w] = [@ EXCEPT !.stage = worker[w].stage + 1,
                                          !.src = raw[m]]]
       \/ /\ raw[m] = "none"
          /\ \E e \in {"transient", "permanent"} : Raise(w, e)
    /\ UNCHANGED <<rowVars, storageVars, historyVars>>

(* Mutant: the loop stops one chunk short.                                 *)
LastChunkOffByOne(n) == n + 2 >= NChunks

LastChunk(n) == n + 1 = NChunks

(* One PUT per chunk, under keys that depend on the model only.            *)
UploadChunk(w, m) ==
    /\ chunks' = [chunks EXCEPT ![m] = @ \cup {worker[w].chunk + 1}]
    /\ worker' = [worker EXCEPT
           ![w] = [@ EXCEPT !.chunk = worker[w].chunk + 1,
                            !.stage = IF LastChunk(worker[w].chunk)
                                      THEN worker[w].stage + 1
                                      ELSE worker[w].stage]]
    /\ UNCHANGED <<rowVars, raw, historyVars>>

(* Upsert of the metadata row (and, for IFC, the elements): the foreign    *)
(* key makes the INSERT for a deleted model raise, which is permanent.     *)
PersistMetadata(w, m) ==
    /\ IF HasRow(m)
       THEN meta' = [meta EXCEPT ![m] = "set"] /\ NextStage(w)
       ELSE Raise(w, "permanent") /\ UNCHANGED meta
    /\ UNCHANGED <<status, fmt, prefix, storageVars, historyVars>>

(* update_model_status(..., "ready", processed_s3_prefix=...).             *)
Finalize(w, m) ==
    /\ update_model_status(m, "ready")
    /\ prefix' = IF HasRow(m) THEN [prefix EXCEPT ![m] = "set"] ELSE prefix
    /\ built' = [built EXCEPT ![m] = worker[w].src]
    /\ Goto(w, "notify")
    /\ UNCHANGED <<fmt, meta, storageVars, notices>>

(* The remaining stages work on the local copy only.                       *)
LocalStage(w) == NextStage(w) /\ UNCHANGED <<rowVars, storageVars, historyVars>>

RunStage(w, stages) ==
    LET m == worker[w].model
        s == stages[worker[w].stage]
    IN
    /\ worker[w].pc = "run"
    /\ CASE s = "download" -> Download(w, m)
         [] s = "upload"   -> UploadChunk(w, m)
         [] s = "metadata" -> PersistMetadata(w, m)
         [] s = "finalize" -> Finalize(w, m)
         [] OTHER          -> LocalStage(w)
    /\ UNCHANGED <<apiVars, sweep, queue, lock, crashes>>

(* is_retryable: storage and local I/O errors may be OSErrors; database    *)
(* errors never are.                                                       *)
Raises(s) ==
    IF s \in {"metadata", "finalize"}
    THEN {e \in {"permanent"} : "db" \in Enabled}
    ELSE IF s \in {"download", "upload"}
         THEN {e \in {"transient", "permanent"} : "storage" \in Enabled}
         ELSE {e \in {"permanent"} : "content" \in Enabled}

StageFails(w, stages) ==
    /\ worker[w].pc = "run"
    /\ \E e \in Raises(stages[worker[w].stage]) : Raise(w, e)
    /\ UNCHANGED <<rowVars, storageVars, historyVars, apiVars, sweep, queue,
                   lock, crashes>>

NotifyReady(w) ==
    /\ worker[w].pc = "notify"
    /\ publish_model_ready(worker[w].model)
    /\ Goto(w, "webhook")
    /\ UNCHANGED <<rowVars, storageVars, built, apiVars, sweep, queue, lock,
                   crashes>>

(* The model.ready webhooks are queued inside the try block: an error      *)
(* there is handled like an error of a stage.                              *)
dispatch_webhook_event(w) ==
    /\ worker[w].pc = "webhook"
    /\ \/ Goto(w, "release")
       \/ "webhook" \in Enabled /\ Raise(w, "permanent")
    /\ UNCHANGED <<rowVars, storageVars, historyVars, apiVars, sweep, queue,
                   lock, crashes>>

(* The soft limit inside release_task_lock is swallowed like a Redis       *)
(* error: the key stays until its TTL.                                     *)
Unlock(w) ==
    \/ release_task_lock(worker[w].model)
    \/ SoftDue(w, "soft_lost") /\ AbandonLock(w)

Release(w) ==
    /\ worker[w].pc = "release"
    /\ Unlock(w)
    /\ Return(w)
    /\ UNCHANGED <<rowVars, storageVars, historyVars, apiVars, sweep, queue,
                   crashes>>

-----------------------------------------------------------------------------
(* The except blocks.                                                      *)

(* The soft limit and a glTF validation error release before they report.  *)
EarlyRelease(w) ==
    /\ worker[w].pc = "early_release"
    /\ \/ release_task_lock(worker[w].model) /\ Raise(w, "released")
       \/ /\ SoftDue(w, "soft_lost")
          /\ AbandonLock(w)
          /\ SoftGoto(w, "fail_status", "released")
    /\ UNCHANGED <<rowVars, storageVars, historyVars, apiVars, sweep, queue,
                   crashes>>

(* handle_task_failure: mark failed, publish, queue webhooks; each step    *)
(* swallows its own error.                                                 *)
AfterFailure(w) ==
    IF worker[w].exc = "released" THEN "return" ELSE "fail_release"

handle_task_failure(w) ==
    LET m == worker[w].model IN
    \/ /\ worker[w].pc = "fail_status"
       /\ \/ update_model_status(m, "failed")
          \/ "db" \in Enabled /\ UNCHANGED status
       /\ Goto(w, "fail_publish")
       /\ UNCHANGED <<fmt, prefix, meta, storageVars, historyVars, apiVars,
                      sweep, queue, lock, crashes>>
    \/ /\ worker[w].pc = "fail_publish"
       /\ publish_model_failed(m)
       /\ Goto(w, AfterFailure(w))
       /\ UNCHANGED <<rowVars, storageVars, built, apiVars, sweep, queue, lock,
                      crashes>>

(* Release, then self.retry(exc=exc) if the exception is retryable (and    *)
(* the soft limit does not come first).                                    *)
FailRelease(w) ==
    LET again == worker[w].exc = "transient"
                     /\ worker[w].retries < ConvertMaxRetries
    IN
    /\ worker[w].pc = "fail_release"
    /\ Unlock(w)
    /\ \/ /\ again
          /\ send_task(Msg("convert", worker[w].model, worker[w].retries + 1))
       \/ /\ ~again \/ "broker" \in Enabled \/ SoftDue(w, "soft_lost")
          /\ UNCHANGED queue
    /\ Return(w)
    /\ UNCHANGED <<rowVars, storageVars, historyVars, apiVars, sweep, crashes>>

-----------------------------------------------------------------------------
(* The soft time limit.  (Swallowed inside a stage it changes nothing.)    *)

(* In the try block: release the lock, then handle_task_failure.           *)
SoftHandled(w) ==
    /\ SoftDue(w, "soft")
    /\ worker[w].pc \in {"run", "notify", "webhook", "release"}
    /\ worker[w].stage > 0
    /\ SoftGoto(w, "early_release", worker[w].exc)
    /\ UNCHANGED lock

(* publish_model_ready, and each step of handle_task_failure, swallow it   *)
(* before they took effect, and the task goes on.                          *)
SoftSwallowed(w) ==
    /\ SoftDue(w, "soft_lost")
    /\ \E to \in {<<"notify", "webhook">>, <<"fail_status", "fail_publish">>,
                   <<"fail_publish", AfterFailure(w)>>} :
          worker[w].pc = to[1] /\ SoftGoto(w, to[2], worker[w].exc)
    /\ UNCHANGED lock

(* Outside the try block, or in its except blocks between the calls that   *)
(* swallow it, it ends the task.                                           *)
SoftEscapes(w) ==
    /\ SoftDue(w, "soft_lost")
    /\ worker[w].pc \in {"guard", "lock", "load", "early_release",
                         "fail_status", "fail_publish"}
    /\ Ack(w)
    /\ AbandonLock(w)

(* acquire_task_lock swallows it and fails open.                           *)
SoftFailsOpen(w) ==
    /\ SoftDue(w, "soft_lock")
    /\ worker[w].pc = "lock"
    /\ SoftGoto(w, "load", worker[w].exc)
    /\ UNCHANGED lock

(* Between the release and the return: the handler releases once more.     *)
SoftReleasesTwice(w) ==
    /\ SoftDue(w, "soft_lock")
    /\ worker[w].pc = "release"
    /\ worker[w].stage > 0
    /\ release_task_lock(worker[w].model)
    /\ SoftGoto(w, "early_release", worker[w].exc)

SoftLimit(w) ==
    /\ \/ SoftHandled(w)
       \/ SoftSwallowed(w)
       \/ SoftEscapes(w)
       \/ SoftFailsOpen(w)
       \/ SoftReleasesTwice(w)
    /\ UNCHANGED <<rowVars, storageVars, historyVars, apiVars, sweep, queue,
                   crashes>>

-----------------------------------------------------------------------------
(* The tasks.                                                              *)

Converter(w, f, stages) ==
    /\ worker[w].task = "convert"
    /\ fmt[worker[w].model] = f
    /\ \/ Guard(w)
       \/ acquire_task_lock(w)
       \/ Load(w)
       \/ RunStage(w, stages)
       \/ StageFails(w, stages)
       \/ SoftLimit(w)
       \/ NotifyReady(w)
       \/ dispatch_webhook_event(w)
       \/ Release(w)
       \/ EarlyRelease(w)
       \/ handle_task_failure(w)
       \/ FailRelease(w)

process_model(w) == Converter(w, "ifc", IfcStages)
process_step(w)  == Converter(w, "step", StepStages)
process_obj(w)   == Converter(w, "obj", ObjStages)
process_stl(w)   == Converter(w, "stl", StlStages)

(* GltfValidationError has an except block of its own.                     *)
GltfInvalid(w) ==
    /\ "content" \in Enabled
    /\ worker[w].task = "convert"
    /\ fmt[worker[w].model] = "gltf"
    /\ worker[w].pc = "run"
    /\ GltfStages[worker[w].stage] = "validate"
    /\ Goto(w, "early_release")
    /\ UNCHANGED <<rowVars, storageVars, historyVars, apiVars, sweep, queue,
                   lock, crashes>>

process_gltf(w) == Converter(w, "gltf", GltfStages) \/ GltfInvalid(w)

=============================================================================
