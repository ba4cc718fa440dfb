--------------------------- MODULE ModelPipeline ---------------------------
(***************************************************************************)
(* The processing pipeline as a whole: the upload API, the Celery workers  *)
(* executing scan, routing and conversion tasks, the hourly sweeper, and   *)
(* the environment (delivery, loss of worker processes, expiry of locks).  *)
(***************************************************************************)
EXTENDS UploadApi, ScanTasks, ConvertTasks

-----------------------------------------------------------------------------
(* Celery and Redis, from the way the tasks are declared (external).       *)

(* Mutant: the router is registered under the name of its queue.           *)
StartPcByQueue(t) == CASE t = "scan_file"       -> "scan_load"
                       [] t = "generate_chunks" -> "mesh"
                       [] t = "convert"         -> "guard"

StartPc(t) == CASE t = "scan_file"       -> "scan_load"
                [] t = "generate_chunks" -> "route"
                [] t = "convert"         -> "guard"

(* A free pool process takes a message.  With task_acks_late the message   *)
(* stays the process's until the task returns (AckLate).                   *)
Take(w, msg) ==
    /\ worker[w].pc = "idle"
    /\ queue[msg] > 0
    /\ queue' = [queue EXCEPT ![msg] = @ - 1]
    /\ worker' = [worker EXCEPT ![w] = [Idle EXCEPT !.pc = StartPc(msg.task),
                                                    !.task = msg.task,
                                                    !.model = msg.model,
                                                    !.retries = msg.retries]]
    /\ UNCHANGED <<rowVars, storageVars, historyVars, apiVars, sweep, lock,
                   crashes>>

(* The task has returned: task_acks_late acknowledges the message.         *)
AckLate(w) ==
    /\ worker[w].pc = "return"
    /\ Ack(w)
    /\ UNCHANGED <<rowVars, storageVars, historyVars, apiVars, sweep, queue,
                   lock, crashes>>

(* The pool process dies (out of memory, eviction): reject_on_worker_lost  *)
(* puts the message back, and the lock key stays in Redis.                 *)
Crash(w) ==
    /\ "crash" \in Enabled
    /\ crashes < MaxCrashes
    /\ worker[w].pc # "idle"
    /\ crashes' = crashes + 1
    /\ send_task(Msg(worker[w].task, worker[w].model, worker[w].retries))
    /\ Ack(w)
    /\ AbandonLock(w)
    /\ UNCHANGED <<rowVars, storageVars, historyVars, apiVars, sweep>>

(* time_limit: the process is killed and the message is acknowledged       *)
(* (acks_on_failure_or_timeout is Celery's default).  generate_chunks      *)
(* declares no limit.                                                      *)
HardLimit(w) ==
    /\ "hard" \in Enabled
    /\ worker[w].task \in {"scan_file", "convert"}
    /\ Ack(w)
    /\ AbandonLock(w)
    /\ UNCHANGED <<rowVars, storageVars, historyVars, apiVars, sweep, queue,
                   crashes>>

(* The key's TTL (2100 s) exceeds time_limit (1800 s), so a key expires    *)
(* only after the process that set it is gone.                             *)
LockExpire(m) ==
    /\ lock[m] = "orphan"
    /\ lock' = [lock EXCEPT ![m] = "free"]
    /\ UNCHANGED <<rowVars, storageVars, historyVars, apiVars, sweep, queue,
                   worker, crashes>>

-----------------------------------------------------------------------------
(* maintenance.cleanup_abandoned_uploads.  Which pending rows are older    *)
(* than 24 hours is left open.                                             *)

sweep_select ==
    /\ "sweep" \in Enabled
    /\ sweep.rows = {} /\ sweep.current = NoModel
    /\ \E S \in SUBSET {m \in Models : status[m] = "pending"} :
          /\ S # {}
          /\ sweep' = [sweep EXCEPT !.rows = S]
    /\ UNCHANGED <<rowVars, storageVars, historyVars, apiVars, queue, worker,
                   lock, crashes>>

sweep_fail ==
    /\ sweep.current = NoModel
    /\ \E m \in sweep.rows :
          /\ update_model_status(m, "failed")
          /\ sweep' = [rows |-> sweep.rows \ {m}, current |-> m]
    /\ UNCHANGED <<fmt, prefix, meta, storageVars, historyVars, apiVars, queue,
                   worker, lock, crashes>>

sweep_delete ==
    /\ sweep.current # NoModel
    /\ sweep' = [sweep EXCEPT !.current = NoModel]
    /\ \/ raw' = [raw EXCEPT ![sweep.current] = "none"]
       \/ "storage" \in Enabled /\ UNCHANGED raw
    /\ UNCHANGED <<rowVars, chunks, historyVars, apiVars, queue, worker, lock,
                   crashes>>

cleanup_abandoned_uploads == sweep_select \/ sweep_fail \/ sweep_delete

-----------------------------------------------------------------------------
Tasks(w) ==
    \/ scan_file(w)
    \/ generate_chunks(w)
    \/ process_model(w)
    \/ process_gltf(w)
    \/ process_step(w)
    \/ process_obj(w)
    \/ process_stl(w)
    \/ AckLate(w)

Next ==
    \/ \E m \in Models : \/ initiate_upload(m)
                         \/ upload_local_file(m)
                         \/ delete_model(m)
                         \/ LockExpire(m)
    \/ \E r \in Requests : confirm_upload(r)
    \/ \E w \in Workers : \/ \E msg \in Message : Take(w, msg)
                          \/ Tasks(w)
                          \/ Crash(w)
                          \/ HardLimit(w)
    \/ cleanup_abandoned_uploads

Spec == Init /\ [][Next]_vars

(* What the scheduling guarantees: a request that was accepted, a worker   *)
(* process with a task or a waiting message, the sweeper once started, and *)
(* the TTL of an abandoned lock make progress.  Users owe nothing.         *)
Fairness ==
    /\ \A r \in Requests : WF_vars(\/ confirm_verify(r) \/ confirm_commit(r)
                                   \/ confirm_enqueue(r))
    /\ \A w \in Workers : /\ WF_vars(Tasks(w))
                          /\ WF_vars(\E msg \in Message : Take(w, msg))
    /\ \A m \in Models : /\ WF_vars(LockExpire(m))
                         /\ WF_vars(\/ delete_raw_object(m)
                                    \/ delete_processed_objects(m)
                                    \/ delete_row(m))
    /\ WF_vars(sweep_fail \/ sweep_delete)

FairSpec == Spec /\ Fairness

-----------------------------------------------------------------------------
(* Properties.                                                             *)

(* The program counters between acquire_task_lock and the release.         *)
CriticalPc == {"load", "run", "notify", "webhook", "release", "early_release",
               "fail_release"}

Converting(w, m) ==
    /\ worker[w].model = m
    /\ \/ worker[w].pc \in CriticalPc
       \/ worker[w].pc \in {"fail_status", "fail_publish"}
          /\ worker[w].exc # "released"

(***************************************************************************)
(* Two workers never convert the same model at once, whatever mix of       *)
(* duplicate confirms, redeliveries, crashes, time limits and expiring     *)
(* locks: what acquire_task_lock is for.  (Needs Redis at the lock: with   *)
(* it unreachable the code deliberately goes on without the lock.)         *)
(***************************************************************************)
ConversionMutex ==
    \A m \in Models : \A v, w \in Workers :
        Converting(v, m) /\ Converting(w, m) => v = w

(***************************************************************************)
(* A model the API reports as ready can be viewed: the prefix is recorded, *)
(* all chunks and the metadata row exist.  Only a DELETE in progress may   *)
(* have removed some already.                                              *)
(***************************************************************************)
ReadyIsComplete ==
    \A m \in Models :
        status[m] = "ready" =>
            /\ prefix[m] = "set"
            /\ meta[m] = "set"
            /\ removal[m].pc \in {"idle", "raw", "processed"}
                   => chunks[m] = 1 .. NChunks

(***************************************************************************)
(* No ready model was made from an infected file, in any interleaving of   *)
(* confirms, redelivered scans and conversions: scan.py's single gate.     *)
(* (For clients that upload before they confirm.)                          *)
(***************************************************************************)
InfectedNeverReady ==
    \A m \in Models : status[m] = "ready" => built[m] # "infected"

(***************************************************************************)
(* README, Workers: pending -> (confirm) -> processing -> ready or failed. *)
(* A failed verification or the sweeper takes pending to failed directly.  *)
(***************************************************************************)
StatusStep(old, new) ==
    \/ old = new
    \/ <<old, new>> \in {<<"absent", "pending">>, <<"pending", "processing">>,
                         <<"pending", "failed">>, <<"processing", "ready">>,
                         <<"processing", "failed">>}
    \/ new = "deleted"

StatusFlow == [][\A m \in Models : StatusStep(status[m], status'[m])]_vars

(***************************************************************************)
(* A confirmed model does not stay in "processing": it becomes ready or    *)
(* failed (or is deleted), whatever scan.py and the converters run into.   *)
(***************************************************************************)
ProcessingEnds ==
    \A m \in Models : status[m] = "processing" ~> status[m] # "processing"

(***************************************************************************)
(* The client hears about the outcome: once nothing is under way for a     *)
(* model, the owner of a ready or failed model was told so, and was told   *)
(* last what the status is (even if MODEL_READY was followed by an error). *)
(***************************************************************************)
Quiet(m) ==
    /\ \A w \in Workers : worker[w].model # m
    /\ \A msg \in Message : msg.model = m => queue[msg] = 0
    /\ \A r \in Requests : confirm[r].model # m
    /\ m \notin sweep.rows /\ sweep.current # m

OutcomeIsPublished ==
    \A m \in Models :
        Quiet(m) /\ HasRow(m) =>
            /\ status[m] \in Terminal => notices[m] # <<>>
            /\ notices[m] # <<>> => status[m] = notices[m][Len(notices[m])]

(***************************************************************************)
(* After a deletion, once nothing is under way, no processed chunk of the  *)
(* model is left in storage.                                               *)
(***************************************************************************)
DeletedLeavesNoChunks ==
    \A m \in Models :
        status[m] = "deleted" /\ Quiet(m) => chunks[m] = {}

(***************************************************************************)
(* A delivery that is a retry gets past the idempotency guard: a transient *)
(* error is followed by another attempt, not by a skip.                    *)
(***************************************************************************)
RetryRuns ==
    [][\A w \in Workers :
          worker[w].pc = "guard" /\ worker[w].retries > 0
              => worker'[w].pc \in {"guard", "lock"}]_vars

=============================================================================
