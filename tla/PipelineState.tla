--------------------------- MODULE PipelineState ---------------------------
(***************************************************************************)
(* The state shared by the upload API (apps/api), the Celery workers       *)
(* (apps/worker) and the services between them: the `models' rows in       *)
(* Postgres, the raw and processed object buckets, the Celery broker, the  *)
(* Redis task locks, and the notices published on `model_events:{user}'.   *)
(* Every module of the processing pipeline extends this one.               *)
(***************************************************************************)
EXTENDS Naturals, Sequences

CONSTANTS
    Models,        \* model ids that initiate_upload may hand out
    Workers,       \* Celery pool processes (all queues)
    Requests,      \* concurrent POST /models/{id}/confirm requests
    Formats,       \* file formats clients upload
    Contents,      \* kinds of file clients upload
    NChunks,       \* output chunks of one conversion
    Enabled,       \* optional events and faults allowed in this instance
    MaxCrashes,    \* bound on worker processes lost with a task in hand
    NoModel        \* "no model id"

VARIABLES
    status,        \* models.status; "absent" before the INSERT, "deleted" after
    fmt,           \* models.format
    prefix,        \* models.processed_s3_prefix: "none" or "set"
    meta,          \* the model_metadata row: "none" or "set"
    raw,           \* the object under raw_s3_key: "none" or its content
    chunks,        \* the objects under processed/{model_id}/
    notices,       \* history: what the owner was told of the outcome, by
                   \* MODEL_READY / MODEL_FAILED or by a refused confirm
    built,         \* history: content the recorded output was made from
    confirm,       \* confirm requests in flight
    removal,       \* DELETE /models/{id} in flight
    sweep,         \* the sweeper's remaining rows and the row in hand
    queue,         \* Celery messages waiting on the broker
    worker,        \* the task each worker process is executing
    lock,          \* the Redis key task_lock:{task}:{model}
    crashes        \* worker processes lost so far

rowVars     == <<status, fmt, prefix, meta>>
storageVars == <<raw, chunks>>
apiVars     == <<confirm, removal>>
historyVars == <<notices, built>>
vars == <<rowVars, storageVars, historyVars, apiVars, sweep, queue, worker,
          lock, crashes>>

-----------------------------------------------------------------------------
(* Values.                                                                 *)

AllFormats  == {"ifc", "gltf", "step", "obj", "stl"}
AllContents == {"clean", "infected", "mismatch"}

(* Requests the users may make, the sweeper, and the ways a step may fail. *)
OptionalEvents ==
    {"delete", "sweep", "late_put",             \* users and the beat schedule
     "crash", "hard",                           \* a worker process is stopped
     "soft", "soft_lost", "soft_lock",          \* the soft time limit (below)
     "storage", "content", "size", "clamd",     \* a step of a task raises
     "db", "broker", "webhook", "publish",
     "redis_acquire", "redis_release"}          \* Redis down at the task lock

(* Mutant: a failed model is not terminal.                                 *)
TerminalReadyOnly == {"ready"}

Status   == {"absent", "pending", "processing", "ready", "failed", "deleted"}
Terminal == {"ready", "failed"}
Flag     == {"none", "set"}
Notice   == {"ready", "failed"}

ScanMaxRetries    == 3
ConvertMaxRetries == 2

TaskName == {"scan_file", "generate_chunks", "convert"}
Message  == [task : TaskName, model : Models, retries : 0 .. ScanMaxRetries]

ConfirmPc == {"idle", "verify", "commit", "enqueue"}
RemovalPc == {"idle", "raw", "processed", "row"}

ScanPc    == {"scan_load", "scan_run", "scan_dispatch", "infected_status",
              "infected_delete", "infected_publish", "error_status",
              "error_publish"}
ConvertPc == {"guard", "lock", "load", "run", "notify", "webhook", "release",
              "early_release", "fail_status", "fail_publish", "fail_release"}
BusyPc    == {"route", "return"} \cup ScanPc \cup ConvertPc

(* "released": the failure handler runs after the lock was released.       *)
Exception == {"none", "transient", "permanent", "released"}

BusyWorker == [pc : BusyPc, task : TaskName, model : Models,
               retries : 0 .. ScanMaxRetries, stage : Nat, chunk : Nat,
               src : AllContents \cup {"none"}, exc : Exception,
               soft : BOOLEAN]

Idle == [pc |-> "idle", task |-> "none", model |-> NoModel, retries |-> 0,
         stage |-> 0, chunk |-> 0, src |-> "none", exc |-> "none",
         soft |-> FALSE]

Worker == {Idle} \cup BusyWorker

ASSUME ConstantsOK ==
    /\ Formats \subseteq AllFormats
    /\ Contents \subseteq AllContents
    /\ Enabled \subseteq OptionalEvents
    /\ NChunks \in Nat \ {0}
    /\ MaxCrashes \in Nat
    /\ NoModel \notin Models
    /\ "free" \notin Workers /\ "orphan" \notin Workers

(***************************************************************************)
(* The type of every variable.                                             *)
(***************************************************************************)
TypeOK ==
    /\ status \in [Models -> Status]
    /\ fmt \in [Models -> AllFormats \cup {"none"}]
    /\ prefix \in [Models -> Flag]
    /\ meta \in [Models -> Flag]
    /\ raw \in [Models -> AllContents \cup {"none"}]
    /\ chunks \in [Models -> SUBSET Nat]
    /\ notices \in [Models -> Seq(Notice)]
    /\ built \in [Models -> AllContents \cup {"none"}]
    /\ confirm \in [Requests -> [pc : ConfirmPc, model : Models \cup {NoModel}]]
    /\ removal \in [Models -> [pc : RemovalPc, prefix : Flag]]
    /\ sweep \in [rows : SUBSET Models, current : Models \cup {NoModel}]
    /\ queue \in [Message -> Nat]
    /\ worker \in [Workers -> Worker]
    /\ lock \in [Models -> Workers \cup {"free", "orphan"}]
    /\ crashes \in Nat

Init ==
    /\ status = [m \in Models |-> "absent"]
    /\ fmt = [m \in Models |-> "none"]
    /\ prefix = [m \in Models |-> "none"]
    /\ meta = [m \in Models |-> "none"]
    /\ raw = [m \in Models |-> "none"]
    /\ chunks = [m \in Models |-> {}]
    /\ notices = [m \in Models |-> <<>>]
    /\ built = [m \in Models |-> "none"]
    /\ confirm = [r \in Requests |-> [pc |-> "idle", model |-> NoModel]]
    /\ removal = [m \in Models |-> [pc |-> "idle", prefix |-> "none"]]
    /\ sweep = [rows |-> {}, current |-> NoModel]
    /\ queue = [msg \in Message |-> 0]
    /\ worker = [w \in Workers |-> Idle]
    /\ lock = [m \in Models |-> "free"]
    /\ crashes = 0

-----------------------------------------------------------------------------
(* Helpers of the tasks and the services.                                  *)

HasRow(m) == status[m] \notin {"absent", "deleted"}

(* UPDATE models SET status = s WHERE id = m: matches no row once deleted. *)
update_model_status(m, s) ==
    status' = IF HasRow(m) THEN [status EXCEPT ![m] = s] ELSE status

is_already_processed(m) == status[m] \in Terminal

(* PUBLISH of a terminal event; a Redis error is logged and swallowed.     *)
Publish(m, event) ==
    \/ notices' = [notices EXCEPT ![m] = Append(@, event)]
    \/ "publish" \in Enabled /\ UNCHANGED notices

Msg(t, m, n) == [task |-> t, model |-> m, retries |-> n]

send_task(msg) == queue' = [queue EXCEPT ![msg] = @ + 1]

(* Mutant: the failure event is not published.                             *)
publish_nothing(m) == UNCHANGED notices

publish_model_ready(m)  == Publish(m, "ready")
publish_model_failed(m) == Publish(m, "failed")

(* What the worker process does next.  Return ends a task that has had     *)
(* effects; its message is acknowledged afterwards (Ack).                  *)
Goto(w, pc) == worker' = [worker EXCEPT ![w].pc = pc]
Return(w)   == Goto(w, "return")
Ack(w)      == worker' = [worker EXCEPT ![w] = Idle]
Raise(w, e) == worker' = [worker EXCEPT ![w] = [@ EXCEPT !.pc = "fail_status",
                                                         !.exc = e]]

(* SoftTimeLimitExceeded is an ordinary Exception, raised once in a        *)
(* delivery, wherever the task is.  The events tell apart where it strikes *)
(* ("soft": a handler takes it while the outcome is open; "soft_lost": an  *)
(* `except Exception' of a helper swallows it, no handler is in reach, or  *)
(* the effect was made already; "soft_lock": inside the lock's own calls). *)
SoftDue(w, where) == where \in Enabled /\ ~worker[w].soft

SoftGoto(w, pc, e) ==
    worker' = [worker EXCEPT ![w] = [@ EXCEPT !.pc = pc, !.exc = e,
                                              !.soft = TRUE]]

(* DEL task_lock:...: unconditional; if Redis is down the key stays until  *)
(* its TTL.                                                                *)
release_task_lock(m) ==
    \/ lock' = [lock EXCEPT ![m] = "free"]
    \/ /\ "redis_release" \in Enabled
       /\ lock' = [lock EXCEPT ![m] = IF @ = "free" THEN "free" ELSE "orphan"]

=============================================================================
