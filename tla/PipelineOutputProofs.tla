------------------------ MODULE PipelineOutputProofs ------------------------
(***************************************************************************)
(* Proofs about what the pipeline outputs: a ready model is complete, and  *)
(* was not made from an infected file, its status goes one way only, and   *)
(* what became of it is published.  For every set of models, workers,      *)
(* formats and contents and every number of chunks; each theorem says of   *)
(* which requests and faults.                                              *)
(***************************************************************************)
EXTENDS ModelPipelineProofs

-----------------------------------------------------------------------------
(* The antivirus gate.  A model whose confirm was accepted has left        *)
(* "pending" for good, and from then on no bytes are accepted for it; so   *)
(* what the scan found clean is what the conversion downloads.  Whoever    *)
(* carries a message past the scan carries a model that is not infected.   *)

Left(m) == status[m] \notin {"absent", "pending"}

(* No statement is made of what late bytes contain.                        *)
Clean(content) == content = "infected" => "late_put" \in Enabled

Vetted(m) == Left(m) /\ Clean(raw[m])

GatedWorker(x) ==
    /\ Clean(x.src)
    /\ x.pc = "route" => x.task # "scan_file"
    /\ x.pc # "idle" => Left(x.model)
    /\ x.pc # "idle" /\ (x.task # "scan_file" \/ x.pc = "scan_dispatch")
           => Vetted(x.model)

WorkersGated == \A w \in Workers : GatedWorker(worker[w])

ConfirmsGated ==
    \A r \in Requests :
        confirm[r].pc # "idle" =>
            /\ confirm[r].model \in Models
            /\ confirm[r].pc = "enqueue" => Left(confirm[r].model)

QueueGated ==
    \A msg \in Message :
        queue[msg] > 0 =>
            /\ Left(msg.model)
            /\ msg.task # "scan_file" => Vetted(msg.model)

OutputGated == \A m \in Models : Clean(built[m])

GateInv == WorkersGated /\ ConfirmsGated /\ QueueGated /\ OutputGated

(* A model that has left "pending" does not return, and, with no bytes     *)
(* accepted late, loses its bytes at most.                                 *)
Forward ==
    \A m \in Models :
        Left(m) => /\ Left(m)'
                   /\ raw'[m] \in {raw[m], "none"} \/ "late_put" \in Enabled

(* The UPDATE of a status never takes a model back.                        *)
LEMMA UpdateForward ==
    ASSUME TypeOK, NEW n, NEW s \in {"processing", "ready", "failed"},
           update_model_status(n, s), UNCHANGED raw
    PROVE  Forward
  BY DEF TypeOK, Forward, Left, update_model_status

(* A step that leaves rows and raw objects alone, or deletes an object.    *)
LEMMA StillForward ==
    ASSUME TypeOK, UNCHANGED status,
           \/ UNCHANGED raw
           \/ \E n : raw' = [raw EXCEPT ![n] = "none"]
    PROVE  Forward
  BY DEF TypeOK, Forward, Left

(* Every step takes every model forward.                                   *)
LEMMA NextForward ==
    ASSUME TypeOK, [Next]_vars
    PROVE  Forward
<1> USE DEF rowVars, storageVars, historyVars, apiVars
<1>1. CASE UNCHANGED vars
  BY <1>1, StillForward DEF vars
<1>2. ASSUME NEW m \in Models, initiate_upload(m)  PROVE Forward
  BY <1>2 DEF TypeOK, initiate_upload, Forward, Left
<1>3. ASSUME NEW m \in Models, upload_local_file(m)  PROVE Forward
  BY <1>3 DEF TypeOK, upload_local_file, Forward, Left
<1>4. ASSUME NEW m \in Models, delete_model(m)  PROVE Forward
  <2>1. CASE delete_row(m)
    BY <2>1 DEF TypeOK, delete_row, Forward, Left
  <2> QED BY <1>4, <2>1, StillForward DEF delete_model, delete_select,
          delete_raw_object, delete_processed_objects
<1>5. ASSUME NEW m \in Models, LockExpire(m)  PROVE Forward
  BY <1>5, StillForward DEF LockExpire
<1>6. ASSUME NEW r \in Requests, confirm_upload(r)  PROVE Forward
  <2>1. CASE confirm_verify(r)
    BY <2>1, UpdateForward, StillForward DEF confirm_verify
  <2>2. CASE confirm_commit(r)
    BY <2>2, UpdateForward DEF confirm_commit
  <2> QED BY <1>6, <2>1, <2>2, StillForward
          DEF confirm_upload, confirm_select, confirm_enqueue
<1>7. CASE cleanup_abandoned_uploads
  <2>1. CASE sweep_fail
    BY <2>1, UpdateForward DEF sweep_fail
  <2> QED BY <1>7, <2>1, StillForward
          DEF cleanup_abandoned_uploads, sweep_select, sweep_delete
<1>8. ASSUME NEW w \in Workers, NEW msg \in Message, Take(w, msg)
      PROVE  Forward
  BY <1>8, StillForward DEF Take
<1>9. ASSUME NEW w \in Workers, Crash(w) \/ HardLimit(w) \/ AckLate(w)
      PROVE  Forward
  BY <1>9, StillForward DEF Crash, HardLimit, AckLate
<1>10. ASSUME NEW w \in Workers, scan_file(w) \/ generate_chunks(w)
       PROVE  Forward
  <2>1. CASE infected_status(w) \/ error_status(w)
    BY <2>1, UpdateForward, StillForward DEF infected_status, error_status
  <2>2. CASE scan_load(w) \/ scan_run(w) \/ _dispatch_processing_task(w)
    BY <2>2, StillForward DEF scan_load, scan_run, _dispatch_processing_task
  <2>3. CASE \/ infected_delete(w) \/ _publish_scan_failure(w)
             \/ _publish_scan_error(w) \/ generate_chunks(w)
    BY <2>3, StillForward DEF infected_delete, _publish_scan_failure,
       _publish_scan_error, generate_chunks
  <2>4. CASE scan_soft_handled(w) \/ scan_soft_lost(w) \/ scan_soft_late(w)
    BY <2>4, StillForward DEF scan_soft_handled, scan_soft_lost, scan_soft_late
  <2> QED BY <1>10, <2>1, <2>2, <2>3, <2>4 DEF scan_file
<1>11. ASSUME NEW w \in Workers, NEW f, NEW stages, Converter(w, f, stages)
       PROVE  Forward
  <2>1. CASE RunStage(w, stages)
    <3>1. CASE Finalize(w, worker[w].model)
      BY <3>1, UpdateForward DEF Finalize
    <3>2. CASE ~Finalize(w, worker[w].model)
      BY <2>1, <3>2, StillForward
      DEF RunStage, Download, UploadChunk, PersistMetadata, LocalStage
    <3> QED BY <3>1, <3>2
  <2>2. CASE handle_task_failure(w)
    BY <2>2, UpdateForward, StillForward DEF handle_task_failure
  <2>3. CASE \/ Guard(w) \/ acquire_task_lock(w) \/ Load(w)
             \/ StageFails(w, stages) \/ SoftLimit(w)
    BY <2>3, StillForward DEF Guard, acquire_task_lock, Load, StageFails, SoftLimit
  <2>4. CASE \/ NotifyReady(w) \/ dispatch_webhook_event(w) \/ Release(w)
             \/ EarlyRelease(w) \/ FailRelease(w)
    BY <2>4, StillForward DEF NotifyReady, dispatch_webhook_event, Release,
       EarlyRelease, FailRelease
  <2> QED BY <1>11, <2>1, <2>2, <2>3, <2>4 DEF Converter
<1>12. ASSUME NEW w \in Workers, GltfInvalid(w)  PROVE Forward
  BY <1>12, StillForward DEF GltfInvalid
<1>13. ASSUME NEW w \in Workers, Tasks(w)  PROVE Forward
  BY <1>9, <1>10, <1>11, <1>12, <1>13
  DEF Tasks, process_model, process_gltf, process_step, process_obj, process_stl
<1> QED
  BY <1>1, <1>2, <1>3, <1>4, <1>5, <1>6, <1>7, <1>8, <1>9, <1>13 DEF Next

-----------------------------------------------------------------------------
(* The parts of the invariant, each under the steps that touch it.         *)

(* What has left "pending" and what was vetted stays so.                   *)
LEMMA ForwardKeeps ==
    ASSUME Forward, NEW m \in Models
    PROVE  (Left(m) => Left(m)') /\ (Vetted(m) => Vetted(m)')
  BY DEF Forward, Vetted, Clean

(* A worker that does not move stays gated.                                *)
LEMMA OthersGated ==
    ASSUME TypeOK, Forward, WorkersGated, NEW w \in Workers, Others(w),
           GatedWorker(worker[w])'
    PROVE  WorkersGated'
<1> SUFFICES ASSUME NEW v \in Workers  PROVE GatedWorker(worker[v])'
  BY DEF WorkersGated
<1>1. CASE v = w
  BY <1>1
<1>2. CASE v # w
  <2>1. worker'[v] = worker[v] /\ GatedWorker(worker[v])
    BY <1>2 DEF Others, WorkersGated
  <2>2. CASE worker[v].pc = "idle"
    BY <2>1, <2>2 DEF GatedWorker
  <2>3. CASE worker[v].pc # "idle"
    <3>1. worker[v].model \in Models
      BY <2>3, BusyRecord DEF BusyWorker
    <3>2. /\ Left(worker[v].model) => Left(worker[v].model)'
          /\ Vetted(worker[v].model) => Vetted(worker[v].model)'
      BY <2>1, <3>1, ForwardKeeps DEF Left, Vetted, Clean, Forward
    <3> QED BY <2>1, <3>2 DEF GatedWorker, Left, Vetted
  <2> QED BY <2>2, <2>3
<1> QED BY <1>1, <1>2

(* A step that leaves the workers alone.                                   *)
LEMMA WorkersRest ==
    ASSUME TypeOK, Forward, WorkersGated, UNCHANGED worker
    PROVE  WorkersGated'
<1> SUFFICES ASSUME NEW v \in Workers  PROVE GatedWorker(worker[v])'
  BY DEF WorkersGated
<1>1. Others(v) /\ worker'[v] = worker[v] /\ GatedWorker(worker[v])
  BY DEF Others, WorkersGated
<1>2. CASE worker[v].pc = "idle"
  BY <1>1, <1>2 DEF GatedWorker
<1>3. CASE worker[v].pc # "idle"
  <2>1. worker[v].model \in Models
    BY <1>3, BusyRecord DEF BusyWorker
  <2> QED BY <1>1, <2>1 DEF GatedWorker, Left, Vetted, Clean, Forward
<1> QED BY <1>2, <1>3

(* A confirm that does not move stays gated.                               *)
LEMMA ConfirmsRest ==
    ASSUME Forward, ConfirmsGated, UNCHANGED confirm
    PROVE  ConfirmsGated'
  BY DEF Forward, ConfirmsGated, Left

(* Messages that were not sent just now stay gated.                        *)
LEMMA QueueRest ==
    ASSUME Forward, QueueGated,
           \A msg \in Message : queue'[msg] > 0 => queue[msg] > 0
    PROVE  QueueGated'
  BY DEF Forward, QueueGated, Left, Vetted, Clean, Message

(* A message for a model that has left "pending", past the scan only if it *)
(* was vetted.                                                             *)
LEMMA QueueSend ==
    ASSUME TypeOK, Forward, QueueGated, NEW msg \in Message, send_task(msg),
           Left(msg.model), msg.task # "scan_file" => Vetted(msg.model)
    PROVE  QueueGated'
<1> SUFFICES ASSUME NEW n \in Message, queue'[n] > 0
             PROVE  /\ Left(n.model)'
                    /\ n.task # "scan_file" => Vetted(n.model)'
  BY DEF QueueGated, Left, Vetted
<1>1. n.model \in Models
  BY DEF Message
<1>2. n = msg \/ queue'[n] = queue[n]
  BY DEF TypeOK, send_task
<1>3. Left(n.model) /\ (n.task # "scan_file" => Vetted(n.model))
  BY <1>2 DEF QueueGated
<1> QED BY <1>1, <1>3 DEF Forward, Left, Vetted, Clean

-----------------------------------------------------------------------------
(* The steps of a task.                                                    *)

(* A worker that goes on with its task stays gated, unless it reaches the  *)
(* dispatch of a model that was not vetted.                                *)
LEMMA GoOn ==
    ASSUME TypeOK, Forward, WorkersGated, NEW w \in Workers,
           worker[w].pc # "idle", Others(w),
           worker'[w].task = worker[w].task,
           worker'[w].model = worker[w].model,
           Clean(worker'[w].src),
           worker'[w].pc # "route",
           worker'[w].pc = "scan_dispatch" => Vetted(worker[w].model)
    PROVE  WorkersGated'
<1>1. worker[w].model \in Models
  BY BusyRecord DEF BusyWorker
<1>2. GatedWorker(worker[w])
  BY DEF WorkersGated
<1>3. GatedWorker(worker[w])'
  BY <1>1, <1>2 DEF GatedWorker, Forward, Left, Vetted, Clean
<1> QED BY <1>3, OthersGated

(* The updates of the tasks, as far as the gate is concerned.              *)
LEMMA TaskUpdates ==
    ASSUME TypeOK, NEW w \in Workers, worker[w].pc # "idle"
    PROVE  /\ \A pc : Goto(w, pc) => /\ Others(w)
                                     /\ worker'[w].pc = pc
                                     /\ worker'[w].task = worker[w].task
                                     /\ worker'[w].model = worker[w].model
                                     /\ worker'[w].src = worker[w].src
           /\ \A e : Raise(w, e) => /\ Others(w)
                                    /\ worker'[w].pc = "fail_status"
                                    /\ worker'[w].task = worker[w].task
                                    /\ worker'[w].model = worker[w].model
                                    /\ worker'[w].src = worker[w].src
           /\ NextStage(w) => /\ Others(w)
                              /\ worker'[w].pc = worker[w].pc
                              /\ worker'[w].task = worker[w].task
                              /\ worker'[w].model = worker[w].model
                              /\ worker'[w].src = worker[w].src
           /\ \A pc, e : SoftGoto(w, pc, e) =>
                  /\ Others(w)
                  /\ worker'[w].pc = pc
                  /\ worker'[w].task = worker[w].task
                  /\ worker'[w].model = worker[w].model
                  /\ worker'[w].src = worker[w].src
<1>1. worker[w] \in BusyWorker /\ worker \in [Workers -> Worker]
  BY BusyRecord DEF TypeOK
<1>2. ASSUME NEW pc, Goto(w, pc)
      PROVE  /\ Others(w)
             /\ worker'[w].pc = pc
             /\ worker'[w].task = worker[w].task
             /\ worker'[w].model = worker[w].model
             /\ worker'[w].src = worker[w].src
  BY <1>1, <1>2 DEF Goto, Others, BusyWorker
<1>3. ASSUME NEW e, Raise(w, e)
      PROVE  /\ Others(w)
             /\ worker'[w].pc = "fail_status"
             /\ worker'[w].task = worker[w].task
             /\ worker'[w].model = worker[w].model
             /\ worker'[w].src = worker[w].src
  BY <1>1, <1>3 DEF Raise, Others, BusyWorker
<1>4. ASSUME NextStage(w)
      PROVE  /\ Others(w)
             /\ worker'[w].pc = worker[w].pc
             /\ worker'[w].task = worker[w].task
             /\ worker'[w].model = worker[w].model
             /\ worker'[w].src = worker[w].src
  BY <1>1, <1>4 DEF NextStage, Others, BusyWorker
<1>5. ASSUME NEW pc, NEW e, SoftGoto(w, pc, e)
      PROVE  /\ Others(w)
             /\ worker'[w].pc = pc
             /\ worker'[w].task = worker[w].task
             /\ worker'[w].model = worker[w].model
             /\ worker'[w].src = worker[w].src
  BY <1>1, <1>5 DEF SoftGoto, Others, BusyWorker
<1> QED BY <1>2, <1>3, <1>4, <1>5

(* The soft limit changes the worker and its lock only: it ends the task,  *)
(* or takes it to a point that is not in the try block.                    *)
LEMMA SoftEffects ==
    ASSUME NEW w \in Workers, SoftLimit(w)
    PROVE  /\ worker[w].pc \in ConvertPc
           /\ UNCHANGED <<rowVars, storageVars, historyVars, apiVars, sweep,
                          queue, crashes>>
           /\ \/ Ack(w)
              \/ \E pc \in {"load", "webhook", "early_release",
                            "fail_publish", "fail_release", "return"} :
                     /\ SoftGoto(w, pc, worker[w].exc)
                     /\ pc = "load" => worker[w].pc = "lock"
<1>0. UNCHANGED <<rowVars, storageVars, historyVars, apiVars, sweep, queue,
                  crashes>>
  BY DEF SoftLimit
<1>1. CASE SoftHandled(w) \/ SoftReleasesTwice(w)
  BY <1>0, <1>1 DEF SoftHandled, SoftReleasesTwice, ConvertPc
<1>2. CASE SoftSwallowed(w)
  <2>1. AfterFailure(w) \in {"return", "fail_release"}
    BY DEF AfterFailure
  <2> QED BY <1>0, <1>2, <2>1 DEF SoftSwallowed, ConvertPc
<1>3. CASE SoftEscapes(w) \/ SoftFailsOpen(w)
  BY <1>0, <1>3 DEF SoftEscapes, SoftFailsOpen, ConvertPc
<1> QED BY <1>1, <1>2, <1>3 DEF SoftLimit

(* A worker without a task is gated.                                       *)
LEMMA AckGated ==
    ASSUME TypeOK, Forward, WorkersGated, NEW w \in Workers, Ack(w)
    PROVE  WorkersGated'
<1>1. Others(w) /\ worker'[w] = Idle
  BY DEF TypeOK, Ack, Others
<1>2. GatedWorker(worker[w])'
  BY <1>1 DEF GatedWorker, Clean, Idle
<1> QED BY <1>1, <1>2, OthersGated

(* The scan dispatches only what it found clean, and retries only itself.  *)
LEMMA ScanGate ==
    ASSUME TypeOK, Forward, GateInv, NEW w \in Workers,
           scan_file(w) \/ generate_chunks(w)
    PROVE  GateInv'
<1> DEFINE m == worker[w].model
<1>0. worker[w].pc # "idle"
  BY DEF scan_file, generate_chunks, scan_load, scan_run,
         _dispatch_processing_task, infected_status, infected_delete,
         _publish_scan_failure, error_status, _publish_scan_error,
         scan_soft_handled, scan_soft_lost, scan_soft_late
<1>1. /\ m \in Models /\ GatedWorker(worker[w])
      /\ worker[w].retries \in 0 .. ScanMaxRetries
  BY <1>0, BusyRecord DEF GateInv, WorkersGated, BusyWorker
<1>2. UNCHANGED <<confirm, built>>
  BY DEF scan_file, generate_chunks, scan_load, scan_run,
         _dispatch_processing_task, infected_status, infected_delete,
         _publish_scan_failure, error_status, _publish_scan_error,
         scan_soft_handled, scan_soft_lost, scan_soft_late, apiVars,
         historyVars
<1>3. \/ Ack(w)
      \/ \E pc \in (ScanPc \cup {"return"}) \ {"scan_dispatch"} :
             Goto(w, pc) \/ SoftGoto(w, pc, "none")
      \/ Goto(w, "scan_dispatch") /\ Clean(raw[m])
  BY DEF scan_file, generate_chunks, scan_load, scan_run, scan_retry,
         _dispatch_processing_task, infected_status, infected_delete,
         _publish_scan_failure, error_status, _publish_scan_error,
         scan_soft_handled, scan_soft_lost, scan_soft_late, Return, ScanPc,
         _clamd_scan, Clean
<1>4. WorkersGated'
  <2>1. CASE Ack(w)
    BY <2>1, AckGated DEF GateInv
  <2>2. ASSUME NEW pc \in ScanPc \cup {"return"},
               Goto(w, pc) \/ SoftGoto(w, pc, "none"),
               pc = "scan_dispatch" => Clean(raw[m])
        PROVE  WorkersGated'
    <3>1. /\ Others(w)
          /\ worker'[w].pc = pc
          /\ worker'[w].task = worker[w].task
          /\ worker'[w].model = m
          /\ worker'[w].src = worker[w].src
      BY <1>0, <2>2, TaskUpdates
    <3>2. pc # "route" /\ Clean(worker[w].src) /\ Left(m)
      BY <1>0, <1>1 DEF ScanPc, GatedWorker
    <3> QED BY <1>0, <2>2, <3>1, <3>2, GoOn DEF GateInv, Vetted
  <2>3. "scan_dispatch" \in ScanPc
    BY DEF ScanPc
  <2> QED BY <1>3, <2>1, <2>2, <2>3
<1>5. QueueGated'
  <2>1. \/ UNCHANGED queue
        \/ \E n \in 0 .. ScanMaxRetries : send_task(Msg("scan_file", m, n))
        \/ /\ worker[w].pc \in {"scan_dispatch", "route"}
           /\ \E t \in TaskName : send_task(Msg(t, m, 0))
    <3>1. CASE scan_run(w)
      <4>1. worker[w].retries < ScanMaxRetries
               => worker[w].retries + 1 \in 0 .. ScanMaxRetries
        BY <1>1 DEF ScanMaxRetries
      <4> QED BY <3>1, <4>1 DEF scan_run, scan_retry
    <3>2. CASE _dispatch_processing_task(w) \/ scan_soft_late(w)
      BY <3>2 DEF _dispatch_processing_task, scan_soft_late, ProcessingTask,
         TaskName
    <3>3. CASE generate_chunks(w)
      BY <3>3 DEF generate_chunks, TaskName
    <3>4. CASE \/ scan_load(w) \/ infected_status(w) \/ infected_delete(w)
               \/ _publish_scan_failure(w) \/ error_status(w)
               \/ _publish_scan_error(w) \/ scan_soft_handled(w)
               \/ scan_soft_lost(w)
      BY <3>4 DEF scan_load, infected_status, infected_delete,
         _publish_scan_failure, error_status, _publish_scan_error,
         scan_soft_handled, scan_soft_lost
    <3> QED BY <3>1, <3>2, <3>3, <3>4 DEF scan_file
  <2>2. CASE UNCHANGED queue
    BY <2>2, QueueRest DEF GateInv
  <2>3. ASSUME NEW t \in TaskName, NEW n \in 0 .. ScanMaxRetries,
               send_task(Msg(t, m, n)), t # "scan_file" => Vetted(m)
        PROVE  QueueGated'
    <3> DEFINE msg == Msg(t, m, n)
    <3>1. msg \in Message /\ msg.model = m /\ msg.task = t
      BY <1>1 DEF Msg, Message
    <3>2. Left(m) /\ send_task(msg)
      BY <1>0, <1>1, <2>3 DEF GatedWorker
    <3> HIDE DEF msg, m
    <3> QED BY <2>3, <3>1, <3>2, QueueSend DEF GateInv
  <2>4. "scan_file" \in TaskName /\ 0 \in 0 .. ScanMaxRetries
    BY DEF TaskName, ScanMaxRetries
  <2>5. worker[w].pc \in {"scan_dispatch", "route"} => Vetted(m)
    BY <1>0, <1>1 DEF GatedWorker
  <2> QED BY <2>1, <2>2, <2>3, <2>4, <2>5
<1>6. ConfirmsGated' /\ OutputGated'
  BY <1>2, ConfirmsRest DEF GateInv, OutputGated
<1> QED BY <1>4, <1>5, <1>6 DEF GateInv

(* A conversion downloads, and outputs, what was vetted before it was sent. *)
LEMMA ConvertGate ==
    ASSUME TypeOK, Forward, GateInv, NEW w \in Workers, NEW f, NEW stages,
           Converter(w, f, stages) \/ GltfInvalid(w)
    PROVE  GateInv'
<1> DEFINE m == worker[w].model
<1>0. worker[w].pc # "idle" /\ worker[w].task = "convert"
  BY SoftEffects DEF ConvertPc, Converter, Guard, acquire_task_lock, Load,
     RunStage, StageFails, NotifyReady, dispatch_webhook_event, Release,
     EarlyRelease, handle_task_failure, FailRelease, GltfInvalid
<1>1. /\ m \in Models /\ worker[w] \in BusyWorker
      /\ Vetted(m) /\ Clean(worker[w].src)
      /\ worker[w].pc # "route"
  <2>1. worker[w] \in BusyWorker /\ m \in Models
    BY <1>0, BusyRecord DEF BusyWorker
  <2>2. GatedWorker(worker[w])
    BY DEF GateInv, WorkersGated
  <2>3. worker[w].pc # "route"
    BY SoftEffects DEF ConvertPc, Converter, Guard, acquire_task_lock, Load,
       RunStage, StageFails, NotifyReady, dispatch_webhook_event, Release,
       EarlyRelease, handle_task_failure, FailRelease, GltfInvalid
  <2> QED BY <1>0, <2>1, <2>2, <2>3 DEF GatedWorker
<1>2. UNCHANGED confirm
  BY SoftEffects DEF Converter, Guard, acquire_task_lock, Load, RunStage,
     StageFails, NotifyReady, dispatch_webhook_event, Release, EarlyRelease,
     handle_task_failure, FailRelease, GltfInvalid, apiVars
<1>a. Ack(w) => WorkersGated'
  BY AckGated DEF GateInv
<1>b. ASSUME Others(w), worker'[w].task = worker[w].task,
             worker'[w].model = m, Clean(worker'[w].src),
             worker'[w].pc \in ConvertPc \cup {"return"}
      PROVE  WorkersGated'
  BY <1>0, <1>b, GoOn DEF GateInv, ConvertPc
<1>c. ASSUME NEW pc \in ConvertPc \cup {"return"}, NEW e,
             Goto(w, pc) \/ SoftGoto(w, pc, e)
      PROVE  WorkersGated'
  BY <1>0, <1>1, <1>b, <1>c, TaskUpdates
<1>d. ASSUME NEW e, Raise(w, e)
      PROVE  WorkersGated'
  <2>1. "fail_status" \in ConvertPc
    BY DEF ConvertPc
  <2> QED BY <1>0, <1>1, <1>b, <1>d, <2>1, TaskUpdates
<1>e. ASSUME NextStage(w), worker[w].pc = "run"
      PROVE  WorkersGated'
  <2>1. "run" \in ConvertPc
    BY DEF ConvertPc
  <2> QED BY <1>0, <1>1, <1>b, <1>e, <2>1, TaskUpdates
<1>f. {"lock", "load", "release", "notify", "webhook", "early_release",
       "fail_status", "fail_publish", "fail_release", "run", "return"}
          \subseteq ConvertPc \cup {"return"}
  BY DEF ConvertPc
<1>3. CASE RunStage(w, stages)
  <2>0. worker[w].pc = "run" /\ UNCHANGED queue
    BY <1>3 DEF RunStage
  <2>1. WorkersGated'
    <3>1. CASE Download(w, m)
      <4>1. ASSUME worker' = [worker EXCEPT ![w] =
                     [worker[w] EXCEPT !.stage = worker[w].stage + 1,
                                       !.src = raw[m]]]
            PROVE  WorkersGated'
        <5>1. Others(w)
          BY <4>1 DEF TypeOK, Others
        <5>2. /\ worker'[w].pc = worker[w].pc
              /\ worker'[w].task = worker[w].task
              /\ worker'[w].model = worker[w].model
              /\ worker'[w].src = raw[m]
          BY <1>1, <4>1 DEF TypeOK, BusyWorker
        <5>3. Clean(raw[m])
          BY <1>1 DEF Vetted
        <5> QED BY <1>b, <1>f, <2>0, <5>1, <5>2, <5>3
      <4> QED BY <1>d, <3>1, <4>1 DEF Download
    <3>2. CASE UploadChunk(w, m)
      <4>1. Others(w)
        BY <3>2 DEF TypeOK, UploadChunk, Others
      <4>2. /\ worker'[w].pc = worker[w].pc
            /\ worker'[w].task = worker[w].task
            /\ worker'[w].model = worker[w].model
            /\ worker'[w].src = worker[w].src
        BY <1>1, <3>2 DEF TypeOK, UploadChunk, BusyWorker
      <4> QED BY <1>1, <1>b, <1>f, <2>0, <4>1, <4>2
    <3>3. CASE PersistMetadata(w, m)
      BY <1>d, <1>e, <2>0, <3>3 DEF PersistMetadata
    <3>4. CASE Finalize(w, m)
      BY <1>c, <1>f, <3>4 DEF Finalize
    <3>5. CASE LocalStage(w)
      BY <1>e, <2>0, <3>5 DEF LocalStage
    <3> QED BY <1>3, <3>1, <3>2, <3>3, <3>4, <3>5 DEF RunStage
  <2>2. OutputGated'
    <3>1. built' = [built EXCEPT ![m] = worker[w].src] \/ UNCHANGED built
      BY <1>3 DEF RunStage, Download, UploadChunk, PersistMetadata, Finalize,
                  LocalStage, historyVars
    <3> QED BY <1>1, <3>1 DEF GateInv, OutputGated, TypeOK
  <2> QED BY <1>2, <2>0, <2>1, <2>2, ConfirmsRest, QueueRest DEF GateInv
<1>4. ASSUME UNCHANGED built, WorkersGated', QueueGated'  PROVE GateInv'
  BY <1>2, <1>4, ConfirmsRest DEF GateInv, OutputGated
<1>5. ASSUME UNCHANGED <<built, queue>>, WorkersGated'  PROVE GateInv'
  BY <1>4, <1>5, QueueRest DEF GateInv
<1>6. CASE FailRelease(w)
  <2>1. worker[w].retries < ConvertMaxRetries
           => Msg("convert", m, worker[w].retries + 1) \in Message
    BY <1>1 DEF Msg, Message, TaskName, BusyWorker, ConvertMaxRetries,
                ScanMaxRetries
  <2>2. \/ UNCHANGED queue
        \/ /\ worker[w].retries < ConvertMaxRetries
           /\ send_task(Msg("convert", m, worker[w].retries + 1))
    BY <1>6 DEF FailRelease
  <2>3. ASSUME NEW msg \in Message, msg.model = m, send_task(msg)
        PROVE  QueueGated'
    BY <1>1, <2>3, QueueSend DEF GateInv, Vetted
  <2>4. QueueGated'
    BY <2>1, <2>2, <2>3, QueueRest DEF GateInv, Msg
  <2>5. WorkersGated' /\ UNCHANGED built
    BY <1>6, <1>c, <1>f DEF FailRelease, Return, historyVars
  <2> QED BY <1>4, <2>4, <2>5
<1>7. CASE Guard(w)
  BY <1>7, <1>5, <1>a, <1>c, <1>f DEF Guard, historyVars
<1>8. CASE acquire_task_lock(w)
  BY <1>8, <1>5, <1>a, <1>c, <1>f DEF acquire_task_lock, historyVars
<1>9. CASE Load(w)
  <2>1. ASSUME worker' = [worker EXCEPT ![w] =
                            [worker[w] EXCEPT !.pc = "run", !.stage = 1]]
        PROVE  WorkersGated'
    <3>1. /\ Others(w)
          /\ worker'[w].pc = "run"
          /\ worker'[w].task = worker[w].task
          /\ worker'[w].model = worker[w].model
          /\ worker'[w].src = worker[w].src
      BY <1>1, <2>1 DEF TypeOK, Others, BusyWorker
    <3> QED BY <1>1, <1>b, <1>f, <3>1
  <2> QED BY <1>9, <1>5, <1>a, <1>c, <1>d, <1>f, <2>1
          DEF Load, Oversize, historyVars
<1>10. CASE StageFails(w, stages)
  BY <1>10, <1>5, <1>d DEF StageFails, historyVars
<1>11. CASE SoftLimit(w) \/ GltfInvalid(w)
  <2>1. CASE SoftLimit(w)
    BY <1>5, <1>a, <1>c, <1>f, <2>1, SoftEffects DEF historyVars
  <2> QED BY <1>11, <1>5, <1>c, <1>f, <2>1 DEF GltfInvalid, historyVars
<1>12. CASE NotifyReady(w)
  BY <1>12, <1>5, <1>c, <1>f DEF NotifyReady
<1>13. CASE dispatch_webhook_event(w)
  BY <1>13, <1>5, <1>c, <1>d, <1>f DEF dispatch_webhook_event, historyVars
<1>14. CASE Release(w) \/ EarlyRelease(w)
  BY <1>14, <1>5, <1>c, <1>d, <1>f DEF Release, EarlyRelease, Return, historyVars
<1>15. CASE handle_task_failure(w)
  BY <1>15, <1>5, <1>c, <1>f DEF handle_task_failure, AfterFailure, historyVars
<1> QED
  BY <1>3, <1>6, <1>7, <1>8, <1>9, <1>10, <1>11, <1>12, <1>13, <1>14, <1>15
  DEF Converter

(* The requests: a confirm sends the scan of a model that it has just      *)
(* taken out of "pending".                                                 *)
LEMMA ApiGate ==
    ASSUME TypeOK, Forward, GateInv,
           \/ \E m \in Models : initiate_upload(m) \/ upload_local_file(m)
                                  \/ delete_model(m)
           \/ \E r \in Requests : confirm_upload(r)
    PROVE  GateInv'
<1>1. UNCHANGED <<worker, built>>
  BY DEF initiate_upload, upload_local_file, delete_model, delete_select,
         delete_raw_object, delete_processed_objects, delete_row,
         confirm_upload, confirm_select, confirm_verify, confirm_commit,
         confirm_enqueue, historyVars
<1>2. WorkersGated' /\ OutputGated'
  BY <1>1, WorkersRest DEF GateInv, OutputGated
<1>3. CASE \E m \in Models : initiate_upload(m) \/ upload_local_file(m)
                               \/ delete_model(m)
  <2>1. UNCHANGED <<confirm, queue>>
    BY <1>3 DEF initiate_upload, upload_local_file, delete_model,
       delete_select, delete_raw_object, delete_processed_objects, delete_row,
       apiVars
  <2> QED BY <1>2, <2>1, ConfirmsRest, QueueRest DEF GateInv
<1>4. ASSUME NEW r \in Requests, confirm_upload(r)  PROVE GateInv'
  <2> DEFINE m == confirm[r].model
  <2>0. /\ confirm \in [Requests -> [pc : ConfirmPc,
                                     model : Models \cup {NoModel}]]
        /\ confirm[r].pc # "idle" => m \in Models
        /\ confirm[r].pc = "enqueue" => Left(m)
    BY DEF TypeOK, GateInv, ConfirmsGated
  <2>a. ASSUME \A q \in Requests : q # r => confirm'[q] = confirm[q],
               confirm'[r].pc # "idle" =>
                   /\ confirm'[r].model \in Models
                   /\ confirm'[r].pc = "enqueue"
                          => status'[confirm'[r].model]
                                 \notin {"absent", "pending"}
        PROVE  ConfirmsGated'
    <3> SUFFICES ASSUME NEW q \in Requests, confirm'[q].pc # "idle"
                 PROVE  /\ confirm'[q].model \in Models
                        /\ confirm'[q].pc = "enqueue"
                               => Left(confirm[q].model)'
      BY DEF ConfirmsGated
    <3>1. CASE q = r
      BY <2>a, <3>1 DEF Left
    <3>2. CASE q # r
      BY <2>a, <3>2 DEF GateInv, ConfirmsGated, Forward, Left
    <3> QED BY <3>1, <3>2
  <2>b. EndRequest(r) => ConfirmsGated'
    BY <2>0, <2>a DEF EndRequest
  <2>1. ASSUME NEW n \in Models, confirm_select(r, n)  PROVE GateInv'
    <3>1. ConfirmsGated'
      BY <2>0, <2>1, <2>a DEF confirm_select
    <3> QED BY <1>2, <2>1, <3>1, QueueRest DEF GateInv, confirm_select
  <2>2. CASE confirm_verify(r)
    <3>1. \/ confirm' = [confirm EXCEPT ![r].pc = "commit"]
          \/ EndRequest(r)
      BY <2>2 DEF confirm_verify
    <3>2. m \in Models
      BY <2>0, <2>2 DEF confirm_verify
    <3>3. ASSUME confirm' = [confirm EXCEPT ![r].pc = "commit"]
          PROVE  ConfirmsGated'
      <4>1. /\ \A q \in Requests : q # r => confirm'[q] = confirm[q]
            /\ confirm'[r].model = m /\ confirm'[r].pc = "commit"
        BY <2>0, <3>3
      <4>2. confirm'[r].model \in Models /\ confirm'[r].pc # "enqueue"
        BY <3>2, <4>1
      <4> QED BY <2>a, <4>1, <4>2
    <3>4. ConfirmsGated'
      BY <2>b, <3>1, <3>3
    <3> QED BY <1>2, <2>2, <3>4, QueueRest DEF GateInv, confirm_verify
  <2>3. CASE confirm_commit(r)
    <3>1. \/ HasRow(m) /\ confirm' = [confirm EXCEPT ![r].pc = "enqueue"]
          \/ EndRequest(r)
      BY <2>3 DEF confirm_commit
    <3>2. m \in Models /\ update_model_status(m, "processing")
      BY <2>0, <2>3 DEF confirm_commit
    <3>3. ASSUME HasRow(m), confirm' = [confirm EXCEPT ![r].pc = "enqueue"]
          PROVE  ConfirmsGated'
      <4>1. status'[m] = "processing"
        BY <3>2, <3>3 DEF TypeOK, update_model_status
      <4>2. /\ \A q \in Requests : q # r => confirm'[q] = confirm[q]
            /\ confirm'[r].model = m
        BY <2>0, <3>3
      <4>3. /\ confirm'[r].model \in Models
            /\ status'[confirm'[r].model] \notin {"absent", "pending"}
        BY <3>2, <4>1, <4>2
      <4> QED BY <2>a, <4>2, <4>3
    <3>4. ConfirmsGated'
      BY <2>b, <3>1, <3>3
    <3> QED BY <1>2, <2>3, <3>4, QueueRest DEF GateInv, confirm_commit
  <2>4. CASE confirm_enqueue(r)
    <3>1. m \in Models /\ Left(m)
      BY <2>0, <2>4 DEF confirm_enqueue
    <3> DEFINE msg == Msg("scan_file", m, 0)
    <3>2. msg \in Message /\ msg.model = m /\ msg.task = "scan_file"
      BY <3>1 DEF Msg, Message, TaskName, ScanMaxRetries
    <3>3. send_task(msg) \/ UNCHANGED queue
      BY <2>4 DEF confirm_enqueue
    <3>4. ConfirmsGated'
      BY <2>4, <2>b DEF confirm_enqueue
    <3> HIDE DEF msg, m
    <3>5. QueueGated'
      BY <3>1, <3>2, <3>3, QueueSend, QueueRest DEF GateInv
    <3> QED BY <1>2, <3>4, <3>5 DEF GateInv
  <2> QED BY <1>4, <2>1, <2>2, <2>3, <2>4 DEF confirm_upload
<1> QED BY <1>3, <1>4

(* Delivery, loss of processes, lock expiry and the sweeper: a message     *)
(* that returns to the broker was taken from it.                           *)
LEMMA EnvironmentGate ==
    ASSUME TypeOK, Forward, GateInv,
           \/ \E m \in Models : LockExpire(m)
           \/ \E w \in Workers : \/ \E msg \in Message : Take(w, msg)
                                 \/ AckLate(w)
                                 \/ Crash(w)
                                 \/ HardLimit(w)
           \/ cleanup_abandoned_uploads
    PROVE  GateInv'
<1>1. ASSUME UNCHANGED <<confirm, built>>, WorkersGated', QueueGated'
      PROVE  GateInv'
  BY <1>1, ConfirmsRest DEF GateInv, OutputGated
<1>2. ASSUME UNCHANGED queue  PROVE QueueGated'
  BY <1>2, QueueRest DEF GateInv
<1>3. CASE (\E m \in Models : LockExpire(m)) \/ cleanup_abandoned_uploads
  <2>1. UNCHANGED <<worker, confirm, built, queue>>
    BY <1>3 DEF LockExpire, cleanup_abandoned_uploads, sweep_select,
       sweep_fail, sweep_delete, apiVars, historyVars
  <2> QED BY <1>1, <1>2, <2>1, WorkersRest DEF GateInv
<1>4. ASSUME NEW w \in Workers, AckLate(w) \/ HardLimit(w)  PROVE GateInv'
  <2>1. Ack(w) /\ UNCHANGED <<confirm, built, queue>>
    BY <1>4 DEF AckLate, HardLimit, apiVars, historyVars
  <2> QED BY <1>1, <1>2, <2>1, AckGated DEF GateInv
<1>5. ASSUME NEW w \in Workers, Crash(w)  PROVE GateInv'
  <2> DEFINE msg == Msg(worker[w].task, worker[w].model, worker[w].retries)
  <2>1. worker[w] \in BusyWorker /\ worker[w].pc # "idle"
    BY <1>5, BusyRecord DEF Crash
  <2>2. /\ msg \in Message /\ msg.model = worker[w].model
        /\ msg.task = worker[w].task
    BY <2>1 DEF Msg, Message, BusyWorker
  <2>3. /\ send_task(msg) /\ Ack(w)
        /\ UNCHANGED <<confirm, built>>
    BY <1>5 DEF Crash, apiVars, historyVars
  <2>4. /\ Left(worker[w].model)
        /\ worker[w].task # "scan_file" => Vetted(worker[w].model)
    BY <2>1 DEF GateInv, WorkersGated, GatedWorker
  <2> HIDE DEF msg
  <2>5. QueueGated'
    BY <2>2, <2>3, <2>4, QueueSend DEF GateInv
  <2> QED BY <1>1, <2>3, <2>5, AckGated DEF GateInv
<1>6. ASSUME NEW w \in Workers, NEW msg \in Message, Take(w, msg)
      PROVE  GateInv'
  <2> DEFINE rec == [Idle EXCEPT !.pc = StartPc(msg.task), !.task = msg.task,
                                 !.model = msg.model, !.retries = msg.retries]
  <2>1. /\ worker' = [worker EXCEPT ![w] = rec]
        /\ UNCHANGED <<confirm, built>>
    BY <1>6 DEF Take, apiVars, historyVars
  <2>2. /\ rec.task = msg.task /\ rec.model = msg.model /\ rec.src = "none"
        /\ rec.pc \in {"scan_load", "route", "guard"}
        /\ rec.pc = "route" => msg.task # "scan_file"
    BY DEF StartPc, Message, TaskName, Idle
  <2>3. msg.model \in Models
    BY DEF Message
  <2>4. Left(msg.model) /\ (msg.task # "scan_file" => Vetted(msg.model))
    BY <1>6 DEF Take, GateInv, QueueGated
  <2> HIDE DEF rec
  <2>5. Others(w) /\ worker'[w] = rec
    BY <2>1 DEF TypeOK, Others
  <2>6. GatedWorker(worker[w])'
    BY <2>2, <2>3, <2>4, <2>5 DEF GatedWorker, Forward, Left, Vetted, Clean
  <2>7. WorkersGated'
    BY <2>5, <2>6, OthersGated DEF GateInv
  <2>8. \A n \in Message : queue'[n] > 0 => queue[n] > 0
    BY <1>6 DEF TypeOK, Take
  <2>9. QueueGated'
    BY <2>8, QueueRest DEF GateInv
  <2> QED BY <1>1, <2>1, <2>7, <2>9
<1> QED BY <1>3, <1>4, <1>5, <1>6

(* Every step keeps the gate closed.                                       *)
LEMMA NextGate ==
    ASSUME TypeOK, GateInv, [Next]_vars
    PROVE  GateInv'
<1>0. Forward
  BY NextForward
<1>1. CASE UNCHANGED vars
  BY <1>0, <1>1, WorkersRest, ConfirmsRest, QueueRest
  DEF GateInv, OutputGated, vars, apiVars, historyVars
<1>2. ASSUME NEW w \in Workers, Tasks(w)  PROVE GateInv'
  BY <1>0, <1>2, ScanGate, ConvertGate, EnvironmentGate
  DEF Tasks, process_model, process_gltf, process_step, process_obj, process_stl
<1> QED BY <1>0, <1>1, <1>2, ApiGate, EnvironmentGate DEF Next

(***************************************************************************)
(* For clients that upload before they confirm, no ready model was made    *)
(* from an infected file: for any number of models, workers and requests,  *)
(* any duplicate, redelivered or retried task, and any fault.              *)
(***************************************************************************)
THEOREM GateHolds ==
    ASSUME "late_put" \notin Enabled
    PROVE  Spec => []InfectedNeverReady
<1>1. Init => GateInv
  BY DEF Init, GateInv, WorkersGated, GatedWorker, ConfirmsGated, QueueGated,
     OutputGated, Clean, Idle
<1>2. TypeOK /\ GateInv /\ [Next]_vars => GateInv'
  BY NextGate
<1>3. GateInv => InfectedNeverReady
  BY DEF GateInv, OutputGated, Clean, InfectedNeverReady
<1> QED BY <1>1, <1>2, <1>3, TypeCorrect, PTL DEF Spec

-----------------------------------------------------------------------------
(* Completeness.  A converter that is past a stage has left that stage's   *)
(* output behind, and nothing takes it away but a deletion.                *)

(* Where the upload stands in the stages of each format; the metadata and  *)
(* the final UPDATE follow it.                                             *)
UploadStage ==
    [f \in AllFormats |-> CASE f = "ifc"  -> 7
                            [] f = "gltf" -> 6
                            [] f = "step" -> 8
                            [] f = "obj"  -> 7
                            [] f = "stl"  -> 9]

(* The processed objects are, or will be, deleted with the row.            *)
Gone(m) == status[m] = "deleted" \/ removal[m].pc = "row"

(* What the record x of a worker says about the output of model m.         *)
OutputSoFar(x) ==
    LET m == x.model
        u == UploadStage[fmt[m]]
    IN
    /\ fmt[m] \in AllFormats
    /\ x.stage \in 1 .. u + 2
    /\ x.stage < u => x.chunk = 0
    /\ x.stage = u => x.chunk < NChunks
    /\ x.stage > u => x.chunk = NChunks
    /\ ~Gone(m) => 1 .. x.chunk \subseteq chunks[m]
    /\ x.stage = u + 2 /\ status[m] # "deleted" => meta[m] = "set"

OnTrack(x) ==
    /\ x.pc \in {"guard", "lock", "load"} => x.chunk = 0
    /\ x.pc = "run" => OutputSoFar(x)

WorkersOnTrack == \A w \in Workers : OnTrack(worker[w])

Complete(m) ==
    /\ prefix[m] = "set"
    /\ meta[m] = "set"
    /\ ~Gone(m) => 1 .. NChunks \subseteq chunks[m]

RowsComplete ==
    \A m \in Models : /\ chunks[m] \subseteq 1 .. NChunks
                      /\ status[m] = "ready" => Complete(m)

OutputInv == WorkersOnTrack /\ RowsComplete

(* What a step may do to the output of a model that was confirmed.         *)
Kept ==
    \A m \in Models :
        Left(m) =>
            /\ fmt'[m] = fmt[m]
            /\ Gone(m) => Gone(m)'
            /\ ~Gone(m)' => chunks[m] \subseteq chunks'[m]
            /\ status'[m] # "deleted" =>
                   /\ status[m] # "deleted"
                   /\ meta[m] = "set" => meta'[m] = "set"
                   /\ prefix[m] = "set" => prefix'[m] = "set"

(* The UPDATE of a status keeps the output.                                *)
LEMMA UpdateKept ==
    ASSUME TypeOK, NEW n, NEW s \in {"processing", "ready", "failed"},
           update_model_status(n, s), UNCHANGED <<fmt, removal>>,
           \A m \in Models : /\ chunks[m] \subseteq chunks'[m]
                             /\ meta[m] = "set" => meta'[m] = "set"
                             /\ prefix[m] = "set" => prefix'[m] = "set"
    PROVE  Kept
  BY DEF TypeOK, Kept, Left, Gone, update_model_status, HasRow

(* A step that leaves the rows and the deletions alone keeps the output.   *)
LEMMA StillKept ==
    ASSUME TypeOK, UNCHANGED <<status, fmt, prefix, removal>>,
           \A m \in Models : /\ chunks[m] \subseteq chunks'[m]
                             /\ meta[m] = "set" => meta'[m] = "set"
    PROVE  Kept
  BY DEF Kept, Left, Gone

(* Every step keeps the output of confirmed models.                        *)
LEMMA NextKept ==
    ASSUME TypeOK, [Next]_vars
    PROVE  Kept
<1> USE DEF rowVars, storageVars, historyVars, apiVars
<1>1. CASE UNCHANGED vars
  BY <1>1, StillKept DEF vars
<1>2. ASSUME NEW m \in Models, initiate_upload(m)  PROVE Kept
  BY <1>2 DEF TypeOK, initiate_upload, Kept, Left, Gone
<1>3. ASSUME NEW m \in Models, upload_local_file(m)  PROVE Kept
  BY <1>3, StillKept DEF upload_local_file
<1>4. ASSUME NEW m \in Models, delete_model(m)  PROVE Kept
  <2>1. CASE delete_select(m)
    BY <2>1 DEF TypeOK, delete_select, HasRow, Kept, Left, Gone
  <2>2. CASE delete_raw_object(m)
    BY <2>2 DEF TypeOK, delete_raw_object, Kept, Left, Gone
  <2>3. CASE delete_processed_objects(m)
    BY <2>3 DEF TypeOK, delete_processed_objects, Kept, Left, Gone
  <2>4. CASE delete_row(m)
    BY <2>4 DEF TypeOK, delete_row, Kept, Left, Gone
  <2> QED BY <1>4, <2>1, <2>2, <2>3, <2>4 DEF delete_model
<1>5. ASSUME NEW m \in Models, LockExpire(m)  PROVE Kept
  BY <1>5, StillKept DEF LockExpire
<1>6. ASSUME NEW r \in Requests, confirm_upload(r)  PROVE Kept
  <2>1. CASE confirm_verify(r)
    BY <2>1, UpdateKept, StillKept DEF confirm_verify
  <2>2. CASE confirm_commit(r)
    BY <2>2, UpdateKept DEF confirm_commit
  <2> QED BY <1>6, <2>1, <2>2, StillKept
          DEF confirm_upload, confirm_select, confirm_enqueue
<1>7. CASE cleanup_abandoned_uploads
  <2>1. CASE sweep_fail
    BY <2>1, UpdateKept DEF sweep_fail
  <2> QED BY <1>7, <2>1, StillKept
          DEF cleanup_abandoned_uploads, sweep_select, sweep_delete
<1>8. ASSUME NEW w \in Workers, NEW msg \in Message, Take(w, msg)
      PROVE  Kept
  BY <1>8, StillKept DEF Take
<1>9. ASSUME NEW w \in Workers, Crash(w) \/ HardLimit(w) \/ AckLate(w)
      PROVE  Kept
  BY <1>9, StillKept DEF Crash, HardLimit, AckLate
<1>10. ASSUME NEW w \in Workers, scan_file(w) \/ generate_chunks(w)
       PROVE  Kept
  <2>1. CASE infected_status(w) \/ error_status(w)
    BY <2>1, UpdateKept, StillKept DEF infected_status, error_status
  <2>2. CASE scan_load(w) \/ scan_run(w) \/ _dispatch_processing_task(w)
    BY <2>2, StillKept DEF scan_load, scan_run, _dispatch_processing_task
  <2>3. CASE \/ infected_delete(w) \/ _publish_scan_failure(w)
             \/ _publish_scan_error(w) \/ generate_chunks(w)
    BY <2>3, StillKept DEF infected_delete, _publish_scan_failure,
       _publish_scan_error, generate_chunks
  <2>4. CASE scan_soft_handled(w) \/ scan_soft_lost(w) \/ scan_soft_late(w)
    BY <2>4, StillKept DEF scan_soft_handled, scan_soft_lost, scan_soft_late
  <2> QED BY <1>10, <2>1, <2>2, <2>3, <2>4 DEF scan_file
<1>11. ASSUME NEW w \in Workers, NEW f, NEW stages, Converter(w, f, stages)
       PROVE  Kept
  <2>1. CASE RunStage(w, stages)
    <3>0. UNCHANGED removal
      BY <2>1 DEF RunStage
    <3>1. CASE Download(w, worker[w].model) \/ LocalStage(w)
      BY <3>0, <3>1, StillKept DEF Download, LocalStage
    <3>2. CASE UploadChunk(w, worker[w].model)
      <4>1. \A m \in Models : chunks[m] \subseteq chunks'[m]
        BY <3>2 DEF TypeOK, UploadChunk
      <4> QED BY <3>0, <3>2, <4>1, StillKept DEF UploadChunk
    <3>3. CASE PersistMetadata(w, worker[w].model)
      <4>1. \A m \in Models : meta[m] = "set" => meta'[m] = "set"
        BY <3>3 DEF TypeOK, PersistMetadata
      <4> QED BY <3>0, <3>3, <4>1, StillKept DEF PersistMetadata
    <3>4. CASE Finalize(w, worker[w].model)
      <4>1. \A m \in Models : prefix[m] = "set" => prefix'[m] = "set"
        BY <3>4 DEF TypeOK, Finalize
      <4> QED BY <3>0, <3>4, <4>1, UpdateKept DEF Finalize
    <3> QED BY <2>1, <3>1, <3>2, <3>3, <3>4 DEF RunStage
  <2>2. CASE handle_task_failure(w)
    BY <2>2, UpdateKept, StillKept DEF handle_task_failure
  <2>3. CASE \/ Guard(w) \/ acquire_task_lock(w) \/ Load(w)
             \/ StageFails(w, stages) \/ SoftLimit(w)
    BY <2>3, StillKept DEF Guard, acquire_task_lock, Load, StageFails, SoftLimit
  <2>4. CASE \/ NotifyReady(w) \/ dispatch_webhook_event(w) \/ Release(w)
             \/ EarlyRelease(w) \/ FailRelease(w)
    BY <2>4, StillKept DEF NotifyReady, dispatch_webhook_event, Release,
       EarlyRelease, FailRelease
  <2> QED BY <1>11, <2>1, <2>2, <2>3, <2>4 DEF Converter
<1>12. ASSUME NEW w \in Workers, GltfInvalid(w)  PROVE Kept
  BY <1>12, StillKept DEF GltfInvalid
<1>13. ASSUME NEW w \in Workers, Tasks(w)  PROVE Kept
  BY <1>9, <1>10, <1>11, <1>12, <1>13
  DEF Tasks, process_model, process_gltf, process_step, process_obj, process_stl
<1> QED
  BY <1>1, <1>2, <1>3, <1>4, <1>5, <1>6, <1>7, <1>8, <1>9, <1>13 DEF Next

-----------------------------------------------------------------------------
(* The parts of the invariant, each under the steps that touch it.         *)

(* A worker that does not move stays on track.                             *)
LEMMA StaysOnTrack ==
    ASSUME TypeOK, GateInv, Forward, Kept, WorkersOnTrack, NEW v \in Workers,
           worker'[v] = worker[v]
    PROVE  OnTrack(worker[v])'
<1>1. OnTrack(worker[v])
  BY DEF WorkersOnTrack
<1>2. CASE worker[v].pc # "run"
  BY <1>1, <1>2 DEF OnTrack
<1>3. CASE worker[v].pc = "run"
  <2> DEFINE m == worker[v].model
  <2>1. m \in Models
    BY <1>3, BusyRecord DEF BusyWorker
  <2>2. Left(m)
    BY <1>3 DEF GateInv, WorkersGated, GatedWorker
  <2>3. /\ fmt'[m] = fmt[m]
        /\ ~Gone(m)' => ~Gone(m) /\ chunks[m] \subseteq chunks'[m]
        /\ status'[m] # "deleted" =>
               status[m] # "deleted" /\ (meta[m] = "set" => meta'[m] = "set")
    BY <2>1, <2>2 DEF Kept
  <2>4. OutputSoFar(worker[v])
    BY <1>1, <1>3 DEF OnTrack
  <2>5. ~Gone(m)' => 1 .. worker[v].chunk \subseteq chunks'[m]
    BY <2>3, <2>4 DEF OutputSoFar
  <2>6. worker[v].stage = UploadStage[fmt[m]] + 2 /\ status'[m] # "deleted"
           => meta'[m] = "set"
    BY <2>3, <2>4 DEF OutputSoFar
  <2>7. OutputSoFar(worker[v])'
    BY <2>3, <2>4, <2>5, <2>6 DEF OutputSoFar, Gone, UploadStage
  <2> QED BY <1>3, <2>7 DEF OnTrack
<1> QED BY <1>2, <1>3

(* The workers stay on track if the one that moves does.                   *)
LEMMA OthersOnTrack ==
    ASSUME TypeOK, GateInv, Forward, Kept, WorkersOnTrack, NEW w \in Workers,
           Others(w), OnTrack(worker[w])'
    PROVE  WorkersOnTrack'
<1> SUFFICES ASSUME NEW v \in Workers  PROVE OnTrack(worker[v])'
  BY DEF WorkersOnTrack
<1>1. CASE v = w
  BY <1>1
<1>2. CASE v # w
  BY <1>2, StaysOnTrack DEF Others
<1> QED BY <1>1, <1>2

(* A worker that leaves the try block, or has not entered it, is on track. *)
LEMMA StepOnTrack ==
    ASSUME TypeOK, GateInv, Forward, Kept, WorkersOnTrack, NEW w \in Workers,
           Others(w),
           worker'[w].pc \in {"guard", "lock", "load"} => worker'[w].chunk = 0,
           worker'[w].pc # "run"
    PROVE  WorkersOnTrack'
<1>1. OnTrack(worker[w])'
  BY DEF OnTrack
<1> QED BY <1>1, OthersOnTrack

(* No worker moves.                                                        *)
LEMMA RestOnTrack ==
    ASSUME TypeOK, GateInv, Forward, Kept, WorkersOnTrack, UNCHANGED worker
    PROVE  WorkersOnTrack'
<1> SUFFICES ASSUME NEW v \in Workers  PROVE OnTrack(worker[v])'
  BY DEF WorkersOnTrack
<1> QED BY StaysOnTrack

(* A step that stores no chunk and makes no model ready.                   *)
LEMMA RowsRest ==
    ASSUME Kept, RowsComplete,
           \A m \in Models : /\ chunks'[m] \subseteq chunks[m]
                             /\ status'[m] = "ready" => status[m] = "ready"
    PROVE  RowsComplete'
<1> SUFFICES ASSUME NEW m \in Models
             PROVE  /\ chunks'[m] \subseteq 1 .. NChunks
                    /\ status'[m] = "ready" => Complete(m)'
  BY DEF RowsComplete
<1>1. chunks'[m] \subseteq 1 .. NChunks
  BY DEF RowsComplete
<1>2. ASSUME status'[m] = "ready"  PROVE Complete(m)'
  <2>1. status[m] = "ready" /\ Complete(m) /\ Left(m)
    BY <1>2 DEF RowsComplete, Left
  <2>2. /\ prefix'[m] = "set" /\ meta'[m] = "set"
        /\ ~Gone(m)' => ~Gone(m) /\ chunks[m] \subseteq chunks'[m]
    BY <1>2, <2>1 DEF Kept, Complete
  <2> QED BY <2>1, <2>2 DEF Complete
<1> QED BY <1>1, <1>2

(* The UPDATE to any other status makes no model ready.                    *)
LEMMA UpdateNotReady ==
    ASSUME TypeOK, NEW n, NEW s \in {"processing", "failed"},
           update_model_status(n, s)
    PROVE  \A m \in Models : status'[m] = "ready" => status[m] = "ready"
  BY DEF TypeOK, update_model_status

-----------------------------------------------------------------------------
(* The steps.                                                              *)

(* A worker whose message is acknowledged is on track.                     *)
LEMMA AckOnTrack ==
    ASSUME TypeOK, GateInv, Forward, Kept, WorkersOnTrack, NEW w \in Workers,
           Ack(w)
    PROVE  WorkersOnTrack'
<1>1. Others(w) /\ worker'[w] = Idle
  BY DEF TypeOK, Ack, Others
<1> QED BY <1>1, StepOnTrack DEF Idle

(* The scan and the router output nothing.                                 *)
LEMMA ScanOutput ==
    ASSUME TypeOK, GateInv, Forward, Kept, OutputInv, NEW w \in Workers,
           scan_file(w) \/ generate_chunks(w)
    PROVE  OutputInv'
<1>1. UNCHANGED chunks
  BY DEF scan_file, generate_chunks, scan_load, scan_run,
         _dispatch_processing_task, infected_status, infected_delete,
         _publish_scan_failure, error_status, _publish_scan_error,
         scan_soft_handled, scan_soft_lost, scan_soft_late, storageVars
<1>2. UNCHANGED status \/ update_model_status(worker[w].model, "failed")
  BY DEF scan_file, generate_chunks, scan_load, scan_run,
         _dispatch_processing_task, infected_status, infected_delete,
         _publish_scan_failure, error_status, _publish_scan_error,
         scan_soft_handled, scan_soft_lost, scan_soft_late, rowVars
<1>3. RowsComplete'
  BY <1>1, <1>2, UpdateNotReady, RowsRest DEF OutputInv
<1>4. /\ worker[w].pc # "idle"
      /\ Ack(w) \/ \E pc \in ScanPc \cup {"return"} :
                       Goto(w, pc) \/ SoftGoto(w, pc, "none")
  BY DEF scan_file, generate_chunks, scan_load, scan_run, scan_retry,
         _dispatch_processing_task, infected_status, infected_delete,
         _publish_scan_failure, error_status, _publish_scan_error,
         scan_soft_handled, scan_soft_lost, scan_soft_late, Return, ScanPc
<1>5. CASE Ack(w)
  BY <1>3, <1>5, AckOnTrack DEF OutputInv
<1>6. ASSUME NEW pc \in ScanPc \cup {"return"},
             Goto(w, pc) \/ SoftGoto(w, pc, "none")
      PROVE  OutputInv'
  <2>1. Others(w) /\ worker'[w].pc = pc
    BY <1>4, <1>6, TaskUpdates
  <2>2. pc \notin {"guard", "lock", "load", "run"}
    BY DEF ScanPc
  <2> QED BY <1>3, <2>1, <2>2, StepOnTrack DEF OutputInv
<1> QED BY <1>4, <1>5, <1>6

(* The requests, delivery, loss of processes and the sweeper output        *)
(* nothing, and a task starts with its first chunk.                        *)
LEMMA OtherOutput ==
    ASSUME TypeOK, GateInv, Forward, Kept, OutputInv,
           \/ \E m \in Models : \/ initiate_upload(m) \/ upload_local_file(m)
                                \/ delete_model(m) \/ LockExpire(m)
           \/ \E r \in Requests : confirm_upload(r)
           \/ \E w \in Workers : \/ \E msg \in Message : Take(w, msg)
                                 \/ AckLate(w)
                                 \/ Crash(w)
                                 \/ HardLimit(w)
           \/ cleanup_abandoned_uploads
    PROVE  OutputInv'
<1> USE DEF rowVars, storageVars
<1>0. ASSUME UNCHANGED <<status, chunks>>, WorkersOnTrack'  PROVE OutputInv'
  BY <1>0, RowsRest DEF OutputInv
<1>a. ASSUME UNCHANGED worker,
             \A m \in Models : /\ chunks'[m] \subseteq chunks[m]
                               /\ status'[m] = "ready" => status[m] = "ready"
      PROVE  OutputInv'
  BY <1>a, RestOnTrack, RowsRest DEF OutputInv
<1>b. ASSUME UNCHANGED <<worker, chunks>>, NEW n,
             NEW s \in {"processing", "failed"}, update_model_status(n, s)
      PROVE  OutputInv'
  BY <1>a, <1>b, UpdateNotReady
<1>1. ASSUME NEW m \in Models,
             \/ initiate_upload(m) \/ upload_local_file(m) \/ LockExpire(m)
      PROVE  OutputInv'
  BY <1>1, <1>a DEF TypeOK, initiate_upload, upload_local_file, LockExpire
<1>2. ASSUME NEW m \in Models, delete_model(m)  PROVE OutputInv'
  <2>1. UNCHANGED worker
    BY <1>2 DEF delete_model, delete_select, delete_raw_object,
       delete_processed_objects, delete_row
  <2>2. \A n \in Models : chunks'[n] \subseteq chunks[n]
    BY <1>2 DEF TypeOK, delete_model, delete_select, delete_raw_object,
       delete_processed_objects, delete_row
  <2>3. \A n \in Models : status'[n] = "ready" => status[n] = "ready"
    BY <1>2 DEF TypeOK, delete_model, delete_select, delete_raw_object,
       delete_processed_objects, delete_row
  <2> QED BY <1>a, <2>1, <2>2, <2>3
<1>3. ASSUME NEW r \in Requests, confirm_upload(r)  PROVE OutputInv'
  <2>1. CASE confirm_verify(r)
    BY <2>1, <1>a, <1>b DEF confirm_verify
  <2>2. CASE confirm_commit(r)
    BY <2>2, <1>b DEF confirm_commit
  <2> QED BY <1>3, <1>a, <2>1, <2>2
          DEF confirm_upload, confirm_select, confirm_enqueue
<1>4. CASE cleanup_abandoned_uploads
  <2>1. CASE sweep_fail
    BY <2>1, <1>b DEF sweep_fail
  <2> QED BY <1>4, <1>a, <2>1
          DEF cleanup_abandoned_uploads, sweep_select, sweep_delete
<1>5. ASSUME NEW w \in Workers, AckLate(w) \/ Crash(w) \/ HardLimit(w)
      PROVE  OutputInv'
  BY <1>0, <1>5, AckOnTrack DEF AckLate, Crash, HardLimit, OutputInv
<1>6. ASSUME NEW w \in Workers, NEW msg \in Message, Take(w, msg)
      PROVE  OutputInv'
  <2> DEFINE rec == [Idle EXCEPT !.pc = StartPc(msg.task), !.task = msg.task,
                                 !.model = msg.model, !.retries = msg.retries]
  <2>1. worker' = [worker EXCEPT ![w] = rec] /\ UNCHANGED <<status, chunks>>
    BY <1>6 DEF Take
  <2>2. rec.pc # "run" /\ rec.chunk = 0
    BY DEF StartPc, Message, TaskName, Idle
  <2> HIDE DEF rec
  <2>3. Others(w) /\ worker'[w] = rec
    BY <2>1 DEF TypeOK, Others
  <2> QED BY <1>0, <2>1, <2>2, <2>3, StepOnTrack DEF OutputInv
<1> QED BY <1>1, <1>2, <1>3, <1>4, <1>5, <1>6

(* The formats and the stages of their converters.                         *)
Stages == {<<"ifc", IfcStages>>, <<"gltf", GltfStages>>, <<"step", StepStages>>,
           <<"obj", ObjStages>>, <<"stl", StlStages>>}

(* Every converter uploads, then writes the metadata, then finalizes.      *)
LEMMA StageOrder ==
    ASSUME NEW f, NEW stages, <<f, stages>> \in Stages
    PROVE  /\ f \in AllFormats
           /\ UploadStage[f] \in Nat /\ UploadStage[f] > 1
           /\ \A i \in 1 .. UploadStage[f] + 2 :
                 /\ stages[i] = "upload" <=> i = UploadStage[f]
                 /\ stages[i] = "metadata" <=> i = UploadStage[f] + 1
                 /\ stages[i] = "finalize" <=> i = UploadStage[f] + 2
<1>1. CASE f = "ifc" /\ stages = IfcStages
  BY <1>1 DEF AllFormats, UploadStage, IfcStages
<1>2. CASE f = "gltf" /\ stages = GltfStages
  BY <1>2 DEF AllFormats, UploadStage, GltfStages
<1>3. CASE f = "step" /\ stages = StepStages
  BY <1>3 DEF AllFormats, UploadStage, StepStages
<1>4. CASE f = "obj" /\ stages = ObjStages
  BY <1>4 DEF AllFormats, UploadStage, ObjStages
<1>5. CASE f = "stl" /\ stages = StlStages
  BY <1>5 DEF AllFormats, UploadStage, StlStages
<1> QED BY <1>1, <1>2, <1>3, <1>4, <1>5 DEF Stages

(* The chunk that a worker in the try block has reached does not change    *)
(* with any other field.                                                   *)
LEMMA FieldUpdates ==
    ASSUME TypeOK, NEW w \in Workers, worker[w].pc # "idle"
    PROVE  /\ \A pc : Goto(w, pc) => worker'[w].chunk = worker[w].chunk
           /\ \A pc, e : SoftGoto(w, pc, e)
                 => worker'[w].chunk = worker[w].chunk
           /\ NextStage(w) => /\ worker'[w].chunk = worker[w].chunk
                              /\ worker'[w].stage = worker[w].stage + 1
<1>1. worker[w] \in BusyWorker /\ worker \in [Workers -> Worker]
  BY BusyRecord DEF TypeOK
<1>2. ASSUME NEW pc, Goto(w, pc)  PROVE worker'[w].chunk = worker[w].chunk
  BY <1>1, <1>2 DEF Goto, BusyWorker
<1>3. ASSUME NextStage(w)
      PROVE  /\ worker'[w].chunk = worker[w].chunk
             /\ worker'[w].stage = worker[w].stage + 1
  BY <1>1, <1>3 DEF NextStage, BusyWorker
<1>4. ASSUME NEW pc, NEW e, SoftGoto(w, pc, e)
      PROVE  worker'[w].chunk = worker[w].chunk
  BY <1>1, <1>4 DEF SoftGoto, BusyWorker
<1> QED BY <1>2, <1>3, <1>4

(* A stage leaves its output behind; the last one finds all of it.         *)
LEMMA StageOutput ==
    ASSUME TypeOK, GateInv, Forward, Kept, OutputInv, NEW w \in Workers,
           NEW f, NEW stages, <<f, stages>> \in Stages,
           fmt[worker[w].model] = f, RunStage(w, stages)
    PROVE  OutputInv'
<1>m. worker[w].pc = "run" /\ worker[w].model \in Models
  <2>1. worker[w].pc = "run"
    BY DEF RunStage
  <2> QED BY <2>1, BusyRecord DEF BusyWorker
<1>n. PICK m \in Models : m = worker[w].model
  BY <1>m
<1> DEFINE u == UploadStage[f]
           i == worker[w].stage
           c == worker[w].chunk
<1>1. /\ worker[w].pc = "run" /\ worker[w].pc # "idle"
      /\ UNCHANGED removal
  BY DEF RunStage, apiVars
<1>2. worker[w] \in BusyWorker /\ m \in Models /\ i \in Nat /\ c \in Nat
  BY <1>1, <1>n, BusyRecord DEF BusyWorker
<1>3. Left(m)
  BY <1>1, <1>n DEF GateInv, WorkersGated, GatedWorker
<1>4. /\ i \in 1 .. u + 2
      /\ i < u => c = 0
      /\ i = u => c < NChunks
      /\ i > u => c = NChunks
      /\ ~Gone(m) => 1 .. c \subseteq chunks[m]
      /\ i = u + 2 /\ status[m] # "deleted" => meta[m] = "set"
  BY <1>1, <1>n DEF OutputInv, WorkersOnTrack, OnTrack, OutputSoFar
<1>5. /\ f \in AllFormats /\ u \in Nat /\ u > 1
      /\ stages[i] = "upload" <=> i = u
      /\ stages[i] = "metadata" <=> i = u + 1
      /\ stages[i] = "finalize" <=> i = u + 2
  BY <1>4, StageOrder
<1>6. /\ fmt'[m] = f
      /\ ~Gone(m)' => ~Gone(m) /\ chunks[m] \subseteq chunks'[m]
  BY <1>2, <1>3, <1>n DEF Kept
<1>7. NChunks \in Nat /\ NChunks > 0
  BY ConstantsOK
(* A worker record that is on track carries the workers.                   *)
<1>a. ASSUME Others(w), worker'[w].pc = "run", worker'[w].model = m,
             worker'[w].stage \in 1 .. u + 2,
             worker'[w].stage < u => worker'[w].chunk = 0,
             worker'[w].stage = u => worker'[w].chunk < NChunks,
             worker'[w].stage > u => worker'[w].chunk = NChunks,
             ~Gone(m)' => 1 .. worker'[w].chunk \subseteq chunks'[m],
             worker'[w].stage = u + 2 /\ status'[m] # "deleted"
                 => meta'[m] = "set"
      PROVE  WorkersOnTrack'
  <2>1. fmt'[worker'[w].model] = f
    BY <1>6, <1>a
  <2>2. OutputSoFar(worker[w])'
    BY <1>5, <1>a, <2>1 DEF OutputSoFar, Gone, UploadStage
  <2>3. OnTrack(worker[w])'
    BY <1>a, <2>2 DEF OnTrack
  <2> QED BY <1>a, <2>3, OthersOnTrack DEF OutputInv
<1>b. ASSUME NEW e, Raise(w, e)  PROVE WorkersOnTrack'
  <2>1. Others(w) /\ worker'[w].pc = "fail_status"
    BY <1>1, <1>b, TaskUpdates
  <2> QED BY <2>1, StepOnTrack DEF OutputInv
<1>c. CASE i < u /\ (Download(w, m) \/ LocalStage(w))
  <2>1. UNCHANGED <<status, chunks, meta>>
    BY <1>c DEF Download, LocalStage, rowVars, storageVars
  <2>2. ASSUME Others(w), worker'[w].pc = "run", worker'[w].model = m,
               worker'[w].stage = i + 1, worker'[w].chunk = c
        PROVE  WorkersOnTrack'
    <3>1. worker'[w].chunk = 0 /\ worker'[w].stage <= u
      BY <1>2, <1>4, <1>5, <1>c, <2>2
    <3>2. worker'[w].stage \in 1 .. u + 2
      BY <1>2, <1>5, <2>2, <3>1
    <3>3. 1 .. worker'[w].chunk = {}
      BY <3>1
    <3> HIDE DEF u, i, c
    <3> QED BY <1>a, <1>5, <1>7, <2>2, <3>1, <3>2, <3>3
  <2>3. WorkersOnTrack'
    <3>1. CASE NextStage(w)
      BY <1>1, <1>n, <2>2, <3>1, TaskUpdates, FieldUpdates
    <3>2. CASE worker' = [worker EXCEPT ![w] =
                   [worker[w] EXCEPT !.stage = worker[w].stage + 1,
                                     !.src = raw[m]]]
      <4>1. Others(w)
        BY <3>2 DEF TypeOK, Others
      <4>2. /\ worker'[w].pc = worker[w].pc /\ worker'[w].model = m
            /\ worker'[w].stage = i + 1 /\ worker'[w].chunk = c
        BY <1>2, <1>n, <3>2 DEF TypeOK, BusyWorker
      <4> QED BY <1>1, <2>2, <4>1, <4>2
    <3> QED BY <1>b, <1>c, <3>1, <3>2 DEF Download, LocalStage
  <2> QED BY <2>1, <2>3, RowsRest DEF OutputInv
<1>d. CASE i = u /\ UploadChunk(w, m)
  <2>1. /\ chunks' = [chunks EXCEPT ![m] = @ \cup {c + 1}]
        /\ UNCHANGED <<status, meta, prefix>>
    BY <1>d DEF UploadChunk, rowVars
  <2>2. chunks'[m] = chunks[m] \cup {c + 1}
    BY <1>2, <2>1 DEF TypeOK
  <2>3. Others(w)
    BY <1>d DEF TypeOK, UploadChunk, Others
  <2>4. /\ worker'[w].pc = worker[w].pc /\ worker'[w].model = m
        /\ worker'[w].chunk = c + 1
        /\ worker'[w].stage = IF LastChunk(c) THEN i + 1 ELSE i
    BY <1>2, <1>n, <1>d DEF TypeOK, UploadChunk, BusyWorker
  <2>5. ~Gone(m)' => 1 .. c + 1 \subseteq chunks'[m]
    <3>1. 1 .. c + 1 = (1 .. c) \cup {c + 1}
      BY <1>2
    <3> QED BY <1>4, <1>6, <2>2, <3>1
  <2>6. c + 1 <= NChunks /\ c + 1 \in 1 .. NChunks
    BY <1>2, <1>4, <1>7, <1>d
  <2>7. WorkersOnTrack'
    <3>1. CASE LastChunk(c)
      <4>1. worker'[w].chunk = NChunks /\ worker'[w].stage = u + 1
        BY <1>d, <2>4, <3>1 DEF LastChunk
      <4>2. /\ worker'[w].stage \in 1 .. u + 2 /\ worker'[w].stage > u
            /\ worker'[w].stage # u + 2
            /\ ~(worker'[w].stage < u) /\ worker'[w].stage # u
        BY <1>5, <4>1
      <4> HIDE DEF u, i, c
      <4> QED BY <1>1, <1>a, <2>3, <2>4, <2>5, <4>1, <4>2
    <3>2. CASE ~LastChunk(c)
      <4>1. worker'[w].chunk < NChunks /\ worker'[w].stage = u
        BY <1>2, <1>7, <1>d, <2>4, <2>6, <3>2 DEF LastChunk
      <4>2. /\ worker'[w].stage \in 1 .. u + 2
            /\ ~(worker'[w].stage < u) /\ ~(worker'[w].stage > u)
            /\ worker'[w].stage # u + 2
        BY <1>5, <4>1
      <4> HIDE DEF u, i, c
      <4> QED BY <1>1, <1>a, <2>3, <2>4, <2>5, <4>1, <4>2
    <3> QED BY <3>1, <3>2
  <2>8. RowsComplete'
    <3> SUFFICES ASSUME NEW n \in Models
                 PROVE  /\ chunks'[n] \subseteq 1 .. NChunks
                        /\ status'[n] = "ready" => Complete(n)'
      BY DEF RowsComplete
    <3>1. chunks[n] \subseteq chunks'[n]
      BY <2>1 DEF TypeOK
    <3>2. chunks'[n] \subseteq chunks[n] \cup {c + 1}
      BY <2>1 DEF TypeOK
    <3>3. Gone(n)' = Gone(n)
      BY <1>1, <2>1 DEF Gone
    <3>4. /\ chunks[n] \subseteq 1 .. NChunks
          /\ status[n] = "ready" => Complete(n)
      BY DEF OutputInv, RowsComplete
    <3>5. status'[n] = "ready" => Complete(n)'
      BY <2>1, <3>1, <3>3, <3>4 DEF Complete
    <3> QED BY <2>6, <3>2, <3>4, <3>5
  <2> QED BY <2>7, <2>8 DEF OutputInv
<1>e. CASE i = u + 1 /\ PersistMetadata(w, m)
  <2>1. UNCHANGED <<status, chunks>>
    BY <1>e DEF PersistMetadata, storageVars
  <2>2. CASE HasRow(m) /\ NextStage(w) /\ meta' = [meta EXCEPT ![m] = "set"]
    <3>1. /\ Others(w) /\ worker'[w].pc = "run" /\ worker'[w].model = m
          /\ worker'[w].stage = i + 1 /\ worker'[w].chunk = c
      BY <1>1, <1>n, <2>2, TaskUpdates, FieldUpdates
    <3>2. meta'[m] = "set"
      BY <1>2, <2>2 DEF TypeOK
    <3>3. worker'[w].stage = u + 2 /\ worker'[w].chunk = NChunks
      BY <1>4, <1>5, <1>e, <3>1
    <3>4. /\ worker'[w].stage \in 1 .. u + 2
          /\ ~(worker'[w].stage < u) /\ worker'[w].stage # u
      BY <1>5, <3>3
    <3>5. ~Gone(m)' => 1 .. worker'[w].chunk \subseteq chunks'[m]
      BY <1>4, <1>6, <3>1
    <3> HIDE DEF u, i, c
    <3>6. WorkersOnTrack'
      BY <1>a, <3>1, <3>2, <3>3, <3>4, <3>5
    <3> QED BY <2>1, <3>6, RowsRest DEF OutputInv
  <2>3. CASE Raise(w, "permanent")
    BY <1>b, <2>1, <2>3, RowsRest DEF OutputInv
  <2> QED BY <1>e, <2>2, <2>3 DEF PersistMetadata
<1>f. CASE i = u + 2 /\ Finalize(w, m)
  <2>1. /\ update_model_status(m, "ready")
        /\ prefix' = IF HasRow(m) THEN [prefix EXCEPT ![m] = "set"] ELSE prefix
        /\ Goto(w, "notify")
        /\ UNCHANGED <<meta, chunks>>
    BY <1>f DEF Finalize, storageVars
  <2>2. Others(w) /\ worker'[w].pc = "notify"
    BY <1>1, <2>1, TaskUpdates
  <2>3. WorkersOnTrack'
    BY <2>2, StepOnTrack DEF OutputInv
  <2>4. RowsComplete'
    <3> SUFFICES ASSUME NEW n \in Models
                 PROVE  /\ chunks'[n] \subseteq 1 .. NChunks
                        /\ status'[n] = "ready" => Complete(n)'
      BY DEF RowsComplete
    <3>1. chunks'[n] \subseteq 1 .. NChunks
      BY <2>1 DEF OutputInv, RowsComplete
    <3>2. CASE n # m \/ ~HasRow(m)
      <4>1. status'[n] = status[n] /\ prefix'[n] = prefix[n]
        BY <2>1, <3>2 DEF TypeOK, update_model_status
      <4>2. Gone(n)' = Gone(n)
        BY <1>1, <4>1 DEF Gone
      <4>3. status[n] = "ready" => Complete(n)
        BY DEF OutputInv, RowsComplete
      <4> QED BY <2>1, <3>1, <4>1, <4>2, <4>3 DEF Complete
    <3>3. CASE n = m /\ HasRow(m)
      <4>1. prefix'[m] = "set"
        BY <1>2, <2>1, <3>3 DEF TypeOK
      <4>2. status[m] # "deleted"
        BY <3>3 DEF HasRow
      <4>3. meta'[m] = "set" /\ c = NChunks
        BY <1>4, <1>5, <1>f, <2>1, <4>2
      <4>4. ~Gone(m)' => 1 .. NChunks \subseteq chunks'[m]
        BY <1>4, <1>6, <2>1, <4>3
      <4> QED BY <3>1, <3>3, <4>1, <4>3, <4>4 DEF Complete
    <3> QED BY <3>2, <3>3
  <2> QED BY <2>3, <2>4 DEF OutputInv
<1>g. \/ i < u /\ (Download(w, m) \/ LocalStage(w))
      \/ i = u /\ UploadChunk(w, m)
      \/ i = u + 1 /\ PersistMetadata(w, m)
      \/ i = u + 2 /\ Finalize(w, m)
  <2>1. i < u \/ i = u \/ i = u + 1 \/ i = u + 2
    BY <1>4, <1>5
  <2>2. /\ stages[i] = "upload" => UploadChunk(w, m)
        /\ stages[i] = "metadata" => PersistMetadata(w, m)
        /\ stages[i] = "finalize" => Finalize(w, m)
        /\ stages[i] \notin {"upload", "metadata", "finalize"}
               => Download(w, m) \/ LocalStage(w)
    BY <1>n DEF RunStage
  <2>3. i < u => i # u /\ i # u + 1 /\ i # u + 2
    BY <1>2, <1>5
  <2> HIDE DEF u, i
  <2> QED BY <1>5, <2>1, <2>2, <2>3
<1> QED BY <1>c, <1>d, <1>e, <1>f, <1>g

(* Outside the stages a converter outputs nothing, and it enters them with *)
(* no chunk.                                                               *)
LEMMA ConvertOutput ==
    ASSUME TypeOK, GateInv, Forward, Kept, OutputInv, NEW w \in Workers,
           NEW f, NEW stages, <<f, stages>> \in Stages,
           Converter(w, f, stages) \/ GltfInvalid(w)
    PROVE  OutputInv'
<1> USE DEF rowVars, storageVars
<1>0. worker[w].pc # "idle"
  BY SoftEffects DEF ConvertPc, Converter, Guard, acquire_task_lock, Load,
     RunStage, StageFails, NotifyReady, dispatch_webhook_event, Release,
     EarlyRelease, handle_task_failure, FailRelease, GltfInvalid
<1>a. ASSUME UNCHANGED <<status, chunks>>, WorkersOnTrack'  PROVE OutputInv'
  BY <1>a, RowsRest DEF OutputInv
<1>b. ASSUME NEW pc, NEW e, Goto(w, pc) \/ SoftGoto(w, pc, e), pc # "run",
             pc \in {"guard", "lock", "load"} => worker[w].chunk = 0
      PROVE  WorkersOnTrack'
  <2>1. /\ Others(w) /\ worker'[w].pc = pc
        /\ worker'[w].chunk = worker[w].chunk
    BY <1>0, <1>b, TaskUpdates, FieldUpdates
  <2> QED BY <1>b, <2>1, StepOnTrack DEF OutputInv
<1>c. ASSUME NEW e, Raise(w, e)  PROVE WorkersOnTrack'
  <2>1. Others(w) /\ worker'[w].pc = "fail_status"
    BY <1>0, <1>c, TaskUpdates
  <2> QED BY <2>1, StepOnTrack DEF OutputInv
<1>d. Ack(w) => WorkersOnTrack'
  BY AckOnTrack DEF OutputInv
<1>e. worker[w].pc \in {"guard", "lock", "load"} => worker[w].chunk = 0
  BY DEF OutputInv, WorkersOnTrack, OnTrack
<1>1. CASE Guard(w)
  BY <1>1, <1>a, <1>b, <1>d, <1>e DEF Guard
<1>2. CASE acquire_task_lock(w)
  BY <1>2, <1>a, <1>b, <1>d, <1>e DEF acquire_task_lock
<1>3. CASE Load(w) /\ fmt[worker[w].model] = f
  <2>1. ASSUME worker' = [worker EXCEPT ![w] =
                            [worker[w] EXCEPT !.pc = "run", !.stage = 1]]
        PROVE  WorkersOnTrack'
    <3>1. worker[w] \in BusyWorker /\ worker[w].model \in Models
      BY <1>0, BusyRecord DEF BusyWorker
    <3>2. /\ Others(w)
          /\ worker'[w].pc = "run" /\ worker'[w].stage = 1
          /\ worker'[w].model = worker[w].model
          /\ worker'[w].chunk = worker[w].chunk
      BY <2>1, <3>1 DEF TypeOK, Others, BusyWorker
    <3>3. worker'[w].chunk = 0
      BY <1>3, <1>e, <3>2 DEF Load
    <3>4. f \in AllFormats /\ UploadStage[f] \in Nat /\ UploadStage[f] > 1
      BY StageOrder
    <3>5. fmt'[worker'[w].model] = f
      BY <1>3, <3>2 DEF Load
    <3>6. 1 .. worker'[w].chunk = {}
      BY <3>3
    <3>7. /\ 1 \in 1 .. UploadStage[f] + 2 /\ 1 < UploadStage[f]
          /\ 1 # UploadStage[f] /\ ~(1 > UploadStage[f])
          /\ 1 # UploadStage[f] + 2
      BY <3>4
    <3>8. OutputSoFar(worker[w])'
      BY <3>2, <3>3, <3>4, <3>5, <3>6, <3>7
      DEF OutputSoFar, UploadStage, Gone
    <3>9. OnTrack(worker[w])'
      BY <3>2, <3>8 DEF OnTrack
    <3> QED BY <3>2, <3>9, OthersOnTrack DEF OutputInv
  <2> QED BY <1>3, <1>a, <1>b, <1>c, <1>d, <2>1 DEF Load, Oversize
<1>4. CASE StageFails(w, stages)
  BY <1>4, <1>a, <1>c DEF StageFails
<1>5. CASE SoftLimit(w) \/ GltfInvalid(w)
  <2>1. CASE SoftLimit(w)
    BY <1>a, <1>b, <1>d, <1>e, <2>1, SoftEffects
  <2> QED BY <1>5, <1>a, <1>b, <2>1 DEF GltfInvalid
<1>6. CASE NotifyReady(w) \/ dispatch_webhook_event(w)
  BY <1>6, <1>a, <1>b, <1>c DEF NotifyReady, dispatch_webhook_event
<1>7. CASE Release(w) \/ EarlyRelease(w) \/ FailRelease(w)
  BY <1>7, <1>a, <1>b, <1>c DEF Release, EarlyRelease, FailRelease, Return
<1>8. CASE handle_task_failure(w)
  <2>1. UNCHANGED chunks /\ WorkersOnTrack'
    BY <1>8, <1>b DEF handle_task_failure, AfterFailure
  <2>2. UNCHANGED status \/ update_model_status(worker[w].model, "failed")
    BY <1>8 DEF handle_task_failure
  <2> QED BY <2>1, <2>2, UpdateNotReady, RowsRest DEF OutputInv
<1> QED
  BY <1>1, <1>2, <1>3, <1>4, <1>5, <1>6, <1>7, <1>8, StageOutput DEF Converter

(* Every step keeps the workers on track and the ready models complete.    *)
LEMMA NextOutput ==
    ASSUME TypeOK, GateInv, OutputInv, [Next]_vars
    PROVE  OutputInv'
<1>0. Forward /\ Kept
  BY NextForward, NextKept
<1>1. CASE UNCHANGED vars
  BY <1>0, <1>1, RestOnTrack, RowsRest
  DEF OutputInv, vars, rowVars, storageVars
<1>2. ASSUME NEW w \in Workers, Tasks(w)  PROVE OutputInv'
  <2>1. /\ <<"ifc", IfcStages>> \in Stages /\ <<"gltf", GltfStages>> \in Stages
        /\ <<"step", StepStages>> \in Stages /\ <<"obj", ObjStages>> \in Stages
        /\ <<"stl", StlStages>> \in Stages
    BY DEF Stages
  <2> QED BY <1>0, <1>2, <2>1, ScanOutput, ConvertOutput, OtherOutput
          DEF Tasks, process_model, process_gltf, process_step, process_obj,
              process_stl
<1> QED BY <1>0, <1>1, <1>2, OtherOutput DEF Next

(***************************************************************************)
(* A ready model has its prefix, its metadata and all its chunks, until a  *)
(* deletion removes them: for any number of chunks, models, workers and    *)
(* requests, however many conversions of a model run, fail, are killed or  *)
(* are repeated at once.                                                   *)
(***************************************************************************)
THEOREM ReadyModelsAreComplete == Spec => []ReadyIsComplete
<1>1. Init => GateInv /\ OutputInv
  BY DEF Init, GateInv, WorkersGated, GatedWorker, ConfirmsGated, QueueGated,
     OutputGated, Clean, Idle, OutputInv, WorkersOnTrack, OnTrack, RowsComplete
<1>2. TypeOK /\ GateInv /\ [Next]_vars => GateInv'
  BY NextGate
<1>3. TypeOK /\ GateInv /\ OutputInv /\ [Next]_vars => OutputInv'
  BY NextOutput
<1>4. OutputInv => ReadyIsComplete
  <2> SUFFICES ASSUME OutputInv, NEW m \in Models, status[m] = "ready"
               PROVE  /\ prefix[m] = "set" /\ meta[m] = "set"
                      /\ removal[m].pc \in {"idle", "raw", "processed"}
                             => chunks[m] = 1 .. NChunks
    BY DEF ReadyIsComplete
  <2>1. Complete(m) /\ chunks[m] \subseteq 1 .. NChunks
    BY DEF OutputInv, RowsComplete
  <2>2. removal[m].pc \in {"idle", "raw", "processed"} => ~Gone(m)
    BY DEF Gone
  <2> QED BY <2>1, <2>2 DEF Complete
<1> QED BY <1>1, <1>2, <1>3, <1>4, TypeCorrect, PTL DEF Spec

-----------------------------------------------------------------------------
(* The announced outcome.  Of one model there is, with one confirm and     *)
(* nothing that redelivers or loses a message, one token: the request      *)
(* that is confirming it, its one message, or the worker that has it in    *)
(* hand.  Whoever writes a final status is at a place from which it will   *)
(* publish that status, and nobody else writes in between.                 *)

Active(x, m) == x.model = m /\ x.pc # "return"

NoToken(m) ==
    /\ \A w \in Workers : ~ Active(worker[w], m)
    /\ \A msg \in Message : msg.model = m => queue[msg] = 0

OneWorker ==
    \A m \in Models : \A v, w \in Workers :
        Active(worker[v], m) /\ Active(worker[w], m) => v = w

OneMessage ==
    \A msg \in Message :
        queue[msg] # 0 =>
            /\ queue[msg] = 1
            /\ \A w \in Workers : ~ Active(worker[w], msg.model)
            /\ \A o \in Message :
                  o.model = msg.model /\ queue[o] # 0 => o = msg

Fresh(m) == NoToken(m) /\ notices[m] = <<>>

UnconfirmedAreFresh ==
    \A m \in Models : status[m] \in {"absent", "pending"} => Fresh(m)

ConfirmedAreFresh ==
    \A r \in Requests :
        confirm[r].pc # "idle" =>
            /\ confirm[r].model \in Models /\ Fresh(confirm[r].model)
            /\ status[confirm[r].model] # "absent"
            /\ status[confirm[r].model] = "pending" => confirm[r].pc # "enqueue"

(* Where a worker has written, or will write, a status to be published.    *)
FailedPc == {"fail_publish", "infected_delete", "infected_publish",
             "error_publish"}
OwingPc  == FailedPc \cup {"notify", "early_release", "fail_status",
                          "error_status"}

Agrees(x) ==
    x.model \in Models /\ HasRow(x.model) =>
        /\ x.pc \in FailedPc => status[x.model] = "failed"
        /\ x.pc = "notify" => status[x.model] = "ready"

WorkersAgree == \A w \in Workers : Agrees(worker[w])

Told(m) ==
    /\ status[m] \in Terminal => notices[m] # <<>>
    /\ notices[m] # <<>> => status[m] = notices[m][Len(notices[m])]

Owed(m) ==
    \E w \in Workers : worker[w].model = m /\ worker[w].pc \in OwingPc

OutcomesTold == \A m \in Models : HasRow(m) => Told(m) \/ Owed(m)

NoSweep == sweep.rows = {} /\ sweep.current = NoModel

OutcomeInv == /\ OneWorker /\ OneMessage /\ UnconfirmedAreFresh
              /\ ConfirmedAreFresh /\ WorkersAgree /\ OutcomesTold /\ NoSweep

(* How a task moves its token.                                             *)
Moves(w) ==
    /\ Others(w) /\ UNCHANGED confirm
    /\ worker'[w] = Idle \/ worker'[w].model = worker[w].model
    /\ worker[w].pc = "return" => worker'[w] = Idle
    /\ \/ UNCHANGED queue
       \/ /\ worker[w].pc # "return" /\ worker'[w].pc = "return"
          /\ \E msg \in Message : /\ msg.model = worker[w].model
                                  /\ send_task(msg)

(* A task of a model leaves the others alone, and its model confirmed.     *)
Writes(m) ==
    /\ \A n \in Models \ {m} : status'[n] = status[n] /\ notices'[n] = notices[n]
    /\ status'[m] \in {status[m], "ready", "failed"}
    /\ HasRow(m)' => HasRow(m)

(* The messages after a task's step.                                       *)
LEMMA TokenMoves ==
    ASSUME TypeOK, OneWorker, OneMessage, NEW w \in Workers,
           worker[w].pc # "idle", Moves(w)
    PROVE  /\ OneWorker' /\ OneMessage'
           /\ \A m \in Models : NoToken(m) =>
                 /\ NoToken(m)'
                 /\ worker[w].model # m \/ worker[w].pc = "return"
<1>0. /\ worker[w] \in BusyWorker /\ worker[w].model \in Models
      /\ worker \in [Workers -> Worker] /\ queue \in [Message -> Nat]
  BY BusyRecord DEF TypeOK, BusyWorker
<1>1. \A v \in Workers, m \in Models :
         Active(worker'[v], m) => Active(worker[v], m)
  BY <1>0, ConstantsOK DEF Moves, Others, Active, Idle
<1>2. OneWorker'
  BY <1>1 DEF OneWorker
<1>3. CASE UNCHANGED queue
  <2>1. OneMessage'
    <3> SUFFICES ASSUME NEW msg \in Message, queue[msg] # 0
                 PROVE  /\ queue[msg] = 1
                        /\ \A v \in Workers : ~ Active(worker'[v], msg.model)
                        /\ \A o \in Message :
                              o.model = msg.model /\ queue[o] # 0 => o = msg
      BY <1>3 DEF OneMessage
    <3>1. msg.model \in Models
      BY DEF Message
    <3> QED BY <1>1, <3>1 DEF OneMessage
  <2>2. ASSUME NEW m \in Models, NoToken(m)  PROVE NoToken(m)'
    BY <1>1, <1>3, <2>2 DEF NoToken
  <2>3. ASSUME NEW m \in Models, NoToken(m)
        PROVE  worker[w].model # m \/ worker[w].pc = "return"
    BY <2>3 DEF NoToken, Active
  <2> QED BY <1>2, <2>1, <2>2, <2>3
<1>4. ASSUME NEW msg \in Message, msg.model = worker[w].model, send_task(msg),
             worker[w].pc # "return", worker'[w].pc = "return"
      PROVE  /\ OneMessage'
             /\ \A m \in Models :
                   NoToken(m) => NoToken(m)' /\ worker[w].model # m
  <2>1. /\ queue'[msg] = queue[msg] + 1
        /\ \A o \in Message : o # msg => queue'[o] = queue[o]
    BY <1>0, <1>4 DEF send_task
  <2>2. Active(worker[w], msg.model)
    BY <1>4 DEF Active
  <2>3. \A o \in Message : o.model = msg.model => queue[o] = 0
    BY <2>2 DEF OneMessage
  <2>4. queue'[msg] = 1 /\ \A o \in Message :
           o.model = msg.model /\ queue'[o] # 0 => o = msg
    BY <2>1, <2>3
  <2>5. \A v \in Workers : ~ Active(worker'[v], msg.model)
    BY <1>0, <1>1, <1>4, <2>2 DEF OneWorker, Active
  <2>6. OneMessage'
    <3> SUFFICES ASSUME NEW n \in Message, queue'[n] # 0
                 PROVE  /\ queue'[n] = 1
                        /\ \A v \in Workers : ~ Active(worker'[v], n.model)
                        /\ \A o \in Message :
                              o.model = n.model /\ queue'[o] # 0 => o = n
      BY DEF OneMessage
    <3>1. CASE n = msg
      BY <2>4, <2>5, <3>1
    <3>2. CASE n # msg
      <4>1. queue[n] # 0 /\ queue'[n] = queue[n] /\ n.model \in Models
        BY <2>1, <3>2 DEF Message
      <4>2. n.model # msg.model
        BY <2>3, <4>1
      <4>3. \A o \in Message :
               o.model = n.model => queue'[o] = queue[o]
        BY <2>1, <4>2
      <4> QED BY <1>1, <4>1, <4>3 DEF OneMessage
    <3> QED BY <3>1, <3>2
  <2>7. ASSUME NEW m \in Models, NoToken(m)
        PROVE  NoToken(m)' /\ worker[w].model # m
    <3>1. m # msg.model
      BY <1>4, <2>2, <2>7 DEF NoToken
    <3>2. \A o \in Message : o.model = m => queue'[o] = queue[o]
      BY <2>1, <3>1
    <3> QED BY <1>1, <1>4, <2>7, <3>1, <3>2 DEF NoToken
  <2> QED BY <2>6, <2>7
<1> QED BY <1>2, <1>3, <1>4 DEF Moves

(* The first message of a model that has no token.                         *)
LEMMA FirstMessage ==
    ASSUME TypeOK, OneMessage, NEW m \in Models, NoToken(m),
           send_task(Msg("scan_file", m, 0)), UNCHANGED worker
    PROVE  OneMessage' /\ \A n \in Models \ {m} : NoToken(n) => NoToken(n)'
<1>1. PICK msg : msg = Msg("scan_file", m, 0)
  OBVIOUS
<1>2. msg \in Message /\ msg.model = m
  BY <1>1 DEF Msg, Message, TaskName, ScanMaxRetries
<1>3. /\ queue'[msg] = queue[msg] + 1
      /\ \A o \in Message \ {msg} : queue'[o] = queue[o]
  BY <1>1, <1>2 DEF send_task, TypeOK
<1>4. OneMessage'
  <2> SUFFICES ASSUME NEW n \in Message, queue'[n] # 0
               PROVE  /\ queue'[n] = 1
                      /\ \A w \in Workers : ~ Active(worker[w], n.model)
                      /\ \A o \in Message :
                            o.model = n.model /\ queue'[o] # 0 => o = n
    BY DEF OneMessage
  <2>1. CASE n.model = m
    BY <1>2, <1>3, <2>1 DEF NoToken
  <2>2. CASE n.model # m
    BY <1>2, <1>3, <2>2 DEF OneMessage
  <2> QED BY <2>1, <2>2
<1>5. ASSUME NEW n \in Models \ {m}, NoToken(n)  PROVE NoToken(n)'
  <2>1. \A o \in Message : o.model = n => queue'[o] = queue[o]
    BY <1>2, <1>3, <1>5
  <2> QED BY <1>5, <2>1 DEF NoToken
<1> QED BY <1>4, <1>5

(* A worker takes the one message of a model.                              *)
LEMMA TakeMoves ==
    ASSUME TypeOK, OneWorker, OneMessage, NEW w \in Workers,
           NEW msg \in Message, Take(w, msg), NEW m, m = msg.model
    PROVE  /\ m \in Models /\ queue[msg] # 0 /\ Others(w)
           /\ worker[w].pc = "idle" /\ worker'[w].model = m
           /\ worker'[w].pc = StartPc(msg.task)
           /\ worker'[w].pc \in {"scan_load", "route", "guard"}
           /\ OneWorker' /\ OneMessage'
           /\ \A o \in Message : queue'[o] # 0 => queue[o] # 0
           /\ \A n \in Models : NoToken(n) => NoToken(n)' /\ n # m
<1>1. PICK pc : pc = StartPc(msg.task)
  OBVIOUS
<1>2. m \in Models /\ pc \in {"scan_load", "route", "guard"}
  BY <1>1 DEF Message, TaskName, StartPc
<1>3. /\ worker[w].pc = "idle" /\ queue[msg] # 0
      /\ queue' = [queue EXCEPT ![msg] = @ - 1]
  <2>1. queue[msg] > 0 /\ queue[msg] \in Nat
    BY DEF Take, TypeOK
  <2>2. queue[msg] # 0
    BY <2>1
  <2> QED BY <2>2 DEF Take
<1>4. Others(w) /\ worker'[w].pc = pc /\ worker'[w].model = m
  BY <1>1 DEF Take, TypeOK, Others, Idle
<1>5. /\ queue[msg] = 1 /\ \A v \in Workers : ~ Active(worker[v], m)
      /\ \A o \in Message : o.model = m /\ queue[o] # 0 => o = msg
  BY <1>3 DEF OneMessage
<1>6. /\ queue'[msg] = 0 /\ \A o \in Message \ {msg} : queue'[o] = queue[o]
  BY <1>3, <1>5 DEF TypeOK
<1>7. \A o \in Message : o.model = m => queue'[o] = 0
  BY <1>5, <1>6
<1>8. \A n \in Models \ {m}, v \in Workers :
         Active(worker'[v], n) => Active(worker[v], n)
  BY <1>4 DEF Active, Others
<1>9. OneWorker'
  <2> SUFFICES ASSUME NEW n \in Models, NEW u \in Workers, NEW v \in Workers,
                      Active(worker'[u], n), Active(worker'[v], n)
               PROVE  u = v
    BY DEF OneWorker
  <2>1. CASE n = m
    BY <1>4, <1>5, <2>1 DEF Others
  <2>2. CASE n # m
    BY <1>8, <2>2 DEF OneWorker
  <2> QED BY <2>1, <2>2
<1>10. OneMessage'
  <2> SUFFICES ASSUME NEW n \in Message, queue'[n] # 0
               PROVE  /\ queue'[n] = 1
                      /\ \A v \in Workers : ~ Active(worker'[v], n.model)
                      /\ \A o \in Message :
                            o.model = n.model /\ queue'[o] # 0 => o = n
    BY DEF OneMessage
  <2>1. n.model # m /\ n.model \in Models
    BY <1>7 DEF Message
  <2>2. \A o \in Message : o.model = n.model => queue'[o] = queue[o]
    BY <1>6, <2>1
  <2> QED BY <1>8, <2>1, <2>2 DEF OneMessage
<1>11. ASSUME NEW n \in Models, NoToken(n)  PROVE NoToken(n)' /\ n # m
  <2>1. n # m
    BY <1>3, <1>11 DEF NoToken
  <2>2. \A o \in Message : o.model = n => queue'[o] = queue[o]
    BY <1>6, <2>1
  <2> QED BY <1>8, <1>11, <2>1, <2>2 DEF NoToken
<1>12. \A o \in Message : queue'[o] # 0 => queue[o] # 0
  BY <1>6
<1> QED BY <1>1, <1>2, <1>3, <1>4, <1>9, <1>10, <1>11, <1>12

(* A step of a task keeps the invariant, if what was owed was told or is   *)
(* still owed.                                                             *)
LEMMA TaskKeepsOutcome ==
    ASSUME TypeOK, OutcomeInv, NEW w \in Workers, worker[w].pc # "idle",
           NEW m, m = worker[w].model, Moves(w), Writes(m), UNCHANGED sweep,
           Agrees(worker[w])',
           worker[w].pc = "return" => UNCHANGED <<status, notices>>,
           HasRow(m)' =>
               \/ Told(m)'
               \/ worker'[w].model = m /\ worker'[w].pc \in OwingPc
               \/ /\ worker[w].pc \notin OwingPc
                  /\ status'[m] = status[m] /\ notices'[m] = notices[m]
    PROVE  OutcomeInv'
<1>0. m \in Models /\ worker[w].pc # "idle"
  BY BusyRecord DEF BusyWorker
<1>1. /\ OneWorker' /\ OneMessage'
      /\ \A n \in Models : NoToken(n) =>
            NoToken(n)' /\ (m # n \/ worker[w].pc = "return")
  BY TokenMoves DEF OutcomeInv
<1>2. \A n \in Models : Fresh(n) =>
         Fresh(n)' /\ status'[n] = status[n]
  BY <1>1 DEF Fresh, Writes
<1>3. UnconfirmedAreFresh'
  <2> SUFFICES ASSUME NEW n \in Models, status'[n] \in {"absent", "pending"}
               PROVE  Fresh(n)'
    BY DEF UnconfirmedAreFresh, Fresh, NoToken, Active
  <2>1. status[n] = status'[n]
    BY <1>0 DEF Writes
  <2> QED BY <1>2, <2>1 DEF OutcomeInv, UnconfirmedAreFresh
<1>4. ConfirmedAreFresh'
  <2> SUFFICES ASSUME NEW r \in Requests, confirm[r].pc # "idle",
                      NEW n, n = confirm[r].model
               PROVE  /\ n \in Models /\ Fresh(n)' /\ status'[n] # "absent"
                      /\ status'[n] = "pending" => confirm[r].pc # "enqueue"
    BY DEF ConfirmedAreFresh, Fresh, NoToken, Moves
  <2>1. n = confirm[r].model
    OBVIOUS
  <2>2. n \in Models /\ Fresh(n) /\ status[n] # "absent"
        /\ (status[n] = "pending" => confirm[r].pc # "enqueue")
    BY <2>1 DEF OutcomeInv, ConfirmedAreFresh
  <2>3. Fresh(n)' /\ status'[n] = status[n]
    BY <1>2, <2>2
  <2> QED BY <2>2, <2>3
<1>5. WorkersAgree'
  <2> SUFFICES ASSUME NEW v \in Workers, v # w  PROVE Agrees(worker[v])'
    BY DEF WorkersAgree
  <2>1. worker'[v] = worker[v] /\ Agrees(worker[v])
    BY DEF Moves, Others, OutcomeInv, WorkersAgree
  <2>2. CASE worker[v].model # m
    BY <2>1, <2>2 DEF Agrees, Writes, HasRow
  <2>3. CASE worker[v].model = m /\ worker[v].pc # "return"
    <3>1. worker[w].pc = "return"
      BY <1>0, <2>3 DEF OutcomeInv, OneWorker, Active
    <3> QED BY <2>1, <3>1 DEF Agrees, HasRow
  <2>4. CASE worker[v].pc = "return"
    BY <2>1, <2>4 DEF Agrees, FailedPc
  <2> QED BY <2>2, <2>3, <2>4
<1>6. OutcomesTold'
  <2> SUFFICES ASSUME NEW n \in Models, HasRow(n)'
               PROVE  Told(n)' \/ Owed(n)'
    BY DEF OutcomesTold
  <2>1. CASE n # m
    <3>1. status'[n] = status[n] /\ notices'[n] = notices[n]
      BY <2>1 DEF Writes
    <3>2. Told(n) \/ Owed(n)
      BY <3>1 DEF OutcomeInv, OutcomesTold, HasRow
    <3>3. Told(n) => Told(n)'
      BY <3>1 DEF Told
    <3>4. Owed(n) => Owed(n)'
      BY <2>1 DEF Owed, Moves, Others
    <3> QED BY <3>2, <3>3, <3>4
  <2>2. CASE n = m
    <3>1. CASE Told(m)'
      BY <2>2, <3>1 DEF Told
    <3>2. CASE worker'[w].model = m /\ worker'[w].pc \in OwingPc
      BY <2>2, <3>2 DEF Owed
    <3>3. CASE /\ worker[w].pc \notin OwingPc
               /\ status'[m] = status[m] /\ notices'[m] = notices[m]
      <4>1. Told(m) \/ Owed(m)
        BY <2>2, <3>3 DEF OutcomeInv, OutcomesTold, HasRow
      <4>2. Told(m) => Told(n)'
        BY <2>2, <3>3 DEF Told
      <4>3. Owed(m) => Owed(n)'
        BY <2>2, <3>3 DEF Owed, Moves, Others
      <4> QED BY <4>1, <4>2, <4>3
    <3>4. HasRow(m)'
      BY <2>2 DEF HasRow
    <3> QED BY <3>1, <3>2, <3>3, <3>4
  <2> QED BY <2>1, <2>2
<1>7. NoSweep'
  BY DEF OutcomeInv, NoSweep
<1> QED BY <1>1, <1>3, <1>4, <1>5, <1>6, <1>7 DEF OutcomeInv

(* The moves of the tasks.                                                 *)
LEMMA TaskMoves ==
    ASSUME TypeOK, NEW w \in Workers, worker[w].pc \notin {"idle", "return"},
           UNCHANGED confirm
    PROVE  /\ \A pc : Goto(w, pc) /\ UNCHANGED queue =>
                 /\ Moves(w)
                 /\ worker'[w].pc = pc /\ worker'[w].model = worker[w].model
           /\ \A e : Raise(w, e) /\ UNCHANGED queue =>
                 /\ Moves(w) /\ worker'[w].pc = "fail_status"
                 /\ worker'[w].model = worker[w].model
           /\ \A pc, e : SoftGoto(w, pc, e) /\ UNCHANGED queue =>
                 /\ Moves(w)
                 /\ worker'[w].pc = pc /\ worker'[w].model = worker[w].model
           /\ NextStage(w) /\ UNCHANGED queue =>
                 /\ Moves(w) /\ worker'[w].pc = worker[w].pc
           /\ \A msg \in Message :
                 Return(w) /\ send_task(msg) /\ msg.model = worker[w].model =>
                 /\ Moves(w) /\ worker'[w].pc = "return"
           /\ Ack(w) /\ UNCHANGED queue => Moves(w) /\ worker'[w].pc = "idle"
<1>1. Ack(w) => Others(w) /\ worker'[w] = Idle
  BY DEF TypeOK, Ack, Others
<1>2. Ack(w) /\ UNCHANGED queue => Moves(w) /\ worker'[w].pc = "idle"
  BY <1>1 DEF Moves, Idle
<1>3. \A pc : Goto(w, pc) /\ UNCHANGED queue =>
         /\ Moves(w) /\ worker'[w].pc = pc /\ worker'[w].model = worker[w].model
  BY UpdateEffects DEF Moves
<1>4. \A e : Raise(w, e) /\ UNCHANGED queue =>
         /\ Moves(w) /\ worker'[w].pc = "fail_status"
         /\ worker'[w].model = worker[w].model
  BY UpdateEffects DEF Moves
<1>5. NextStage(w) /\ UNCHANGED queue =>
         Moves(w) /\ worker'[w].pc = worker[w].pc
  BY UpdateEffects DEF Moves
<1>6. \A msg \in Message :
         Return(w) /\ send_task(msg) /\ msg.model = worker[w].model =>
         /\ Moves(w) /\ worker'[w].pc = "return"
  BY UpdateEffects DEF Moves, Return
<1>7. \A pc, e : SoftGoto(w, pc, e) /\ UNCHANGED queue =>
         /\ Moves(w) /\ worker'[w].pc = pc /\ worker'[w].model = worker[w].model
  BY UpdateEffects DEF Moves
<1> QED BY <1>2, <1>3, <1>4, <1>5, <1>6, <1>7

(* A step that neither writes a status nor publishes one, and does not go  *)
(* past a notice that is owed.                                             *)
LEMMA SilentStep ==
    ASSUME TypeOK, OutcomeInv, NEW w \in Workers, worker[w].pc # "idle",
           Moves(w), UNCHANGED <<status, notices, sweep>>,
           worker[w].pc \in OwingPc => worker'[w].pc \in OwingPc,
           worker'[w].pc \in FailedPc => worker[w].pc \in FailedPc,
           worker'[w].pc = "notify" => worker[w].pc = "notify"
    PROVE  OutcomeInv'
<1>m. PICK m : m = worker[w].model
  OBVIOUS
<1>1. Agrees(worker[w])'
  BY DEF OutcomeInv, WorkersAgree, Agrees, Moves, Idle, FailedPc, HasRow
<1>2. Writes(m)
  BY DEF Writes, HasRow
<1>3. worker'[w].pc \in OwingPc => worker'[w].model = m
  BY <1>m DEF Moves, Idle, OwingPc, FailedPc
<1>4. \/ worker'[w].model = m /\ worker'[w].pc \in OwingPc
      \/ worker[w].pc \notin OwingPc
  BY <1>3
<1> QED BY <1>1, <1>2, <1>4, <1>m, TaskKeepsOutcome

(* The UPDATE of the final status, on the way to its notice.               *)
LEMMA FinalStep ==
    ASSUME TypeOK, OutcomeInv, NEW w \in Workers,
           worker[w].pc \notin {"idle", "return"}, Moves(w),
           UNCHANGED <<notices, sweep>>, NEW s \in {"ready", "failed"},
           update_model_status(worker[w].model, s),
           worker'[w].model = worker[w].model,
           worker'[w].pc \in (IF s = "ready" THEN {"notify"} ELSE FailedPc)
    PROVE  OutcomeInv'
<1>m. PICK m : m = worker[w].model
  OBVIOUS
<1>0. m \in Models /\ status \in [Models -> Status]
  BY <1>m, BusyRecord DEF BusyWorker, TypeOK
<1>1. /\ \A n \in Models \ {m} : status'[n] = status[n]
      /\ status'[m] = IF HasRow(m) THEN s ELSE status[m]
  BY <1>m, <1>0 DEF update_model_status
<1>2. HasRow(m)' => HasRow(m) /\ status'[m] = s
  BY <1>1 DEF HasRow
<1>3. Writes(m)
  BY <1>1, <1>2 DEF Writes, HasRow
<1>4. Agrees(worker[w])'
  BY <1>m, <1>1 DEF Agrees, HasRow, FailedPc
<1>5. worker'[w].pc \in OwingPc
  BY DEF OwingPc
<1> QED BY <1>3, <1>4, <1>5, <1>m, TaskKeepsOutcome

(* The notice of the status that was written.                              *)
LEMMA NoticeStep ==
    ASSUME TypeOK, OutcomeInv, "publish" \notin Enabled, NEW w \in Workers,
           worker[w].pc \notin {"idle", "return"}, Moves(w),
           UNCHANGED <<status, sweep>>, NEW e \in {"ready", "failed"},
           Publish(worker[w].model, e),
           worker[w].pc \in (IF e = "ready" THEN {"notify"} ELSE FailedPc),
           worker'[w].pc \notin OwingPc
    PROVE  OutcomeInv'
<1>m. PICK m : m = worker[w].model
  OBVIOUS
<1>0. m \in Models /\ notices[m] \in Seq(Notice) /\ notices \in [Models -> Seq(Notice)]
  BY <1>m, BusyRecord DEF BusyWorker, TypeOK
<1>1. /\ \A n \in Models \ {m} : notices'[n] = notices[n]
      /\ notices'[m] = Append(notices[m], e)
  BY <1>m, <1>0 DEF Publish
<1>2. Writes(m)
  BY <1>1 DEF Writes, HasRow
<1>3. notices'[m] # <<>> /\ notices'[m][Len(notices'[m])] = e
  BY <1>0, <1>1 DEF Notice
<1>4. HasRow(m) => status[m] = e
  BY <1>m, <1>0 DEF OutcomeInv, WorkersAgree, Agrees, FailedPc
<1>5. Agrees(worker[w])'
  BY DEF Agrees, OwingPc
<1>6. HasRow(m) => /\ notices'[m] # <<>>
                   /\ status'[m] = notices'[m][Len(notices'[m])]
  BY <1>3, <1>4
<1>7. HasRow(m)' => Told(m)'
  BY <1>6 DEF HasRow, Told
<1> QED BY <1>2, <1>5, <1>7, <1>m, TaskKeepsOutcome

(* What a lost notice, a lost task, a swallowed or escaping soft limit, or *)
(* another writer of the row would break.                                  *)
Undisturbed ==
    {"crash", "hard", "db", "publish", "sweep", "soft_lost"} \cap Enabled = {}

LEMMA ScanOutcome ==
    ASSUME TypeOK, OutcomeInv, Undisturbed, NEW w \in Workers,
           scan_file(w) \/ generate_chunks(w)
    PROVE  OutcomeInv'
<1> USE DEF rowVars, storageVars, historyVars, apiVars
<1>0. /\ worker[w].pc \notin {"idle", "return"}
      /\ UNCHANGED confirm /\ UNCHANGED sweep
  BY DEF scan_file, generate_chunks, scan_load, scan_run,
         _dispatch_processing_task, infected_status, infected_delete,
         _publish_scan_failure, error_status, _publish_scan_error,
         scan_soft_handled, scan_soft_lost, scan_soft_late
<1>1. worker[w].model \in Models /\ worker[w].retries \in 0 .. ScanMaxRetries
  BY <1>0, BusyRecord DEF BusyWorker
<1>2. \A t \in TaskName, n \in 0 .. ScanMaxRetries :
         /\ Msg(t, worker[w].model, n) \in Message
         /\ Msg(t, worker[w].model, n).model = worker[w].model
  BY <1>1 DEF Msg, Message
<1>3. /\ "scan_file" \in TaskName /\ "convert" \in TaskName
      /\ "generate_chunks" \in TaskName /\ 0 \in 0 .. ScanMaxRetries
  BY DEF TaskName, ScanMaxRetries
<1>a. ASSUME NEW pc, pc \notin OwingPc, worker[w].pc \notin OwingPc,
             Goto(w, pc), UNCHANGED <<queue, status, notices>>
      PROVE  OutcomeInv'
  <2>1. Moves(w) /\ worker'[w].pc = pc
    BY <1>0, <1>a, TaskMoves
  <2> QED BY <1>0, <1>a, <2>1, SilentStep DEF OwingPc
<1>b. ASSUME worker[w].pc \notin OwingPc, Ack(w),
             UNCHANGED <<queue, status, notices>>
      PROVE  OutcomeInv'
  <2>1. Moves(w) /\ worker'[w].pc = "idle"
    BY <1>0, <1>b, TaskMoves
  <2> QED BY <1>0, <1>b, <2>1, SilentStep DEF OwingPc, FailedPc
<1>c. ASSUME NEW t \in TaskName, NEW n \in 0 .. ScanMaxRetries,
             worker[w].pc \notin OwingPc, Return(w),
             send_task(Msg(t, worker[w].model, n)), UNCHANGED <<status, notices>>
      PROVE  OutcomeInv'
  <2>1. Moves(w) /\ worker'[w].pc = "return"
    <3>1. PICK msg \in Message : /\ msg = Msg(t, worker[w].model, n)
                                 /\ msg.model = worker[w].model
      BY <1>2
    <3> QED BY <1>0, <1>c, <3>1, TaskMoves
  <2> QED BY <1>0, <1>c, <2>1, SilentStep DEF OwingPc, FailedPc
<1>d. ASSUME NEW pc \in FailedPc, Goto(w, pc),
             update_model_status(worker[w].model, "failed"),
             UNCHANGED <<queue, notices>>
      PROVE  OutcomeInv'
  <2>1. /\ Moves(w) /\ worker'[w].pc = pc
        /\ worker'[w].model = worker[w].model
    BY <1>0, <1>d, TaskMoves
  <2> QED BY <1>0, <1>d, <2>1, FinalStep
<1>e. ASSUME worker[w].pc \in FailedPc, Return(w),
             Publish(worker[w].model, "failed"), UNCHANGED <<queue, status>>
      PROVE  OutcomeInv'
  <2>1. Moves(w) /\ worker'[w].pc = "return"
    BY <1>0, <1>e, TaskMoves DEF Return
  <2> QED BY <1>0, <1>e, <2>1, NoticeStep DEF OwingPc, FailedPc, Undisturbed
<1>f. /\ {"return", "scan_run", "scan_dispatch", "scan_load", "infected_status",
          "route"} \cap OwingPc = {}
      /\ {"infected_delete", "infected_publish", "error_publish"}
             \subseteq FailedPc
  BY DEF OwingPc, FailedPc
<1>g. "db" \notin Enabled /\ ~SoftDue(w, "soft_lost")
  BY DEF Undisturbed, SoftDue
<1>h. ASSUME \/ Goto(w, "error_status")
             \/ SoftGoto(w, "error_status", "none"),
             UNCHANGED <<queue, status, notices>>
      PROVE  OutcomeInv'
  <2>1. Moves(w) /\ worker'[w].pc = "error_status"
    BY <1>0, <1>h, TaskMoves
  <2> QED BY <1>0, <1>h, <2>1, SilentStep DEF OwingPc, FailedPc
<1>4. CASE scan_load(w)
  BY <1>4, <1>a, <1>b, <1>f DEF scan_load
<1>5. CASE scan_run(w)
  <2>1. worker[w].pc = "scan_run" /\ UNCHANGED <<status, notices>>
    BY <1>5 DEF scan_run
  <2>2. CASE scan_retry(w, worker[w].model)
    <3>1. CASE UNCHANGED queue
      BY <1>a, <1>f, <2>1, <2>2, <3>1 DEF scan_retry, Return
    <3>2. CASE /\ worker[w].retries < ScanMaxRetries
               /\ send_task(Msg("scan_file", worker[w].model,
                                worker[w].retries + 1))
      <4>1. worker[w].retries + 1 \in 0 .. ScanMaxRetries
        BY <1>1, <3>2 DEF ScanMaxRetries
      <4> QED BY <1>c, <1>f, <1>3, <2>1, <2>2, <3>2, <4>1 DEF scan_retry
    <3> QED BY <2>2, <3>1, <3>2 DEF scan_retry
  <2>3. CASE ~ scan_retry(w, worker[w].model)
    BY <1>5, <1>a, <1>f, <1>h, <2>1, <2>3 DEF scan_run
  <2> QED BY <2>2, <2>3
<1>6. CASE _dispatch_processing_task(w)
  <2>1. ProcessingTask(worker[w].model) \in TaskName
    BY <1>3 DEF ProcessingTask
  <2> QED BY <1>6, <1>c, <1>f, <1>h, <1>3, <2>1 DEF _dispatch_processing_task
<1>7. CASE infected_status(w) \/ error_status(w)
  BY <1>7, <1>d, <1>a, <1>f, <1>g DEF infected_status, error_status
<1>8. CASE infected_delete(w)
  <2>1. /\ Goto(w, "infected_publish") /\ UNCHANGED <<queue, status, notices>>
        /\ worker[w].pc = "infected_delete"
    BY <1>8 DEF infected_delete
  <2>2. Moves(w) /\ worker'[w].pc = "infected_publish"
    BY <1>0, <2>1, TaskMoves
  <2> QED BY <1>0, <1>f, <2>1, <2>2, SilentStep DEF OwingPc
<1>9. CASE _publish_scan_failure(w) \/ _publish_scan_error(w)
  BY <1>9, <1>e, <1>f DEF _publish_scan_failure, _publish_scan_error,
     publish_model_failed
<1>10. CASE generate_chunks(w)
  BY <1>10, <1>a, <1>c, <1>f, <1>3 DEF generate_chunks, Return
<1>11. CASE scan_soft_handled(w) \/ scan_soft_lost(w) \/ scan_soft_late(w)
  BY <1>11, <1>g, <1>h DEF scan_soft_handled, scan_soft_lost, scan_soft_late
<1> QED BY <1>4, <1>5, <1>6, <1>7, <1>8, <1>9, <1>10, <1>11 DEF scan_file

LEMMA ConvertOutcome ==
    ASSUME TypeOK, OutcomeInv, Undisturbed, NEW w \in Workers, NEW f,
           NEW stages, Converter(w, f, stages) \/ GltfInvalid(w)
    PROVE  OutcomeInv'
<1> USE DEF rowVars, storageVars, historyVars, apiVars
<1>0. /\ worker[w].pc \notin {"idle", "return"}
      /\ UNCHANGED confirm /\ UNCHANGED sweep
  BY SoftEffects DEF ConvertPc, Converter, Guard, acquire_task_lock, Load,
     RunStage, StageFails, NotifyReady, dispatch_webhook_event, Release,
     EarlyRelease, handle_task_failure, FailRelease, GltfInvalid
<1>1. worker[w].model \in Models /\ worker[w].retries \in 0 .. ScanMaxRetries
  BY <1>0, BusyRecord DEF BusyWorker
<1>a. ASSUME NEW pc, NEW e, pc \notin OwingPc, worker[w].pc \notin OwingPc,
             Goto(w, pc) \/ SoftGoto(w, pc, e),
             UNCHANGED <<queue, status, notices>>
      PROVE  OutcomeInv'
  <2>1. Moves(w) /\ worker'[w].pc = pc
    BY <1>0, <1>a, TaskMoves
  <2> QED BY <1>0, <1>a, <2>1, SilentStep DEF OwingPc
<1>b. ASSUME worker[w].pc \notin OwingPc, Ack(w),
             UNCHANGED <<queue, status, notices>>
      PROVE  OutcomeInv'
  <2>1. Moves(w) /\ worker'[w].pc = "idle"
    BY <1>0, <1>b, TaskMoves
  <2> QED BY <1>0, <1>b, <2>1, SilentStep DEF OwingPc, FailedPc
<1>c. ASSUME \/ Goto(w, "early_release")
             \/ \E e : Raise(w, e) \/ SoftGoto(w, "early_release", e),
             UNCHANGED <<queue, status, notices>>
      PROVE  OutcomeInv'
  <2>1. Moves(w) /\ worker'[w].pc \in {"early_release", "fail_status"}
    BY <1>0, <1>c, TaskMoves
  <2> QED BY <1>0, <1>c, <2>1, SilentStep DEF OwingPc, FailedPc
<1>d. ASSUME worker[w].pc = "run", Moves(w), worker'[w].pc = "run",
             UNCHANGED <<status, notices>>
      PROVE  OutcomeInv'
  BY <1>0, <1>d, SilentStep DEF OwingPc, FailedPc
<1>e. ASSUME NEW pc, NEW s \in {"ready", "failed"}, Goto(w, pc),
             pc = IF s = "ready" THEN "notify" ELSE "fail_publish",
             update_model_status(worker[w].model, s),
             UNCHANGED <<queue, notices>>
      PROVE  OutcomeInv'
  <2>1. /\ Moves(w) /\ worker'[w].pc = pc
        /\ worker'[w].model = worker[w].model
    BY <1>0, <1>e, TaskMoves
  <2> QED BY <1>0, <1>e, <2>1, FinalStep DEF FailedPc
<1>f. ASSUME NEW pc \in {"webhook", "return", "fail_release"}, Goto(w, pc),
             NEW e \in {"ready", "failed"}, Publish(worker[w].model, e),
             worker[w].pc = IF e = "ready" THEN "notify" ELSE "fail_publish",
             UNCHANGED <<queue, status>>
      PROVE  OutcomeInv'
  <2>1. Moves(w) /\ worker'[w].pc = pc
    BY <1>0, <1>f, TaskMoves
  <2> QED BY <1>0, <1>f, <2>1, NoticeStep DEF OwingPc, FailedPc, Undisturbed
<1>g. "db" \notin Enabled /\ ~SoftDue(w, "soft_lost")
  BY DEF Undisturbed, SoftDue
<1>h. {"guard", "lock", "load", "run", "release", "webhook", "return",
       "fail_release"} \cap OwingPc = {}
  BY DEF OwingPc, FailedPc
<1>2. CASE Guard(w)
  BY <1>2, <1>a, <1>b, <1>g, <1>h DEF Guard
<1>3. CASE acquire_task_lock(w)
  BY <1>3, <1>a, <1>b, <1>h DEF acquire_task_lock
<1>4. CASE Load(w)
  <2>1. /\ worker[w].pc = "load" /\ UNCHANGED <<queue, status, notices>>
    BY <1>4 DEF Load
  <2>2. CASE worker' = [worker EXCEPT ![w] = [@ EXCEPT !.pc = "run",
                                                       !.stage = 1]]
    <3>1. worker[w] \in BusyWorker /\ worker \in [Workers -> Worker]
      BY <1>0, BusyRecord DEF TypeOK
    <3>2. Others(w) /\ worker'[w].pc = "run"
             /\ worker'[w].model = worker[w].model
      BY <2>2, <3>1 DEF Others, BusyWorker
    <3>3. Moves(w)
      BY <1>0, <2>1, <3>2 DEF Moves
    <3> QED BY <1>0, <1>h, <2>1, <3>2, <3>3, SilentStep DEF OwingPc, FailedPc
  <2> QED BY <1>4, <1>a, <1>c, <1>g, <1>h, <2>1, <2>2 DEF Load, Oversize
<1>5. CASE RunStage(w, stages)
  <2>0. worker[w].pc = "run" /\ UNCHANGED queue
    BY <1>5 DEF RunStage
  <2> DEFINE m == worker[w].model
  <2>a. worker[w] \in BusyWorker /\ worker \in [Workers -> Worker]
    BY <1>0, BusyRecord DEF TypeOK
  <2>1. CASE Download(w, m)
    <3>1. CASE raw[m] # "none"
      <4>1. Others(w) /\ worker'[w].pc = "run" /\ worker'[w].model = m
        <5>1. worker' = [worker EXCEPT ![w] =
                  [worker[w] EXCEPT !.stage = worker[w].stage + 1,
                                    !.src = raw[m]]]
          BY <2>1, <3>1 DEF Download
        <5> QED BY <2>0, <2>a, <5>1 DEF Others, BusyWorker
      <4> QED BY <1>0, <1>d, <2>0, <2>1, <4>1 DEF Moves, Download
    <3>2. CASE raw[m] = "none"
      BY <1>c, <2>0, <2>1, <3>2 DEF Download
    <3> QED BY <3>1, <3>2
  <2>2. CASE UploadChunk(w, m)
    <3>1. Others(w) /\ worker'[w].pc = "run" /\ worker'[w].model = m
      BY <2>0, <2>2, <2>a DEF UploadChunk, Others, BusyWorker
    <3> QED BY <1>0, <1>d, <2>0, <2>2, <3>1 DEF Moves, UploadChunk
  <2>3. CASE PersistMetadata(w, m)
    <3>1. CASE NextStage(w)
      BY <1>0, <1>d, <2>0, <2>3, <3>1, TaskMoves DEF PersistMetadata
    <3>2. CASE Raise(w, "permanent")
      BY <1>c, <2>0, <2>3, <3>2 DEF PersistMetadata
    <3> QED BY <2>3, <3>1, <3>2 DEF PersistMetadata
  <2>4. CASE Finalize(w, m)
    BY <1>e, <2>0, <2>4 DEF Finalize
  <2>5. CASE LocalStage(w)
    BY <1>0, <1>d, <2>0, <2>5, TaskMoves DEF LocalStage
  <2>6. \/ Download(w, m) \/ UploadChunk(w, m) \/ PersistMetadata(w, m)
        \/ Finalize(w, m) \/ LocalStage(w)
    BY <1>5 DEF RunStage
  <2> HIDE DEF m
  <2> QED BY <2>1, <2>2, <2>3, <2>4, <2>5, <2>6
<1>6. CASE StageFails(w, stages)
  BY <1>6, <1>c DEF StageFails
<1>7. CASE SoftLimit(w) \/ GltfInvalid(w)
  <2>1. CASE GltfInvalid(w)
    BY <1>c, <2>1 DEF GltfInvalid
  <2>2. CASE SoftLimit(w)
    <3>1. CASE SoftHandled(w) \/ SoftReleasesTwice(w)
      BY <1>c, <2>2, <3>1, SoftEffects DEF SoftHandled, SoftReleasesTwice
    <3>2. CASE SoftFailsOpen(w)
      BY <1>a, <1>h, <2>2, <3>2, SoftEffects DEF SoftFailsOpen
    <3> QED BY <1>g, <2>2, <3>1, <3>2
            DEF SoftLimit, SoftSwallowed, SoftEscapes
  <2> QED BY <1>7, <2>1, <2>2
<1>8. CASE NotifyReady(w)
  BY <1>8, <1>f DEF NotifyReady, publish_model_ready
<1>9. CASE dispatch_webhook_event(w)
  BY <1>9, <1>a, <1>c, <1>h DEF dispatch_webhook_event
<1>10. CASE Release(w)
  BY <1>10, <1>a, <1>h DEF Release, Return
<1>11. CASE EarlyRelease(w)
  BY <1>11, <1>c, <1>g DEF EarlyRelease
<1>12. CASE handle_task_failure(w)
  BY <1>12, <1>e, <1>f, <1>g DEF handle_task_failure, publish_model_failed,
     AfterFailure
<1>13. CASE FailRelease(w)
  <2>1. /\ worker[w].pc = "fail_release" /\ UNCHANGED <<status, notices>>
        /\ Return(w)
    BY <1>13 DEF FailRelease
  <2>2. CASE UNCHANGED queue
    BY <1>a, <1>h, <2>1, <2>2 DEF Return
  <2>3. CASE /\ worker[w].retries < ConvertMaxRetries
             /\ send_task(Msg("convert", worker[w].model, worker[w].retries + 1))
    <3>1. PICK msg : msg = Msg("convert", worker[w].model, worker[w].retries + 1)
      OBVIOUS
    <3>2. worker[w].retries + 1 \in 0 .. ScanMaxRetries
      BY <1>1, <2>3 DEF ScanMaxRetries, ConvertMaxRetries
    <3>3. msg \in Message /\ msg.model = worker[w].model
      BY <1>1, <3>1, <3>2 DEF Msg, Message, TaskName
    <3>4. Moves(w) /\ worker'[w].pc = "return"
      BY <1>0, <2>1, <2>3, <3>1, <3>3, TaskMoves
    <3> QED BY <1>0, <1>h, <2>1, <3>4, SilentStep DEF OwingPc, FailedPc
  <2> QED BY <1>13, <2>2, <2>3 DEF FailRelease
<1> QED BY <1>2, <1>3, <1>4, <1>5, <1>6, <1>7, <1>8, <1>9, <1>10, <1>11,
        <1>12, <1>13 DEF Converter

(* The parts of the invariant that a step of the API leaves to be shown.   *)
LEMMA FreshWrite ==
    ASSUME TypeOK, OutcomeInv, NEW m \in Models, Fresh(m),
           NEW s \in {"pending", "processing"},
           status' = [status EXCEPT ![m] = s],
           UNCHANGED <<notices, queue, worker, sweep>>
    PROVE  /\ OneWorker' /\ OneMessage' /\ WorkersAgree' /\ OutcomesTold'
           /\ NoSweep' /\ \A n \in Models : Fresh(n) <=> Fresh(n)'
           /\ \A n \in Models : status'[n] = IF n = m THEN s ELSE status[n]
<1>1. /\ \A n \in Models \ {m} : status'[n] = status[n]
      /\ status'[m] = s
  BY DEF TypeOK
<1>2. OneWorker' /\ OneMessage' /\ NoSweep'
  BY DEF OutcomeInv, OneWorker, OneMessage, NoSweep
<1>3. WorkersAgree'
  <2> SUFFICES ASSUME NEW w \in Workers  PROVE Agrees(worker[w])'
    BY DEF WorkersAgree
  <2>1. Agrees(worker[w])
    BY DEF OutcomeInv, WorkersAgree
  <2>2. CASE worker[w].model = m
    <3>1. worker[w].pc = "return"
      BY <2>2 DEF Fresh, NoToken, Active
    <3> QED BY <3>1 DEF Agrees, FailedPc
  <2>3. CASE worker[w].model # m
    BY <1>1, <2>1, <2>3 DEF Agrees, HasRow
  <2> QED BY <2>2, <2>3
<1>4. OutcomesTold'
  <2> SUFFICES ASSUME NEW n \in Models, HasRow(n)'
               PROVE  Told(n)' \/ Owed(n)'
    BY DEF OutcomesTold
  <2>1. CASE n = m
    BY <1>1, <2>1 DEF Told, Fresh, Terminal
  <2>2. CASE n # m
    <3>1. Told(n) \/ Owed(n)
      BY <1>1, <2>2 DEF OutcomeInv, OutcomesTold, HasRow
    <3> QED BY <1>1, <2>2, <3>1 DEF Told, Owed
  <2> QED BY <2>1, <2>2
<1>5. \A n \in Models : Fresh(n) <=> Fresh(n)'
  BY DEF Fresh, NoToken
<1> QED BY <1>1, <1>2, <1>3, <1>4, <1>5

(* A step that touches nothing of this.                                    *)
LEMMA RestOutcome ==
    ASSUME OutcomeInv, UNCHANGED <<status, notices, queue, worker, confirm,
                                   sweep>>
    PROVE  OutcomeInv'
<1>1. OneWorker' /\ OneMessage' /\ UnconfirmedAreFresh' /\ ConfirmedAreFresh'
  BY DEF OutcomeInv, OneWorker, OneMessage, UnconfirmedAreFresh,
         ConfirmedAreFresh, Fresh, NoToken
<1>2. WorkersAgree' /\ OutcomesTold' /\ NoSweep'
  BY DEF OutcomeInv, WorkersAgree, Agrees, OutcomesTold, Told, Owed, HasRow,
         NoSweep
<1> QED BY <1>1, <1>2 DEF OutcomeInv

LEMMA UploadOutcome ==
    ASSUME TypeOK, OutcomeInv, NEW m \in Models,
           initiate_upload(m) \/ upload_local_file(m) \/ delete_model(m)
    PROVE  OutcomeInv'
<1> USE DEF rowVars, storageVars, historyVars, apiVars
<1>1. CASE initiate_upload(m)
  <2>1. status[m] = "absent" /\ status' = [status EXCEPT ![m] = "pending"]
        /\ UNCHANGED <<notices, queue, worker, confirm, sweep>>
    BY <1>1 DEF initiate_upload
  <2>2. Fresh(m)
    BY <2>1 DEF OutcomeInv, UnconfirmedAreFresh
  <2>3. /\ OneWorker' /\ OneMessage' /\ WorkersAgree' /\ OutcomesTold'
        /\ NoSweep' /\ \A n \in Models : Fresh(n) <=> Fresh(n)'
        /\ \A n \in Models : status'[n] = IF n = m THEN "pending" ELSE status[n]
    BY <2>1, <2>2, FreshWrite
  <2>4. UnconfirmedAreFresh'
    <3> SUFFICES ASSUME NEW n \in Models, status'[n] \in {"absent", "pending"}
                 PROVE  Fresh(n)'
      BY DEF UnconfirmedAreFresh, Fresh, NoToken
    <3> QED BY <2>2, <2>3 DEF OutcomeInv, UnconfirmedAreFresh
  <2>5. ConfirmedAreFresh'
    <3> SUFFICES ASSUME NEW r \in Requests, confirm[r].pc # "idle",
                        NEW n, n = confirm[r].model
                 PROVE  /\ n \in Models /\ Fresh(n)' /\ status'[n] # "absent"
                        /\ status'[n] = "pending" => confirm[r].pc # "enqueue"
      BY <2>1 DEF ConfirmedAreFresh, Fresh, NoToken
    <3>1. n \in Models /\ Fresh(n) /\ status[n] # "absent"
          /\ (status[n] = "pending" => confirm[r].pc # "enqueue")
      BY DEF OutcomeInv, ConfirmedAreFresh
    <3>2. n # m
      BY <2>1, <3>1
    <3> QED BY <2>3, <3>1, <3>2
  <2> QED BY <2>3, <2>4, <2>5 DEF OutcomeInv
<1>2. CASE upload_local_file(m)
  BY <1>2, RestOutcome DEF upload_local_file
<1>3. CASE delete_model(m)
  <2>1. CASE delete_row(m)
    <3>1. /\ \A n \in Models \ {m} : status'[n] = status[n]
          /\ status'[m] = "deleted"
          /\ UNCHANGED <<notices, queue, worker, confirm, sweep>>
      BY <2>1 DEF delete_row, TypeOK
    <3>2. \A n \in Models : Fresh(n) <=> Fresh(n)'
      BY <3>1 DEF Fresh, NoToken
    <3>3. OneWorker' /\ OneMessage' /\ NoSweep'
      BY <3>1 DEF OutcomeInv, OneWorker, OneMessage, NoSweep
    <3>4. UnconfirmedAreFresh'
      <4> SUFFICES ASSUME NEW n \in Models, status'[n] \in {"absent", "pending"}
                   PROVE  Fresh(n)'
        BY DEF UnconfirmedAreFresh, Fresh, NoToken
      <4> QED BY <3>1, <3>2 DEF OutcomeInv, UnconfirmedAreFresh
    <3>5. ConfirmedAreFresh'
      <4> SUFFICES ASSUME NEW r \in Requests, confirm[r].pc # "idle",
                          NEW n, n = confirm[r].model
                   PROVE  /\ n \in Models /\ Fresh(n)' /\ status'[n] # "absent"
                          /\ status'[n] = "pending" => confirm[r].pc # "enqueue"
        BY <3>1 DEF ConfirmedAreFresh, Fresh, NoToken
      <4>1. n \in Models /\ Fresh(n) /\ status[n] # "absent"
            /\ (status[n] = "pending" => confirm[r].pc # "enqueue")
        BY DEF OutcomeInv, ConfirmedAreFresh
      <4> QED BY <3>1, <3>2, <4>1
    <3>6. WorkersAgree'
      BY <3>1 DEF OutcomeInv, WorkersAgree, Agrees, HasRow
    <3>7. OutcomesTold'
      <4> SUFFICES ASSUME NEW n \in Models, HasRow(n)'
                   PROVE  Told(n)' \/ Owed(n)'
        BY DEF OutcomesTold
      <4>1. n # m /\ status'[n] = status[n]
        BY <3>1 DEF HasRow
      <4>2. Told(n) \/ Owed(n)
        BY <4>1 DEF OutcomeInv, OutcomesTold, HasRow
      <4> QED BY <3>1, <4>1, <4>2 DEF Told, Owed
    <3> QED BY <3>3, <3>4, <3>5, <3>6, <3>7 DEF OutcomeInv
  <2> QED BY <1>3, <2>1, RestOutcome DEF delete_model, delete_select,
          delete_raw_object, delete_processed_objects
<1> QED BY <1>1, <1>2, <1>3

(* The one request fails an upload whose bytes do not match the format, and *)
(* says so.                                                                *)
LEMMA MismatchOutcome ==
    ASSUME TypeOK, OutcomeInv, \A p, q \in Requests : p = q,
           NEW r \in Requests, NEW m, m = confirm[r].model,
           confirm[r].pc # "idle", update_model_status(m, "failed"),
           notices' = [notices EXCEPT ![m] = Append(@, "failed")],
           EndRequest(r), UNCHANGED <<queue, worker, sweep>>
    PROVE  OutcomeInv'
<1>1. m \in Models /\ Fresh(m) /\ status[m] # "absent"
  BY DEF OutcomeInv, ConfirmedAreFresh
<1>2. /\ \A n \in Models \ {m} : /\ status'[n] = status[n]
                                 /\ notices'[n] = notices[n]
      /\ status'[m] = IF HasRow(m) THEN "failed" ELSE status[m]
      /\ notices'[m] = <<"failed">>
  BY <1>1 DEF TypeOK, update_model_status, Fresh
<1>3. HasRow(m)' => status'[m] = "failed"
  BY <1>2 DEF HasRow
<1>4. status'[m] \notin {"absent", "pending"}
  BY <1>1, <1>2 DEF HasRow
<1>5. OneWorker' /\ OneMessage' /\ NoSweep'
  BY DEF OutcomeInv, OneWorker, OneMessage, NoSweep
<1>6. UnconfirmedAreFresh'
  BY <1>2, <1>4 DEF OutcomeInv, UnconfirmedAreFresh, Fresh, NoToken
<1>7. ConfirmedAreFresh'
  BY DEF TypeOK, EndRequest, ConfirmedAreFresh
<1>8. WorkersAgree'
  <2> SUFFICES ASSUME NEW w \in Workers  PROVE Agrees(worker[w])'
    BY DEF WorkersAgree
  <2>1. Agrees(worker[w])
    BY DEF OutcomeInv, WorkersAgree
  <2>2. CASE worker[w].model = m
    <3>1. worker[w].pc = "return"
      BY <1>1, <2>2 DEF Fresh, NoToken, Active
    <3> QED BY <3>1 DEF Agrees, FailedPc
  <2>3. CASE worker[w].model # m
    BY <1>2, <2>1, <2>3 DEF Agrees, HasRow
  <2> QED BY <2>2, <2>3
<1>9. OutcomesTold'
  <2> SUFFICES ASSUME NEW n \in Models, HasRow(n)'
               PROVE  Told(n)' \/ Owed(n)'
    BY DEF OutcomesTold
  <2>1. CASE n = m
    <3>1. status'[n] = "failed" /\ notices'[n] = <<"failed">>
      BY <1>2, <1>3, <2>1 DEF HasRow
    <3>2. PICK told : told = <<"failed">>
      OBVIOUS
    <3>3. Len(told) = 1 /\ told[1] = "failed" /\ told # <<>>
      BY <3>2
    <3>4. notices'[n] = told
      BY <3>1, <3>2
    <3> QED BY <3>1, <3>3, <3>4 DEF Told
  <2>2. CASE n # m
    <3>1. Told(n) \/ Owed(n)
      BY <1>2, <2>2 DEF OutcomeInv, OutcomesTold, HasRow
    <3> QED BY <1>2, <2>2, <3>1 DEF Told, Owed
  <2> QED BY <2>1, <2>2
<1> QED BY <1>5, <1>6, <1>7, <1>8, <1>9 DEF OutcomeInv

(* The one request: nothing of its model is under way before it enqueues.  *)
LEMMA ConfirmOutcome ==
    ASSUME TypeOK, OutcomeInv, \A p, q \in Requests : p = q,
           NEW r \in Requests, confirm_upload(r)
    PROVE  OutcomeInv'
<1> USE DEF rowVars, storageVars, historyVars, apiVars
<1> DEFINE Refused ==
        /\ confirm[r].pc = "verify" /\ EndRequest(r)
        /\ update_model_status(confirm[r].model, "failed")
        /\ notices' = [notices EXCEPT ![confirm[r].model]
                                       = Append(@, "failed")]
<1>r. Refused \/ UNCHANGED notices
  BY DEF confirm_upload, confirm_select, confirm_verify, confirm_commit,
         confirm_enqueue
<1>u. UNCHANGED <<worker, sweep>>
  BY DEF confirm_upload, confirm_select, confirm_verify, confirm_commit,
         confirm_enqueue
<1>v. CASE Refused
  <2>1. UNCHANGED queue
    BY <1>v DEF confirm_upload, confirm_select, confirm_verify,
       confirm_commit, confirm_enqueue
  <2> QED BY <1>u, <1>v, <2>1, MismatchOutcome
<1>0. SUFFICES ASSUME ~Refused, UNCHANGED <<notices, worker, sweep>>
               PROVE  OutcomeInv'
  BY <1>r, <1>u, <1>v
<1>1. confirm[r] \in [pc : ConfirmPc, model : Models \cup {NoModel}]
  BY DEF TypeOK
<1>2. \A p \in ConfirmPc :
         confirm' = [confirm EXCEPT ![r].pc = p] =>
             confirm'[r].pc = p /\ confirm'[r].model = confirm[r].model
  BY <1>1 DEF TypeOK
<1>3. EndRequest(r) => \A q \in Requests : confirm'[q].pc = "idle"
  BY DEF TypeOK, EndRequest
<1>4. \A n \in Models : UNCHANGED queue => (Fresh(n) <=> Fresh(n)')
  BY <1>0 DEF Fresh, NoToken
<1>a. UNCHANGED <<status, queue>> =>
         /\ OneWorker' /\ OneMessage' /\ WorkersAgree' /\ OutcomesTold'
         /\ NoSweep' /\ UnconfirmedAreFresh'
  BY <1>0 DEF OutcomeInv, OneWorker, OneMessage, WorkersAgree, Agrees, HasRow,
     OutcomesTold, Told, Owed, NoSweep, UnconfirmedAreFresh, Fresh, NoToken
<1>b. ASSUME EndRequest(r)  PROVE ConfirmedAreFresh'
  BY <1>3, <1>b DEF ConfirmedAreFresh
<1>c. ASSUME NEW n \in Models, confirm'[r].model = n, Fresh(n),
             UNCHANGED queue, status'[n] # "absent",
             status'[n] = "pending" => confirm'[r].pc # "enqueue"
      PROVE  ConfirmedAreFresh'
  <2> SUFFICES ASSUME NEW q \in Requests, NEW o, o = confirm'[q].model
               PROVE  /\ o \in Models /\ Fresh(o)' /\ status'[o] # "absent"
                      /\ status'[o] = "pending" => confirm'[q].pc # "enqueue"
    BY DEF ConfirmedAreFresh, Fresh, NoToken
  <2>1. q = r /\ o = n
    BY <1>c
  <2> QED BY <1>4, <1>c, <2>1
<1>5. ASSUME NEW m \in Models, confirm_select(r, m)  PROVE OutcomeInv'
  <2>1. /\ confirm'[r].model = m /\ confirm'[r].pc = "verify"
        /\ status[m] = "pending" /\ UNCHANGED <<status, queue>>
    BY <1>5 DEF confirm_select, TypeOK
  <2>2. Fresh(m)
    BY <2>1 DEF OutcomeInv, UnconfirmedAreFresh
  <2> QED BY <1>a, <1>c, <2>1, <2>2 DEF OutcomeInv
<1>6. ASSUME confirm[r].pc # "idle", NEW m, m = confirm[r].model
      PROVE  /\ m \in Models /\ Fresh(m) /\ status[m] # "absent"
             /\ status[m] = "pending" => confirm[r].pc # "enqueue"
  BY <1>6 DEF OutcomeInv, ConfirmedAreFresh
<1>7. ASSUME NEW m \in Models, m = confirm[r].model, confirm[r].pc # "idle",
             update_model_status(m, "processing"), UNCHANGED queue
      PROVE  /\ OneWorker' /\ OneMessage' /\ WorkersAgree' /\ OutcomesTold'
             /\ NoSweep' /\ UnconfirmedAreFresh'
             /\ status'[m] \in {"processing", "deleted"}
  <2>1. Fresh(m) /\ status[m] # "absent"
    BY <1>6, <1>7
  <2>2. CASE HasRow(m)
    <3>1. status' = [status EXCEPT ![m] = "processing"]
      BY <1>7, <2>2 DEF update_model_status
    <3>2. /\ OneWorker' /\ OneMessage' /\ WorkersAgree' /\ OutcomesTold'
          /\ NoSweep' /\ \A n \in Models : Fresh(n) <=> Fresh(n)'
          /\ \A n \in Models :
                status'[n] = IF n = m THEN "processing" ELSE status[n]
      BY <1>0, <1>7, <2>1, <3>1, FreshWrite
    <3>3. UnconfirmedAreFresh'
      <4> SUFFICES ASSUME NEW n \in Models, status'[n] \in {"absent", "pending"}
                   PROVE  Fresh(n)'
        BY DEF UnconfirmedAreFresh, Fresh, NoToken
      <4> QED BY <2>1, <3>2 DEF OutcomeInv, UnconfirmedAreFresh
    <3> QED BY <3>2, <3>3
  <2>3. CASE ~ HasRow(m)
    <3>1. UNCHANGED status /\ status[m] = "deleted"
      BY <1>7, <2>1, <2>3 DEF update_model_status, HasRow
    <3> QED BY <1>7, <1>a, <3>1
  <2> QED BY <2>2, <2>3
<1>8. CASE confirm_verify(r)
  <2>1. PICK m : m = confirm[r].model
    OBVIOUS
  <2>2. /\ confirm[r].pc = "verify" /\ UNCHANGED queue
        /\ m \in Models /\ Fresh(m) /\ status[m] # "absent"
    BY <1>6, <1>8, <2>1 DEF confirm_verify
  <2>3. CASE UNCHANGED status /\ confirm' = [confirm EXCEPT ![r].pc = "commit"]
    <3>1. confirm'[r].pc = "commit" /\ confirm'[r].model = m
      BY <1>2, <2>1, <2>3 DEF ConfirmPc
    <3> QED BY <1>a, <1>c, <2>2, <2>3, <3>1 DEF OutcomeInv
  <2>4. CASE EndRequest(r) /\ UNCHANGED status
    BY <1>a, <1>b, <2>2, <2>4 DEF OutcomeInv
  <2> QED BY <1>0, <1>8, <2>3, <2>4 DEF confirm_verify
<1>9. CASE confirm_commit(r)
  <2>1. PICK m : m = confirm[r].model
    OBVIOUS
  <2>2. /\ confirm[r].pc = "commit" /\ UNCHANGED queue
        /\ m \in Models /\ Fresh(m) /\ status[m] # "absent"
        /\ update_model_status(m, "processing")
    BY <1>6, <1>9, <2>1 DEF confirm_commit
  <2>3. /\ OneWorker' /\ OneMessage' /\ WorkersAgree' /\ OutcomesTold'
        /\ NoSweep' /\ UnconfirmedAreFresh'
        /\ status'[m] \in {"processing", "deleted"}
    BY <1>7, <2>1, <2>2
  <2>4. CASE EndRequest(r)
    BY <1>b, <2>3, <2>4 DEF OutcomeInv
  <2>5. CASE confirm' = [confirm EXCEPT ![r].pc = "enqueue"]
    <3>1. confirm'[r].pc = "enqueue" /\ confirm'[r].model = m
      BY <1>2, <2>1, <2>5 DEF ConfirmPc
    <3> QED BY <1>c, <2>2, <2>3, <3>1 DEF OutcomeInv
  <2> QED BY <1>9, <2>1, <2>4, <2>5 DEF confirm_commit
<1>10. CASE confirm_enqueue(r)
  <2>1. PICK m : m = confirm[r].model
    OBVIOUS
  <2>2. /\ confirm[r].pc = "enqueue" /\ UNCHANGED status /\ EndRequest(r)
        /\ m \in Models /\ Fresh(m) /\ status[m] \notin {"absent", "pending"}
    BY <1>6, <1>10, <2>1 DEF confirm_enqueue
  <2>3. CASE UNCHANGED queue
    BY <1>a, <1>b, <2>2, <2>3 DEF OutcomeInv
  <2>4. CASE send_task(Msg("scan_file", m, 0))
    <3>1. OneMessage' /\ \A n \in Models \ {m} : NoToken(n) => NoToken(n)'
      BY <1>0, <2>2, <2>4, FirstMessage DEF OutcomeInv, Fresh
    <3>2. OneWorker' /\ WorkersAgree' /\ OutcomesTold' /\ NoSweep'
      BY <1>0, <2>2 DEF OutcomeInv, OneWorker, WorkersAgree, Agrees, HasRow,
         OutcomesTold, Told, Owed, NoSweep
    <3>3. UnconfirmedAreFresh'
      <4> SUFFICES ASSUME NEW n \in Models, status[n] \in {"absent", "pending"}
                   PROVE  Fresh(n)'
        BY <2>2 DEF UnconfirmedAreFresh, Fresh, NoToken
      <4>1. Fresh(n) /\ n # m
        BY <2>2 DEF OutcomeInv, UnconfirmedAreFresh
      <4>2. NoToken(n)'
        BY <3>1, <4>1 DEF Fresh
      <4> QED BY <1>0, <4>1, <4>2 DEF Fresh
    <3> QED BY <1>b, <2>2, <3>1, <3>2, <3>3 DEF OutcomeInv
  <2> QED BY <1>10, <2>1, <2>3, <2>4 DEF confirm_enqueue
<1> QED BY <1>5, <1>8, <1>9, <1>10 DEF confirm_upload

LEMMA WorkerOutcome ==
    ASSUME TypeOK, OutcomeInv, Undisturbed, NEW w \in Workers,
           \/ \E msg \in Message : Take(w, msg)
           \/ AckLate(w) \/ Crash(w) \/ HardLimit(w)
    PROVE  OutcomeInv'
<1> USE DEF rowVars, storageVars, historyVars, apiVars
<1>1. ~ Crash(w) /\ ~ HardLimit(w)
  BY DEF Undisturbed, Crash, HardLimit
<1>2. CASE AckLate(w)
  <2>1. /\ worker[w].pc = "return" /\ Ack(w)
        /\ UNCHANGED <<status, notices, queue, confirm, sweep>>
    BY <1>2 DEF AckLate
  <2>2. Others(w) /\ worker'[w] = Idle
    BY <2>1 DEF TypeOK, Ack, Others
  <2>3. Moves(w) /\ worker'[w].pc = "idle"
    BY <2>1, <2>2 DEF Moves, Idle
  <2> QED BY <2>1, <2>3, SilentStep DEF OwingPc, FailedPc
<1>3. ASSUME NEW msg \in Message, Take(w, msg)  PROVE OutcomeInv'
  <2>1. PICK m : m = msg.model
    OBVIOUS
  <2>2. UNCHANGED <<status, notices, confirm, sweep>>
    BY <1>3 DEF Take
  <2>3. /\ Others(w) /\ worker'[w].model = m
        /\ worker[w].pc = "idle"
        /\ worker'[w].pc \in {"scan_load", "route", "guard"}
        /\ OneWorker' /\ OneMessage'
        /\ \A n \in Models : NoToken(n) => NoToken(n)'
    BY <1>3, <2>1, TakeMoves DEF OutcomeInv
  <2>4. \A n \in Models : Fresh(n) => Fresh(n)'
    BY <2>2, <2>3 DEF Fresh
  <2>5. UnconfirmedAreFresh'
    <3> SUFFICES ASSUME NEW n \in Models, status[n] \in {"absent", "pending"}
                 PROVE  Fresh(n)'
      BY <2>2 DEF UnconfirmedAreFresh, Fresh, NoToken
    <3> QED BY <2>4 DEF OutcomeInv, UnconfirmedAreFresh
  <2>6. ConfirmedAreFresh'
    <3> SUFFICES ASSUME NEW r \in Requests, confirm[r].pc # "idle",
                        NEW n, n = confirm[r].model
                 PROVE  /\ n \in Models /\ Fresh(n)' /\ status[n] # "absent"
                        /\ status[n] = "pending" => confirm[r].pc # "enqueue"
      BY <2>2 DEF ConfirmedAreFresh, Fresh, NoToken
    <3>1. n \in Models /\ Fresh(n) /\ status[n] # "absent"
          /\ (status[n] = "pending" => confirm[r].pc # "enqueue")
      BY DEF OutcomeInv, ConfirmedAreFresh
    <3> QED BY <2>4, <3>1
  <2>7. WorkersAgree'
    <3> SUFFICES ASSUME NEW v \in Workers  PROVE Agrees(worker[v])'
      BY DEF WorkersAgree
    <3>1. CASE v = w
      BY <2>3, <3>1 DEF Agrees, FailedPc
    <3>2. CASE v # w
      BY <2>2, <2>3, <3>2 DEF OutcomeInv, WorkersAgree, Agrees, Others, HasRow
    <3> QED BY <3>1, <3>2
  <2>8. OutcomesTold'
    <3> SUFFICES ASSUME NEW n \in Models, HasRow(n)'
                 PROVE  Told(n)' \/ Owed(n)'
      BY DEF OutcomesTold
    <3>1. Told(n) \/ Owed(n)
      BY <2>2 DEF OutcomeInv, OutcomesTold, HasRow
    <3>2. Told(n) => Told(n)'
      BY <2>2 DEF Told
    <3>3. Owed(n) => Owed(n)'
      BY <2>2, <2>3 DEF Owed, Others, OwingPc, FailedPc
    <3> QED BY <3>1, <3>2, <3>3
  <2>9. NoSweep'
    BY <2>2 DEF OutcomeInv, NoSweep
  <2> QED BY <2>3, <2>5, <2>6, <2>7, <2>8, <2>9 DEF OutcomeInv
<1> QED BY <1>1, <1>2, <1>3

LEMMA NextOutcome ==
    ASSUME TypeOK, OutcomeInv, Undisturbed, \A p, q \in Requests : p = q,
           [Next]_vars
    PROVE  OutcomeInv'
<1>1. CASE UNCHANGED vars
  BY <1>1, RestOutcome DEF vars, rowVars, historyVars, apiVars
<1>2. ASSUME NEW m \in Models, LockExpire(m)  PROVE OutcomeInv'
  BY <1>2, RestOutcome DEF LockExpire, rowVars, historyVars, apiVars
<1>3. ASSUME NEW w \in Workers, Tasks(w)  PROVE OutcomeInv'
  BY <1>3, ScanOutcome, ConvertOutcome, WorkerOutcome
  DEF Tasks, process_model, process_gltf, process_step, process_obj, process_stl
<1>4. ~ cleanup_abandoned_uploads
  <2>1. "sweep" \notin Enabled
    BY DEF Undisturbed
  <2> QED BY <2>1 DEF cleanup_abandoned_uploads, sweep_select, sweep_fail,
          sweep_delete, OutcomeInv, NoSweep
<1> QED BY <1>1, <1>2, <1>3, <1>4, UploadOutcome, ConfirmOutcome, WorkerOutcome
        DEF Next

(***************************************************************************)
(* The client hears about the outcome: when nothing is under way for a     *)
(* model, a ready or failed one was announced, and what was announced last *)
(* is its status.  For any number of models, workers, chunks and retries,  *)
(* and any deletions, late uploads, storage, broker, scanner, lock and     *)
(* webhook errors, and soft time limits that a handler takes or that       *)
(* strike at the lock; but for one confirm at a time and without the       *)
(* events in Undisturbed, each of which breaks it.                         *)
(***************************************************************************)
THEOREM OutcomesArePublished ==
    ASSUME \A p, q \in Requests : p = q, Undisturbed
    PROVE  Spec => []OutcomeIsPublished
<1>1. Init => OutcomeInv
  <2> SUFFICES ASSUME Init  PROVE OutcomeInv
    OBVIOUS
  <2>1. \A w \in Workers, m \in Models : ~ Active(worker[w], m)
    BY ConstantsOK DEF Init, Active, Idle
  <2>2. OneWorker /\ OneMessage
    BY <2>1 DEF Init, OneWorker, OneMessage
  <2>3. UnconfirmedAreFresh /\ ConfirmedAreFresh
    BY <2>1 DEF Init, UnconfirmedAreFresh, ConfirmedAreFresh, Fresh, NoToken
  <2>4. WorkersAgree /\ OutcomesTold /\ NoSweep
    BY ConstantsOK DEF Init, WorkersAgree, Agrees, Idle, OutcomesTold, HasRow,
       NoSweep
  <2> QED BY <2>2, <2>3, <2>4 DEF OutcomeInv
<1>2. TypeOK /\ OutcomeInv /\ [Next]_vars => OutcomeInv'
  BY NextOutcome
<1>3. OutcomeInv => OutcomeIsPublished
  <2> SUFFICES ASSUME OutcomeInv, NEW m \in Models, Quiet(m), HasRow(m)
               PROVE  /\ status[m] \in Terminal => notices[m] # <<>>
                      /\ notices[m] # <<>>
                            => status[m] = notices[m][Len(notices[m])]
    BY DEF OutcomeIsPublished
  <2>1. ~ Owed(m)
    BY DEF Quiet, Owed
  <2> QED BY <2>1 DEF OutcomeInv, OutcomesTold, Told
<1> QED BY <1>1, <1>2, <1>3, TypeCorrect, PTL DEF Spec

-----------------------------------------------------------------------------
(* The life of a model.  Who is about to write a final status knows that   *)
(* the model is still being processed, or was deleted.                     *)

WritingPc == {"scan_load", "scan_run", "scan_dispatch", "infected_status",
              "error_status", "route", "lock", "load", "run",
              "early_release", "fail_status"}

InProgress(m) == status[m] \in {"processing", "deleted"}

WritersKnow ==
    \A w \in Workers :
        worker[w].pc \in WritingPc => InProgress(worker[w].model)

(* A conversion may be tried again after it failed: its guard decides.     *)
MessagesKnow ==
    \A msg \in Message :
        queue[msg] # 0 /\ msg.task # "convert" => InProgress(msg.model)

UnconfirmedHaveNoToken ==
    \A m \in Models : status[m] \in {"absent", "pending"} => NoToken(m)

ConfirmsKnow ==
    \A r \in Requests :
        confirm[r].pc # "idle" =>
            /\ confirm[r].model \in Models /\ NoToken(confirm[r].model)
            /\ IF confirm[r].pc = "enqueue" THEN InProgress(confirm[r].model)
               ELSE status[confirm[r].model] \in {"pending", "deleted"}

FlowInv == /\ OneWorker /\ OneMessage /\ UnconfirmedHaveNoToken
           /\ ConfirmsKnow /\ WritersKnow /\ MessagesKnow /\ NoSweep

(* A step of the flow, and what else can write a status than the owner of  *)
(* the token.                                                              *)
FlowStep ==
    FlowInv' /\ \A m \in Models : StatusStep(status[m], status'[m])

OnlyTokensWrite ==
    {"crash", "webhook", "soft", "soft_lost", "soft_lock", "sweep"}
        \cap Enabled = {}

(* Without soft limits no task takes the steps of one.                     *)
LEMMA NoSoftLimit ==
    ASSUME OnlyTokensWrite, NEW w
    PROVE  /\ \A where \in {"soft", "soft_lost", "soft_lock"} :
                  ~SoftDue(w, where)
           /\ ~scan_soft_handled(w) /\ ~scan_soft_lost(w) /\ ~scan_soft_late(w)
           /\ ~SoftLimit(w)
<1>1. \A where \in {"soft", "soft_lost", "soft_lock"} : ~SoftDue(w, where)
  BY DEF OnlyTokensWrite, SoftDue
<1> QED BY <1>1 DEF scan_soft_handled, scan_soft_lost, scan_soft_late,
        SoftLimit, SoftHandled, SoftSwallowed, SoftEscapes, SoftFailsOpen,
        SoftReleasesTwice

(* A step of a task keeps the invariant, if it writes a status, or sends a *)
(* message, where it knows that the model is in progress.                  *)
LEMMA TaskKeepsFlow ==
    ASSUME TypeOK, FlowInv, NEW w \in Workers, worker[w].pc # "idle",
           NEW m, m = worker[w].model, Moves(w), UNCHANGED sweep,
           \/ UNCHANGED status
           \/ /\ worker[w].pc \in WritingPc
              /\ \E s \in {"ready", "failed"} : update_model_status(m, s),
           worker'[w].pc \in WritingPc =>
               /\ UNCHANGED status
               /\ worker[w].pc \in WritingPc \/ ~ is_already_processed(m),
           \/ UNCHANGED queue
           \/ UNCHANGED status /\ worker[w].pc \in WritingPc
           \/ \E n : send_task(Msg("convert", m, n))
    PROVE  FlowStep
<1>0. /\ m \in Models /\ worker[w] \in BusyWorker
      /\ status \in [Models -> Status] /\ queue \in [Message -> Nat]
      /\ "return" \notin WritingPc /\ "idle" \notin WritingPc
  BY BusyRecord DEF BusyWorker, TypeOK, WritingPc
<1>1. /\ OneWorker' /\ OneMessage'
      /\ \A n \in Models : NoToken(n) =>
            NoToken(n)' /\ (m # n \/ worker[w].pc = "return")
  BY TokenMoves DEF FlowInv
<1>2. worker[w].pc \in WritingPc => InProgress(m)
  BY DEF FlowInv, WritersKnow
<1>3. /\ \A n \in Models \ {m} : status'[n] = status[n]
      /\ \/ status'[m] = status[m]
         \/ /\ worker[w].pc \in WritingPc /\ status[m] = "processing"
            /\ status'[m] \in {"ready", "failed"}
  BY <1>0, <1>2 DEF update_model_status, HasRow, InProgress
<1>4. \A n \in Models : StatusStep(status[n], status'[n])
  <2> SUFFICES ASSUME NEW n \in Models  PROVE StatusStep(status[n], status'[n])
    OBVIOUS
  <2>1. \/ status'[n] = status[n]
        \/ status[n] = "processing" /\ status'[n] \in {"ready", "failed"}
    BY <1>3
  <2> QED BY <2>1 DEF StatusStep
<1>5. UnconfirmedHaveNoToken'
  <2> SUFFICES ASSUME NEW n \in Models, status'[n] \in {"absent", "pending"}
               PROVE  NoToken(n)'
    BY DEF UnconfirmedHaveNoToken, NoToken
  <2>1. status[n] = status'[n]
    BY <1>3
  <2> QED BY <1>1, <2>1 DEF FlowInv, UnconfirmedHaveNoToken
<1>6. ConfirmsKnow'
  <2> SUFFICES ASSUME NEW r \in Requests, confirm[r].pc # "idle",
                      NEW n, n = confirm[r].model
               PROVE  /\ n \in Models /\ NoToken(n)'
                      /\ IF confirm[r].pc = "enqueue" THEN InProgress(n)'
                         ELSE status'[n] \in {"pending", "deleted"}
    BY DEF ConfirmsKnow, NoToken, InProgress, Moves
  <2>1. /\ n \in Models /\ NoToken(n)
        /\ IF confirm[r].pc = "enqueue" THEN InProgress(n)
           ELSE status[n] \in {"pending", "deleted"}
    BY DEF FlowInv, ConfirmsKnow
  <2>2. NoToken(n)' /\ status'[n] = status[n]
    BY <1>0, <1>1, <1>3, <2>1
  <2> QED BY <2>1, <2>2 DEF InProgress
<1>7. WritersKnow'
  <2> SUFFICES ASSUME NEW v \in Workers, worker'[v].pc \in WritingPc
               PROVE  status'[worker'[v].model] \in {"processing", "deleted"}
    BY DEF WritersKnow, InProgress
  <2>1. CASE v = w
    <3>1. worker'[w].model = m /\ UNCHANGED status /\ worker[w].pc # "return"
      BY <1>0, <2>1 DEF Moves, Idle
    <3>2. CASE worker[w].pc \in WritingPc
      BY <1>2, <2>1, <3>1, <3>2 DEF InProgress
    <3>3. CASE ~ is_already_processed(m)
      <4>1. ~ NoToken(m)
        BY <3>1 DEF NoToken, Active
      <4>2. status[m] \notin {"absent", "pending", "ready", "failed"}
        BY <1>0, <3>3, <4>1 DEF FlowInv, UnconfirmedHaveNoToken,
           is_already_processed, Terminal
      <4> QED BY <1>0, <2>1, <3>1, <4>2 DEF Status
    <3> QED BY <2>1, <3>2, <3>3
  <2>2. CASE v # w
    <3>1. /\ worker'[v] = worker[v] /\ worker[v].pc \in WritingPc
          /\ worker[v].pc \notin {"return", "idle"}
      BY <1>0, <2>2 DEF Moves, Others
    <3>2. InProgress(worker[v].model) /\ worker[v].model \in Models
      BY <3>1, BusyRecord DEF FlowInv, WritersKnow, BusyWorker
    <3>3. CASE worker[v].model # m
      BY <1>3, <3>1, <3>2, <3>3 DEF InProgress
    <3>4. CASE worker[v].model = m
      <4>1. worker[w].pc = "return"
        BY <1>0, <2>2, <3>1, <3>4 DEF FlowInv, OneWorker, Active
      <4> QED BY <1>0, <1>3, <3>1, <3>2, <3>4, <4>1 DEF InProgress
    <3> QED BY <3>3, <3>4
  <2> QED BY <2>1, <2>2
<1>8. MessagesKnow'
  <2> SUFFICES ASSUME NEW msg \in Message, queue'[msg] # 0,
                      msg.task # "convert"
               PROVE  status'[msg.model] \in {"processing", "deleted"}
    BY DEF MessagesKnow, InProgress
  <2>0. msg.model \in Models
    BY DEF Message
  <2>1. CASE queue[msg] # 0
    <3>1. InProgress(msg.model)
      BY <2>1 DEF FlowInv, MessagesKnow
    <3>2. CASE msg.model # m
      BY <1>3, <2>0, <3>1, <3>2 DEF InProgress
    <3>3. CASE msg.model = m
      <4>1. worker[w].pc = "return"
        BY <2>1, <3>3 DEF FlowInv, OneMessage, Active
      <4> QED BY <1>0, <1>3, <3>1, <3>3, <4>1 DEF InProgress
    <3> QED BY <3>2, <3>3
  <2>2. CASE queue[msg] = 0
    <3>1. PICK o \in Message : o.model = m /\ send_task(o)
      BY <2>2 DEF Moves
    <3>2. o = msg
      BY <1>0, <2>2, <3>1 DEF send_task
    <3>3. ASSUME NEW n, send_task(Msg("convert", m, n))  PROVE FALSE
      <4>1. PICK c : c = Msg("convert", m, n)
        OBVIOUS
      <4>2. c # msg
        BY <4>1 DEF Msg
      <4>3. queue'[msg] = queue[msg]
        BY <1>0, <3>3, <4>1, <4>2 DEF send_task
      <4> QED BY <2>2, <4>3
    <3>4. UNCHANGED status /\ worker[w].pc \in WritingPc
      BY <2>2, <3>3
    <3> QED BY <1>2, <3>1, <3>2, <3>4 DEF InProgress
  <2> QED BY <2>1, <2>2
<1>9. NoSweep'
  BY DEF FlowInv, NoSweep
<1> QED BY <1>1, <1>4, <1>5, <1>6, <1>7, <1>8, <1>9 DEF FlowStep, FlowInv

LEMMA ScanFlow ==
    ASSUME TypeOK, FlowInv, OnlyTokensWrite, NEW w \in Workers,
           scan_file(w) \/ generate_chunks(w)
    PROVE  FlowStep
<1> USE DEF rowVars, storageVars, historyVars, apiVars
<1>m. PICK m : m = worker[w].model
  OBVIOUS
<1>0. /\ worker[w].pc \in {"scan_load", "scan_run", "scan_dispatch", "route",
                           "infected_status", "infected_delete",
                           "infected_publish", "error_status", "error_publish"}
      /\ worker[w].pc \notin {"idle", "return"}
      /\ UNCHANGED confirm /\ UNCHANGED sweep
  BY NoSoftLimit DEF scan_file, generate_chunks, scan_load, scan_run,
         _dispatch_processing_task, infected_status, infected_delete,
         _publish_scan_failure, error_status, _publish_scan_error
<1>1. m \in Models /\ worker[w].retries \in 0 .. ScanMaxRetries
  BY <1>m, <1>0, BusyRecord DEF BusyWorker
<1>2. \A t \in TaskName, n \in 0 .. ScanMaxRetries :
         Msg(t, m, n) \in Message /\ Msg(t, m, n).model = worker[w].model
  BY <1>m, <1>1 DEF Msg, Message
<1>3. /\ "scan_file" \in TaskName /\ "convert" \in TaskName
      /\ "generate_chunks" \in TaskName /\ 0 \in 0 .. ScanMaxRetries
  BY DEF TaskName, ScanMaxRetries
<1>a. ASSUME NEW pc, pc \notin WritingPc \/ worker[w].pc \in WritingPc,
             Goto(w, pc), UNCHANGED <<queue, status>>
      PROVE  FlowStep
  <2>1. Moves(w) /\ worker'[w].pc = pc
    BY <1>0, <1>a, TaskMoves
  <2> QED BY <1>m, <1>0, <1>a, <2>1, TaskKeepsFlow
<1>b. ASSUME Ack(w), UNCHANGED <<queue, status>>  PROVE FlowStep
  <2>1. Moves(w) /\ worker'[w].pc = "idle"
    BY <1>0, <1>b, TaskMoves
  <2>2. worker'[w].pc \notin WritingPc
    BY <2>1 DEF WritingPc
  <2> QED BY <1>m, <1>0, <1>b, <2>1, <2>2, TaskKeepsFlow
<1>c. ASSUME NEW t \in TaskName, NEW n \in 0 .. ScanMaxRetries,
             worker[w].pc \in WritingPc, Return(w), send_task(Msg(t, m, n)),
             UNCHANGED status
      PROVE  FlowStep
  <2>1. PICK msg \in Message : /\ msg = Msg(t, m, n)
                               /\ msg.model = worker[w].model
    BY <1>2
  <2>2. Moves(w) /\ worker'[w].pc = "return"
    BY <1>0, <1>c, <2>1, TaskMoves
  <2>3. worker'[w].pc \notin WritingPc
    BY <2>2 DEF WritingPc
  <2> QED BY <1>m, <1>0, <1>c, <2>2, <2>3, TaskKeepsFlow
<1>d. ASSUME NEW pc, pc \notin WritingPc, worker[w].pc \in WritingPc,
             Goto(w, pc), update_model_status(m, "failed"), UNCHANGED queue
      PROVE  FlowStep
  <2>1. Moves(w) /\ worker'[w].pc = pc
    BY <1>0, <1>d, TaskMoves
  <2> QED BY <1>m, <1>0, <1>d, <2>1, TaskKeepsFlow
<1>e. /\ {"scan_load", "scan_run", "scan_dispatch", "infected_status",
          "error_status", "route"} \subseteq WritingPc
      /\ {"return", "infected_delete", "infected_publish", "error_publish"}
             \cap WritingPc = {}
  BY DEF WritingPc
<1>4. CASE scan_load(w)
  BY <1>4, <1>a, <1>b, <1>e DEF scan_load
<1>5. CASE scan_run(w)
  <2>1. worker[w].pc = "scan_run" /\ UNCHANGED status
    BY <1>5 DEF scan_run
  <2>2. CASE scan_retry(w, m)
    <3>1. CASE UNCHANGED queue
      BY <1>a, <1>e, <2>1, <2>2, <3>1 DEF scan_retry, Return
    <3>2. CASE /\ worker[w].retries < ScanMaxRetries
               /\ send_task(Msg("scan_file", m, worker[w].retries + 1))
      <4>1. worker[w].retries + 1 \in 0 .. ScanMaxRetries
        BY <1>1, <3>2 DEF ScanMaxRetries
      <4> QED BY <1>c, <1>e, <1>3, <2>1, <2>2, <3>2, <4>1 DEF scan_retry
    <3> QED BY <2>2, <3>1, <3>2 DEF scan_retry
  <2>3. CASE ~ scan_retry(w, m)
    BY <1>5, <1>m, <1>a, <1>e, <2>1, <2>3 DEF scan_run
  <2> QED BY <2>2, <2>3
<1>6. CASE _dispatch_processing_task(w)
  <2>1. ProcessingTask(m) \in TaskName
    BY <1>3 DEF ProcessingTask
  <2> QED BY <1>6, <1>m, <1>a, <1>c, <1>e, <1>3, <2>1
          DEF _dispatch_processing_task
<1>7. CASE infected_status(w) \/ error_status(w)
  BY <1>7, <1>m, <1>a, <1>b, <1>d, <1>e DEF infected_status, error_status
<1>8. CASE infected_delete(w)
  BY <1>8, <1>a, <1>e DEF infected_delete
<1>9. CASE _publish_scan_failure(w) \/ _publish_scan_error(w)
  BY <1>9, <1>a, <1>e DEF _publish_scan_failure, _publish_scan_error, Return
<1>10. CASE generate_chunks(w)
  BY <1>10, <1>m, <1>a, <1>c, <1>e, <1>3 DEF generate_chunks, Return
<1> QED BY <1>4, <1>5, <1>6, <1>7, <1>8, <1>9, <1>10, NoSoftLimit
        DEF scan_file

LEMMA ConvertFlow ==
    ASSUME TypeOK, FlowInv, OnlyTokensWrite, NEW w \in Workers, NEW f,
           NEW stages, Converter(w, f, stages) \/ GltfInvalid(w)
    PROVE  FlowStep
<1> USE DEF rowVars, storageVars, historyVars, apiVars
<1>m. PICK m : m = worker[w].model
  OBVIOUS
<1>0. /\ worker[w].pc \notin {"idle", "return"}
      /\ UNCHANGED confirm /\ UNCHANGED sweep
  BY NoSoftLimit DEF Converter, Guard, acquire_task_lock, Load, RunStage,
     StageFails, NotifyReady, dispatch_webhook_event, Release, EarlyRelease,
     handle_task_failure, FailRelease, GltfInvalid
<1>1. m \in Models /\ worker[w].retries \in 0 .. ScanMaxRetries
  BY <1>m, <1>0, BusyRecord DEF BusyWorker
<1>a. ASSUME NEW pc, pc \notin WritingPc \/ worker[w].pc \in WritingPc,
             Goto(w, pc), UNCHANGED <<queue, status>>
      PROVE  FlowStep
  <2>1. Moves(w) /\ worker'[w].pc = pc
    BY <1>0, <1>a, TaskMoves
  <2> QED BY <1>m, <1>0, <1>a, <2>1, TaskKeepsFlow
<1>b. ASSUME Ack(w), UNCHANGED <<queue, status>>  PROVE FlowStep
  <2>1. Moves(w) /\ worker'[w].pc = "idle"
    BY <1>0, <1>b, TaskMoves
  <2>2. worker'[w].pc \notin WritingPc
    BY <2>1 DEF WritingPc
  <2> QED BY <1>m, <1>0, <1>b, <2>1, <2>2, TaskKeepsFlow
<1>c. ASSUME worker[w].pc \in WritingPc, Moves(w), UNCHANGED <<queue, status>>
      PROVE  FlowStep
  BY <1>m, <1>0, <1>c, TaskKeepsFlow
<1>d. ASSUME worker[w].pc \in WritingPc, NEW e, Raise(w, e),
             UNCHANGED <<queue, status>>
      PROVE  FlowStep
  <2>1. Moves(w)
    BY <1>0, <1>d, TaskMoves
  <2> QED BY <1>c, <1>d, <2>1
<1>e. ASSUME worker[w].pc \in WritingPc, NEW pc, pc \notin WritingPc,
             NEW s \in {"ready", "failed"}, Goto(w, pc),
             update_model_status(m, s), UNCHANGED queue
      PROVE  FlowStep
  <2>1. Moves(w) /\ worker'[w].pc = pc
    BY <1>0, <1>e, TaskMoves
  <2> QED BY <1>m, <1>0, <1>e, <2>1, TaskKeepsFlow
<1>f. /\ {"lock", "load", "run", "early_release", "fail_status"}
             \subseteq WritingPc
      /\ {"guard", "notify", "webhook", "release", "return", "fail_publish",
          "fail_release"} \cap WritingPc = {}
  BY DEF WritingPc
<1>g. "webhook" \notin Enabled
  BY DEF OnlyTokensWrite
<1>2. CASE Guard(w)
  <2>1. CASE ~ is_already_processed(m) /\ Goto(w, "lock")
    <3>1. Moves(w) /\ UNCHANGED <<queue, status>>
      BY <1>0, <1>2, <2>1, TaskMoves DEF Guard
    <3> QED BY <1>m, <1>0, <2>1, <3>1, TaskKeepsFlow
  <2>2. CASE Ack(w)
    BY <1>2, <1>b, <2>2 DEF Guard
  <2> QED BY <1>2, <1>m, <2>1, <2>2 DEF Guard
<1>3. CASE acquire_task_lock(w)
  BY <1>3, <1>a, <1>b, <1>f DEF acquire_task_lock
<1>4. CASE Load(w)
  <2>1. /\ worker[w].pc = "load" /\ UNCHANGED <<queue, status>>
    BY <1>4 DEF Load
  <2>2. CASE worker' = [worker EXCEPT ![w] = [@ EXCEPT !.pc = "run",
                                                       !.stage = 1]]
    <3>1. worker[w] \in BusyWorker /\ worker \in [Workers -> Worker]
      BY <1>0, BusyRecord DEF TypeOK
    <3>2. Others(w) /\ worker'[w].model = worker[w].model
      BY <2>2, <3>1 DEF Others, BusyWorker
    <3>3. Moves(w)
      BY <1>0, <2>1, <3>2 DEF Moves
    <3> QED BY <1>c, <1>f, <2>1, <3>3
  <2> QED BY <1>4, <1>a, <1>b, <1>d, <1>f, <2>1, <2>2 DEF Load, Oversize
<1>5. CASE RunStage(w, stages)
  <2>0. worker[w].pc = "run" /\ worker[w].pc \in WritingPc /\ UNCHANGED queue
    BY <1>5, <1>f DEF RunStage
  <2>a. worker[w] \in BusyWorker /\ worker \in [Workers -> Worker]
    BY <1>0, BusyRecord DEF TypeOK
  <2>1. CASE Download(w, m)
    <3>1. CASE raw[m] # "none"
      <4>1. Others(w) /\ worker'[w].model = worker[w].model
        <5>1. worker' = [worker EXCEPT ![w] =
                  [worker[w] EXCEPT !.stage = worker[w].stage + 1,
                                    !.src = raw[m]]]
          BY <2>1, <3>1 DEF Download
        <5> QED BY <2>a, <5>1 DEF Others, BusyWorker
      <4> QED BY <1>0, <1>c, <2>0, <2>1, <4>1 DEF Moves, Download
    <3>2. CASE raw[m] = "none"
      BY <1>d, <2>0, <2>1, <3>2 DEF Download
    <3> QED BY <3>1, <3>2
  <2>2. CASE UploadChunk(w, m)
    <3>1. Others(w) /\ worker'[w].model = worker[w].model
      BY <2>2, <2>a DEF UploadChunk, Others, BusyWorker
    <3> QED BY <1>0, <1>c, <2>0, <2>2, <3>1 DEF Moves, UploadChunk
  <2>3. CASE PersistMetadata(w, m)
    <3>1. CASE NextStage(w)
      <4>1. Moves(w)
        BY <1>0, <2>0, <3>1, TaskMoves
      <4> QED BY <1>c, <2>0, <2>3, <4>1 DEF PersistMetadata
    <3>2. CASE Raise(w, "permanent")
      BY <1>d, <2>0, <2>3, <3>2 DEF PersistMetadata
    <3> QED BY <2>3, <3>1, <3>2 DEF PersistMetadata
  <2>4. CASE Finalize(w, m)
    BY <1>e, <1>f, <2>0, <2>4 DEF Finalize
  <2>5. CASE LocalStage(w)
    <3>1. Moves(w)
      BY <1>0, <2>0, <2>5, TaskMoves DEF LocalStage
    <3> QED BY <1>c, <2>0, <2>5, <3>1 DEF LocalStage
  <2>6. \/ Download(w, m) \/ UploadChunk(w, m) \/ PersistMetadata(w, m)
        \/ Finalize(w, m) \/ LocalStage(w)
    BY <1>5, <1>m DEF RunStage
  <2> QED BY <2>1, <2>2, <2>3, <2>4, <2>5, <2>6
<1>6. CASE StageFails(w, stages)
  BY <1>6, <1>d, <1>f DEF StageFails
<1>7. CASE GltfInvalid(w)
  BY <1>7, <1>a, <1>f DEF GltfInvalid
<1>8. CASE NotifyReady(w)
  BY <1>8, <1>a, <1>f DEF NotifyReady
<1>9. CASE dispatch_webhook_event(w)
  BY <1>9, <1>a, <1>f, <1>g DEF dispatch_webhook_event
<1>10. CASE Release(w)
  BY <1>10, <1>a, <1>f DEF Release, Return
<1>11. CASE EarlyRelease(w)
  BY <1>11, <1>d, <1>f, NoSoftLimit DEF EarlyRelease
<1>12. CASE handle_task_failure(w)
  BY <1>12, <1>m, <1>a, <1>e, <1>f DEF handle_task_failure, AfterFailure
<1>13. CASE FailRelease(w)
  <2>1. worker[w].pc = "fail_release" /\ UNCHANGED status /\ Return(w)
    BY <1>13 DEF FailRelease
  <2>2. CASE UNCHANGED queue
    BY <1>a, <1>f, <2>1, <2>2 DEF Return
  <2>3. CASE /\ worker[w].retries < ConvertMaxRetries
             /\ send_task(Msg("convert", m, worker[w].retries + 1))
    <3>1. PICK n : n = worker[w].retries + 1
      OBVIOUS
    <3>2. n \in 0 .. ScanMaxRetries
      BY <1>1, <2>3, <3>1 DEF ScanMaxRetries, ConvertMaxRetries
    <3>3. PICK msg : msg = Msg("convert", m, n)
      OBVIOUS
    <3>4. msg \in Message /\ msg.model = worker[w].model
      BY <1>m, <1>1, <3>2, <3>3 DEF Msg, Message, TaskName
    <3>5. send_task(msg) /\ Moves(w) /\ worker'[w].pc = "return"
      BY <1>0, <2>1, <2>3, <3>1, <3>3, <3>4, TaskMoves
    <3>6. \E k : send_task(Msg("convert", m, k))
      BY <3>3, <3>5
    <3> QED BY <1>m, <1>0, <1>f, <2>1, <3>5, <3>6, TaskKeepsFlow
  <2> QED BY <1>13, <1>m, <2>2, <2>3 DEF FailRelease
<1>14. ~ SoftLimit(w)
  BY NoSoftLimit
<1> QED BY <1>2, <1>3, <1>4, <1>5, <1>6, <1>7, <1>8, <1>9, <1>10, <1>11,
        <1>12, <1>13, <1>14 DEF Converter

(* The parts of the invariant that do not speak of the confirm requests    *)
(* are kept where a row without a token is written, or one is deleted.     *)
LEMMA RowWriteFlow ==
    ASSUME TypeOK, FlowInv, NEW m \in Models, NEW s,
           NoToken(m) \/ s = "deleted", status' = [status EXCEPT ![m] = s],
           UNCHANGED <<queue, worker, sweep>>
    PROVE  /\ OneWorker' /\ OneMessage' /\ UnconfirmedHaveNoToken'
           /\ WritersKnow' /\ MessagesKnow' /\ NoSweep'
           /\ \A n \in Models : status'[n] = IF n = m THEN s ELSE status[n]
<1>1. \A n \in Models : status'[n] = IF n = m THEN s ELSE status[n]
  BY DEF TypeOK
<1>2. OneWorker' /\ OneMessage' /\ NoSweep'
  BY DEF FlowInv, OneWorker, OneMessage, NoSweep
<1>3. UnconfirmedHaveNoToken'
  <2> SUFFICES ASSUME NEW n \in Models, status'[n] \in {"absent", "pending"}
               PROVE  NoToken(n)
    BY DEF UnconfirmedHaveNoToken, NoToken
  <2> QED BY <1>1 DEF FlowInv, UnconfirmedHaveNoToken
<1>4. WritersKnow'
  <2> SUFFICES ASSUME NEW w \in Workers, worker[w].pc \in WritingPc
               PROVE  status'[worker[w].model] \in {"processing", "deleted"}
    BY DEF WritersKnow, InProgress
  <2>1. worker[w].pc \notin {"idle", "return"}
    BY DEF WritingPc
  <2>2. worker[w].model \in Models /\ InProgress(worker[w].model)
    BY <2>1, BusyRecord DEF FlowInv, WritersKnow, BusyWorker
  <2>3. worker[w].model = m => s = "deleted"
    BY <2>1 DEF NoToken, Active
  <2> QED BY <1>1, <2>2, <2>3 DEF InProgress
<1>5. MessagesKnow'
  <2> SUFFICES ASSUME NEW msg \in Message, queue[msg] # 0,
                      msg.task # "convert"
               PROVE  status'[msg.model] \in {"processing", "deleted"}
    BY DEF MessagesKnow, InProgress
  <2>1. msg.model \in Models /\ InProgress(msg.model)
    BY DEF Message, FlowInv, MessagesKnow
  <2>2. msg.model = m => s = "deleted"
    BY DEF NoToken
  <2> QED BY <1>1, <2>1, <2>2 DEF InProgress
<1> QED BY <1>1, <1>2, <1>3, <1>4, <1>5

(* A step that touches nothing of this.                                    *)
LEMMA RestFlow ==
    ASSUME FlowInv, UNCHANGED <<status, queue, worker, confirm, sweep>>
    PROVE  FlowStep
<1>1. OneWorker' /\ OneMessage' /\ UnconfirmedHaveNoToken' /\ ConfirmsKnow'
  BY DEF FlowInv, OneWorker, OneMessage, UnconfirmedHaveNoToken, ConfirmsKnow,
         NoToken, InProgress
<1>2. WritersKnow' /\ MessagesKnow' /\ NoSweep'
  BY DEF FlowInv, WritersKnow, MessagesKnow, InProgress, NoSweep
<1> QED BY <1>1, <1>2 DEF FlowInv, FlowStep, StatusStep

LEMMA UploadFlow ==
    ASSUME TypeOK, FlowInv, NEW m \in Models,
           initiate_upload(m) \/ upload_local_file(m) \/ delete_model(m)
    PROVE  FlowStep
<1> USE DEF rowVars, storageVars, historyVars, apiVars
<1>1. ASSUME NEW s \in {"pending", "deleted"},
             status' = [status EXCEPT ![m] = s],
             s = "pending" => status[m] = "absent",
             UNCHANGED <<queue, worker, confirm, sweep>>
      PROVE  FlowStep
  <2>1. NoToken(m) \/ s = "deleted"
    BY <1>1 DEF FlowInv, UnconfirmedHaveNoToken
  <2>2. /\ OneWorker' /\ OneMessage' /\ UnconfirmedHaveNoToken'
        /\ WritersKnow' /\ MessagesKnow' /\ NoSweep'
        /\ \A n \in Models : status'[n] = IF n = m THEN s ELSE status[n]
    BY <1>1, <2>1, RowWriteFlow
  <2>3. ConfirmsKnow'
    <3> SUFFICES ASSUME NEW r \in Requests, confirm[r].pc # "idle",
                        NEW n, n = confirm[r].model
                 PROVE  /\ n \in Models /\ NoToken(n)'
                        /\ IF confirm[r].pc = "enqueue"
                           THEN status'[n] \in {"processing", "deleted"}
                           ELSE status'[n] \in {"pending", "deleted"}
      BY <1>1 DEF ConfirmsKnow, NoToken, InProgress
    <3>1. /\ n \in Models /\ NoToken(n)
          /\ IF confirm[r].pc = "enqueue"
             THEN status[n] \in {"processing", "deleted"}
             ELSE status[n] \in {"pending", "deleted"}
      BY DEF FlowInv, ConfirmsKnow, InProgress
    <3>2. NoToken(n)'
      BY <1>1, <3>1 DEF NoToken
    <3>3. n = m => s = "deleted"
      BY <1>1, <3>1
    <3> QED BY <2>2, <3>1, <3>2, <3>3
  <2>4. \A n \in Models : StatusStep(status[n], status'[n])
    BY <1>1, <2>2 DEF StatusStep
  <2> QED BY <2>2, <2>3, <2>4 DEF FlowInv, FlowStep
<1>2. CASE initiate_upload(m)
  BY <1>1, <1>2 DEF initiate_upload
<1>3. CASE upload_local_file(m)
  BY <1>3, RestFlow DEF upload_local_file
<1>4. CASE delete_model(m)
  <2>1. CASE delete_row(m)
    BY <1>1, <2>1 DEF delete_row
  <2> QED BY <1>4, <2>1, RestFlow DEF delete_model, delete_select,
          delete_raw_object, delete_processed_objects
<1> QED BY <1>2, <1>3, <1>4

(* The one request: it has the model's row to itself until it enqueues.    *)
LEMMA ConfirmFlow ==
    ASSUME TypeOK, FlowInv, \A p, q \in Requests : p = q,
           NEW r \in Requests, confirm_upload(r)
    PROVE  FlowStep
<1> USE DEF rowVars, storageVars, historyVars, apiVars
<1>0. UNCHANGED <<worker, sweep>>
  BY DEF confirm_upload, confirm_select, confirm_verify, confirm_commit,
         confirm_enqueue
<1>1. confirm[r] \in [pc : ConfirmPc, model : Models \cup {NoModel}]
  BY DEF TypeOK
<1>2. \A p \in ConfirmPc :
         confirm' = [confirm EXCEPT ![r].pc = p] =>
             confirm'[r].pc = p /\ confirm'[r].model = confirm[r].model
  BY <1>1 DEF TypeOK
<1>3. EndRequest(r) => ConfirmsKnow'
  <2>1. EndRequest(r) => \A q \in Requests : confirm'[q].pc = "idle"
    BY DEF TypeOK, EndRequest
  <2> QED BY <2>1 DEF ConfirmsKnow
<1>a. ASSUME UNCHANGED status, UNCHANGED queue, ConfirmsKnow'
      PROVE  FlowStep
  <2>1. OneWorker' /\ OneMessage' /\ UnconfirmedHaveNoToken'
    BY <1>0, <1>a DEF FlowInv, OneWorker, OneMessage, UnconfirmedHaveNoToken,
       NoToken
  <2>2. WritersKnow' /\ MessagesKnow' /\ NoSweep'
    BY <1>0, <1>a DEF FlowInv, WritersKnow, MessagesKnow, InProgress, NoSweep
  <2> QED BY <1>a, <2>1, <2>2 DEF FlowInv, FlowStep, StatusStep
<1>c. ASSUME NEW n \in Models, confirm'[r].model = n, NoToken(n),
             UNCHANGED queue,
             IF confirm'[r].pc = "enqueue"
             THEN status'[n] \in {"processing", "deleted"}
             ELSE status'[n] \in {"pending", "deleted"}
      PROVE  ConfirmsKnow'
  <2> SUFFICES ASSUME NEW q \in Requests, NEW o, o = confirm'[q].model
               PROVE  /\ o \in Models /\ NoToken(o)'
                      /\ IF confirm'[q].pc = "enqueue"
                         THEN status'[o] \in {"processing", "deleted"}
                         ELSE status'[o] \in {"pending", "deleted"}
    BY DEF ConfirmsKnow, NoToken, InProgress
  <2>1. q = r /\ o = n
    BY <1>c
  <2>2. NoToken(o)'
    BY <1>0, <1>c, <2>1 DEF NoToken
  <2> QED BY <1>c, <2>1, <2>2
<1>4. ASSUME confirm[r].pc # "idle", NEW m, m = confirm[r].model
      PROVE  /\ m \in Models /\ NoToken(m)
             /\ IF confirm[r].pc = "enqueue"
                THEN status[m] \in {"processing", "deleted"}
                ELSE status[m] \in {"pending", "deleted"}
  BY <1>4 DEF FlowInv, ConfirmsKnow, InProgress
<1>b. ASSUME NEW m \in Models, NoToken(m), status[m] \in {"pending", "deleted"},
             NEW s \in {"processing", "failed"}, update_model_status(m, s),
             UNCHANGED queue, ConfirmsKnow'
      PROVE  FlowStep
  <2>1. CASE status[m] = "deleted"
    BY <1>a, <1>b, <2>1 DEF update_model_status, HasRow
  <2>2. CASE status[m] = "pending"
    <3>1. status' = [status EXCEPT ![m] = s]
      BY <1>b, <2>2 DEF update_model_status, HasRow
    <3>2. /\ OneWorker' /\ OneMessage' /\ UnconfirmedHaveNoToken'
          /\ WritersKnow' /\ MessagesKnow' /\ NoSweep'
          /\ \A n \in Models : status'[n] = IF n = m THEN s ELSE status[n]
      <4>1. /\ m \in Models /\ NoToken(m)
            /\ UNCHANGED <<queue, worker, sweep>>
        BY <1>0, <1>b
      <4> QED BY <3>1, <4>1, RowWriteFlow
    <3>3. \A n \in Models : StatusStep(status[n], status'[n])
      BY <2>2, <3>2 DEF StatusStep
    <3> QED BY <1>b, <3>2, <3>3 DEF FlowInv, FlowStep
  <2> QED BY <1>b, <2>1, <2>2
<1>5. ASSUME NEW m \in Models, confirm_select(r, m)  PROVE FlowStep
  <2>1. /\ confirm'[r].model = m /\ confirm'[r].pc = "verify"
        /\ status[m] = "pending" /\ UNCHANGED <<status, queue>>
    BY <1>5 DEF confirm_select, TypeOK
  <2>2. NoToken(m)
    BY <2>1 DEF FlowInv, UnconfirmedHaveNoToken
  <2> QED BY <1>a, <1>c, <2>1, <2>2
<1>6. CASE confirm_verify(r)
  <2>1. PICK m : m = confirm[r].model
    OBVIOUS
  <2>2. /\ UNCHANGED queue /\ m \in Models /\ NoToken(m)
        /\ status[m] \in {"pending", "deleted"}
    BY <1>4, <1>6, <2>1 DEF confirm_verify
  <2>3. CASE UNCHANGED status /\ confirm' = [confirm EXCEPT ![r].pc = "commit"]
    <3>1. confirm'[r].pc = "commit" /\ confirm'[r].model = m
      BY <1>2, <2>1, <2>3 DEF ConfirmPc
    <3> QED BY <1>a, <1>c, <2>2, <2>3, <3>1
  <2>4. CASE EndRequest(r) /\ update_model_status(m, "failed")
    BY <1>b, <1>3, <2>2, <2>4
  <2>5. CASE EndRequest(r) /\ UNCHANGED status
    BY <1>a, <1>3, <2>2, <2>5
  <2> QED BY <1>6, <2>1, <2>3, <2>4, <2>5 DEF confirm_verify
<1>7. CASE confirm_commit(r)
  <2>1. PICK m : m = confirm[r].model
    OBVIOUS
  <2>2. /\ UNCHANGED queue /\ m \in Models /\ NoToken(m)
        /\ status[m] \in {"pending", "deleted"}
        /\ update_model_status(m, "processing")
    BY <1>4, <1>7, <2>1 DEF confirm_commit
  <2>3. CASE EndRequest(r)
    BY <1>b, <1>3, <2>2, <2>3
  <2>4. CASE confirm' = [confirm EXCEPT ![r].pc = "enqueue"]
    <3>1. confirm'[r].pc = "enqueue" /\ confirm'[r].model = m
      BY <1>2, <2>1, <2>4 DEF ConfirmPc
    <3>2. status'[m] \in {"processing", "deleted"}
      BY <2>2 DEF update_model_status, HasRow, TypeOK
    <3>3. ConfirmsKnow'
      BY <1>c, <2>2, <3>1, <3>2
    <3> QED BY <1>b, <2>2, <3>3
  <2> QED BY <1>7, <2>1, <2>3, <2>4 DEF confirm_commit
<1>8. CASE confirm_enqueue(r)
  <2>1. PICK m : m = confirm[r].model
    OBVIOUS
  <2>2. /\ UNCHANGED status /\ EndRequest(r) /\ m \in Models /\ NoToken(m)
        /\ status[m] \in {"processing", "deleted"}
    BY <1>4, <1>8, <2>1 DEF confirm_enqueue
  <2>3. CASE UNCHANGED queue
    BY <1>a, <1>3, <2>2, <2>3
  <2>4. CASE send_task(Msg("scan_file", m, 0))
    <3>1. OneMessage' /\ \A n \in Models \ {m} : NoToken(n) => NoToken(n)'
      BY <1>0, <2>2, <2>4, FirstMessage DEF FlowInv
    <3>2. UnconfirmedHaveNoToken'
      <4> SUFFICES ASSUME NEW n \in Models, status[n] \in {"absent", "pending"}
                   PROVE  NoToken(n)'
        BY <2>2 DEF UnconfirmedHaveNoToken, NoToken
      <4> QED BY <2>2, <3>1 DEF FlowInv, UnconfirmedHaveNoToken
    <3>3. OneWorker' /\ WritersKnow' /\ NoSweep'
      BY <1>0, <2>2 DEF FlowInv, OneWorker, WritersKnow, InProgress, NoSweep
    <3>4. MessagesKnow'
      <4> SUFFICES ASSUME NEW o \in Message, queue'[o] # 0,
                          o.task # "convert"
                   PROVE  status[o.model] \in {"processing", "deleted"}
        BY <2>2 DEF MessagesKnow, InProgress
      <4>1. CASE o = Msg("scan_file", m, 0)
        BY <2>2, <4>1 DEF Msg
      <4>2. CASE o # Msg("scan_file", m, 0)
        <5>1. queue'[o] = queue[o]
          BY <2>4, <4>2 DEF send_task, TypeOK
        <5> QED BY <5>1 DEF FlowInv, MessagesKnow, InProgress
      <4> QED BY <4>1, <4>2
    <3> QED BY <1>3, <2>2, <3>1, <3>2, <3>3, <3>4
            DEF FlowInv, FlowStep, StatusStep
  <2> QED BY <1>8, <2>1, <2>3, <2>4 DEF confirm_enqueue
<1> QED BY <1>5, <1>6, <1>7, <1>8 DEF confirm_upload

LEMMA WorkerFlow ==
    ASSUME TypeOK, FlowInv, OnlyTokensWrite, NEW w \in Workers,
           \/ \E msg \in Message : Take(w, msg)
           \/ AckLate(w) \/ Crash(w) \/ HardLimit(w)
    PROVE  FlowStep
<1> USE DEF rowVars, storageVars, historyVars, apiVars
<1>1. ~ Crash(w)
  BY DEF OnlyTokensWrite, Crash
<1>2. CASE AckLate(w) \/ HardLimit(w)
  <2>1. /\ worker[w].pc # "idle" /\ Ack(w)
        /\ UNCHANGED <<status, queue, confirm, sweep>>
    <3>1. CASE HardLimit(w)
      <4>1. worker[w].task # "none"
        BY <3>1 DEF HardLimit
      <4>2. worker[w] # Idle
        BY <4>1 DEF Idle
      <4>3. worker[w] \in BusyWorker
        BY <4>2 DEF TypeOK, Worker
      <4>4. worker[w].pc # "idle"
        BY <4>3 DEF BusyWorker, BusyPc, ScanPc, ConvertPc
      <4> QED BY <3>1, <4>4 DEF HardLimit
    <3> QED BY <1>2, <3>1 DEF AckLate
  <2>2. Others(w) /\ worker'[w] = Idle
    BY <2>1 DEF TypeOK, Ack, Others
  <2>3. Moves(w) /\ worker'[w].pc \notin WritingPc
    BY <2>1, <2>2 DEF Moves, Idle, WritingPc
  <2>4. PICK m : m = worker[w].model
    OBVIOUS
  <2> QED BY <2>1, <2>3, <2>4, TaskKeepsFlow
<1>3. ASSUME NEW msg \in Message, Take(w, msg)  PROVE FlowStep
  <2>1. PICK m : m = msg.model
    OBVIOUS
  <2>2. UNCHANGED <<status, confirm, sweep>>
    BY <1>3 DEF Take
  <2>3. /\ queue[msg] # 0 /\ Others(w) /\ worker'[w].model = m
        /\ worker'[w].pc = StartPc(msg.task)
        /\ OneWorker' /\ OneMessage'
        /\ \A o \in Message : queue'[o] # 0 => queue[o] # 0
        /\ \A n \in Models : NoToken(n) => NoToken(n)'
    BY <1>3, <2>1, TakeMoves DEF FlowInv
  <2>4. UnconfirmedHaveNoToken'
    <3> SUFFICES ASSUME NEW n \in Models, status[n] \in {"absent", "pending"}
                 PROVE  NoToken(n)'
      BY <2>2 DEF UnconfirmedHaveNoToken, NoToken
    <3> QED BY <2>3 DEF FlowInv, UnconfirmedHaveNoToken
  <2>5. ConfirmsKnow'
    <3> SUFFICES ASSUME NEW r \in Requests, confirm[r].pc # "idle",
                        NEW n, n = confirm[r].model
                 PROVE  /\ n \in Models /\ NoToken(n)'
                        /\ IF confirm[r].pc = "enqueue"
                           THEN status[n] \in {"processing", "deleted"}
                           ELSE status[n] \in {"pending", "deleted"}
      BY <2>2 DEF ConfirmsKnow, NoToken, InProgress
    <3>1. /\ n \in Models /\ NoToken(n)
          /\ IF confirm[r].pc = "enqueue"
             THEN status[n] \in {"processing", "deleted"}
             ELSE status[n] \in {"pending", "deleted"}
      BY DEF FlowInv, ConfirmsKnow, InProgress
    <3> QED BY <2>3, <3>1
  <2>6. WritersKnow'
    <3> SUFFICES ASSUME NEW v \in Workers, worker'[v].pc \in WritingPc
                 PROVE  status[worker'[v].model] \in {"processing", "deleted"}
      BY <2>2 DEF WritersKnow, InProgress
    <3>1. CASE v = w
      <4>1. msg.task # "convert"
        BY <2>3, <3>1 DEF StartPc, WritingPc
      <4> QED BY <2>1, <2>3, <3>1, <4>1 DEF FlowInv, MessagesKnow, InProgress
    <3>2. CASE v # w
      BY <2>3, <3>2 DEF FlowInv, WritersKnow, InProgress, Others
    <3> QED BY <3>1, <3>2
  <2>7. MessagesKnow' /\ NoSweep'
    BY <2>2, <2>3 DEF FlowInv, MessagesKnow, InProgress, NoSweep
  <2> QED BY <2>2, <2>3, <2>4, <2>5, <2>6, <2>7
          DEF FlowInv, FlowStep, StatusStep
<1> QED BY <1>1, <1>2, <1>3

LEMMA NextFlow ==
    ASSUME TypeOK, FlowInv, OnlyTokensWrite, \A p, q \in Requests : p = q,
           [Next]_vars
    PROVE  FlowStep
<1>1. CASE UNCHANGED vars
  BY <1>1, RestFlow DEF vars, rowVars, apiVars
<1>2. ASSUME NEW m \in Models, LockExpire(m)  PROVE FlowStep
  BY <1>2, RestFlow DEF LockExpire, rowVars, apiVars
<1>3. ASSUME NEW w \in Workers, Tasks(w)  PROVE FlowStep
  BY <1>3, ScanFlow, ConvertFlow, WorkerFlow
  DEF Tasks, process_model, process_gltf, process_step, process_obj, process_stl
<1>4. ~ cleanup_abandoned_uploads
  <2>1. "sweep" \notin Enabled
    BY DEF OnlyTokensWrite
  <2> QED BY <2>1 DEF cleanup_abandoned_uploads, sweep_select, sweep_fail,
          sweep_delete, FlowInv, NoSweep
<1> QED BY <1>1, <1>2, <1>3, <1>4, UploadFlow, ConfirmFlow, WorkerFlow DEF Next

(***************************************************************************)
(* The status of a model only moves pending -> processing -> ready or      *)
(* failed (or is deleted): no worker takes a finished model back, and none *)
(* reports a model that was not confirmed.  For any number of models,      *)
(* workers, chunks and retries, and any deletions, late uploads, storage,  *)
(* broker, scanner, database, lock and publishing errors and killed tasks; *)
(* but for one confirm at a time and without the events excluded in        *)
(* OnlyTokensWrite, each of which breaks it.                               *)
(***************************************************************************)
THEOREM LifecycleHolds ==
    ASSUME \A p, q \in Requests : p = q, OnlyTokensWrite
    PROVE  Spec => StatusFlow
<1>1. Init => FlowInv
  <2> SUFFICES ASSUME Init  PROVE FlowInv
    OBVIOUS
  <2>1. \A w \in Workers, m \in Models : ~ Active(worker[w], m)
    BY ConstantsOK DEF Init, Active, Idle
  <2>2. OneWorker /\ OneMessage
    BY <2>1 DEF Init, OneWorker, OneMessage
  <2>3. UnconfirmedHaveNoToken /\ ConfirmsKnow
    BY <2>1 DEF Init, UnconfirmedHaveNoToken, ConfirmsKnow, NoToken
  <2>4. WritersKnow /\ MessagesKnow /\ NoSweep
    BY DEF Init, WritersKnow, WritingPc, Idle, MessagesKnow, NoSweep
  <2> QED BY <2>2, <2>3, <2>4 DEF FlowInv
<1>2. TypeOK /\ FlowInv /\ [Next]_vars =>
         FlowInv' /\ [\A m \in Models : StatusStep(status[m], status'[m])]_vars
  BY NextFlow DEF FlowStep
<1> QED BY <1>1, <1>2, TypeCorrect, PTL DEF Spec, StatusFlow

=============================================================================
