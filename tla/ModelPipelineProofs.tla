------------------------ MODULE ModelPipelineProofs ------------------------
(***************************************************************************)
(* Proofs about the processing pipeline, for every set of models, workers, *)
(* requests, formats and contents, every number of chunks and every        *)
(* combination of optional events.                                         *)
(***************************************************************************)
EXTENDS ModelPipeline, TLAPS

-----------------------------------------------------------------------------
(* Type correctness.                                                       *)

(* A worker that executes a task has a task and a model.                   *)
LEMMA BusyRecord ==
    ASSUME TypeOK, NEW w \in Workers, worker[w].pc # "idle"
    PROVE  worker[w] \in BusyWorker
  BY DEF TypeOK, Worker, Idle

(* The worker record stays a worker record under the updates of the tasks. *)
LEMMA WorkerUpdates ==
    ASSUME TypeOK, NEW w \in Workers, worker[w].pc # "idle"
    PROVE  /\ \A pc \in BusyPc : Goto(w, pc) => worker' \in [Workers -> Worker]
           /\ Return(w) => worker' \in [Workers -> Worker]
           /\ \A e \in Exception : Raise(w, e) => worker' \in [Workers -> Worker]
           /\ \A pc \in BusyPc, e \in Exception :
                  SoftGoto(w, pc, e) => worker' \in [Workers -> Worker]
           /\ NextStage(w) => worker' \in [Workers -> Worker]
<1> DEFINE WR == [Workers -> Worker]
<1>a. worker[w] \in BusyWorker
  BY BusyRecord
<1>b. ASSUME NEW r \in BusyWorker, worker' = [worker EXCEPT ![w] = r]
      PROVE  worker' \in WR
  BY <1>b DEF TypeOK, Worker
<1>1. ASSUME NEW pc \in BusyPc, Goto(w, pc)  PROVE worker' \in WR
  <2>1. worker' = [worker EXCEPT ![w] = [worker[w] EXCEPT !.pc = pc]]
    BY <1>1 DEF Goto
  <2>2. [worker[w] EXCEPT !.pc = pc] \in BusyWorker
    BY <1>a DEF BusyWorker
  <2> QED BY <1>b, <2>1, <2>2
<1>2. ASSUME Return(w)  PROVE worker' \in WR
  BY <1>1, <1>2 DEF Return, BusyPc
<1>3. ASSUME NEW e \in Exception, Raise(w, e)  PROVE worker' \in WR
  <2>1. "fail_status" \in BusyPc
    BY DEF BusyPc, ConvertPc
  <2>2. [worker[w] EXCEPT !.pc = "fail_status", !.exc = e] \in BusyWorker
    BY <1>a, <2>1 DEF BusyWorker
  <2> QED BY <1>b, <1>3, <2>2 DEF Raise
<1>4. ASSUME NextStage(w)  PROVE worker' \in WR
  <2>1. worker' = [worker EXCEPT ![w] = [worker[w] EXCEPT !.stage = @ + 1]]
    BY <1>4 DEF NextStage
  <2>2. [worker[w] EXCEPT !.stage = @ + 1] \in BusyWorker
    BY <1>a DEF BusyWorker
  <2> QED BY <1>b, <2>1, <2>2
<1>5. ASSUME NEW pc \in BusyPc, NEW e \in Exception, SoftGoto(w, pc, e)
      PROVE  worker' \in WR
  <2>1. [worker[w] EXCEPT !.pc = pc, !.exc = e, !.soft = TRUE] \in BusyWorker
    BY <1>a DEF BusyWorker
  <2> QED BY <1>b, <1>5, <2>1 DEF SoftGoto
<1> QED BY <1>1, <1>2, <1>3, <1>4, <1>5

(* An acknowledged worker is idle, which is a worker state.                *)
LEMMA AckUpdate ==
    ASSUME TypeOK, NEW w \in Workers, Ack(w)
    PROVE  worker' \in [Workers -> Worker]
  BY DEF TypeOK, Ack, Worker

(* The UPDATE of a status keeps the type of the models table.              *)
LEMMA StatusUpdate ==
    ASSUME status \in [Models -> Status], NEW m, NEW s \in Status,
           update_model_status(m, s)
    PROVE  status' \in [Models -> Status]
  BY DEF update_model_status

(* Sending a message keeps the type of the broker.                         *)
LEMMA QueueUpdate ==
    ASSUME queue \in [Message -> Nat], NEW msg, send_task(msg)
    PROVE  queue' \in [Message -> Nat]
<1>1. CASE msg \in Message
  BY <1>1 DEF send_task
<1>2. CASE msg \notin Message
  BY <1>2 DEF send_task
<1> QED BY <1>1, <1>2

(* Publishing an event keeps the type of the notices.                      *)
LEMMA NoticeUpdate ==
    ASSUME notices \in [Models -> Seq(Notice)], NEW m, NEW e \in Notice,
           Publish(m, e)
    PROVE  notices' \in [Models -> Seq(Notice)]
<1>1. CASE m \in Models
  <2>1. Append(notices[m], e) \in Seq(Notice)
    BY <1>1
  <2> QED BY <1>1, <2>1 DEF Publish
<1>2. CASE m \notin Models
  BY <1>2 DEF Publish
<1> QED BY <1>1, <1>2

(* Releasing or abandoning a lock keeps the type of the locks.             *)
LEMMA LockUpdate ==
    ASSUME lock \in [Models -> Workers \cup {"free", "orphan"}]
    PROVE  /\ \A m : release_task_lock(m)
                       => lock' \in [Models -> Workers \cup {"free", "orphan"}]
           /\ \A w : AbandonLock(w)
                       => lock' \in [Models -> Workers \cup {"free", "orphan"}]
  BY DEF release_task_lock, AbandonLock

(* The API's requests keep the types.                                      *)
LEMMA ApiTypes ==
    ASSUME TypeOK,
           \/ \E m \in Models : initiate_upload(m) \/ upload_local_file(m)
                                  \/ delete_model(m)
           \/ \E r \in Requests : confirm_upload(r)
    PROVE  TypeOK'
<1> USE ConstantsOK DEF rowVars, storageVars, apiVars, historyVars
<1>1. ASSUME NEW m \in Models, initiate_upload(m)  PROVE TypeOK'
  BY <1>1 DEF TypeOK, initiate_upload, Status
<1>2. ASSUME NEW m \in Models, upload_local_file(m)  PROVE TypeOK'
  BY <1>2 DEF TypeOK, upload_local_file
<1>3. ASSUME NEW m \in Models, delete_model(m)  PROVE TypeOK'
  <2>1. CASE delete_select(m)
    BY <2>1 DEF TypeOK, delete_select, RemovalPc
  <2>2. CASE delete_raw_object(m)
    BY <2>2 DEF TypeOK, delete_raw_object, RemovalPc
  <2>3. CASE delete_processed_objects(m)
    BY <2>3 DEF TypeOK, delete_processed_objects, RemovalPc
  <2>4. CASE delete_row(m)
    BY <2>4 DEF TypeOK, delete_row, RemovalPc, Status, Flag
  <2> QED BY <1>3, <2>1, <2>2, <2>3, <2>4 DEF delete_model
<1>4. ASSUME NEW r \in Requests, confirm_upload(r)  PROVE TypeOK'
  <2> DEFINE CR == [Requests -> [pc : ConfirmPc, model : Models \cup {NoModel}]]
  <2>0. EndRequest(r) => confirm' \in CR
    BY DEF TypeOK, EndRequest, ConfirmPc
  <2>a. ASSUME NEW p \in ConfirmPc  PROVE [confirm EXCEPT ![r].pc = p] \in CR
    <3> DEFINE rec == [confirm[r] EXCEPT !.pc = p]
    <3>0. confirm[r] \in [pc : ConfirmPc, model : Models \cup {NoModel}]
      BY DEF TypeOK
    <3>1. rec \in [pc : ConfirmPc, model : Models \cup {NoModel}]
      BY <3>0
    <3>2. [confirm EXCEPT ![r].pc = p] = [confirm EXCEPT ![r] = rec]
      OBVIOUS
    <3> HIDE DEF rec
    <3> QED BY <3>1, <3>2 DEF TypeOK
  <2>b. "commit" \in ConfirmPc /\ "enqueue" \in ConfirmPc
    BY DEF ConfirmPc
  <2>1. ASSUME NEW m \in Models, confirm_select(r, m)  PROVE TypeOK'
    BY <2>1 DEF TypeOK, confirm_select, ConfirmPc
  <2>2. CASE confirm_verify(r)
    <3>1. confirm' \in CR
      BY <2>0, <2>a, <2>b, <2>2 DEF confirm_verify
    <3>2. status' \in [Models -> Status]
      BY <2>2, StatusUpdate DEF TypeOK, confirm_verify, Status
    <3>3. notices' \in [Models -> Seq(Notice)]
      <4>1. \/ notices' = notices
            \/ Publish(confirm[r].model, "failed")
        BY <2>2 DEF confirm_verify, Publish
      <4> QED BY <4>1, NoticeUpdate DEF TypeOK, Notice
    <3> QED BY <2>2, <3>1, <3>2, <3>3 DEF TypeOK, confirm_verify
  <2>3. CASE confirm_commit(r)
    <3>1. confirm' \in CR
      BY <2>0, <2>a, <2>b, <2>3 DEF confirm_commit
    <3>2. status' \in [Models -> Status]
      BY <2>3, StatusUpdate DEF TypeOK, confirm_commit, Status
    <3> QED BY <2>3, <3>1, <3>2 DEF TypeOK, confirm_commit
  <2>4. CASE confirm_enqueue(r)
    <3>1. queue' \in [Message -> Nat]
      BY <2>4, QueueUpdate DEF TypeOK, confirm_enqueue
    <3> QED BY <2>0, <2>4, <3>1 DEF TypeOK, confirm_enqueue
  <2> QED BY <1>4, <2>1, <2>2, <2>3, <2>4 DEF confirm_upload
<1> QED BY <1>1, <1>2, <1>3, <1>4

(* The scan and the router keep the types.                                 *)
LEMMA ScanTypes ==
    ASSUME TypeOK, NEW w \in Workers, scan_file(w) \/ generate_chunks(w)
    PROVE  TypeOK'
<1> USE DEF rowVars, storageVars, apiVars, historyVars
<1> DEFINE WR == [Workers -> Worker]
<1>0. worker[w].pc # "idle"
  BY DEF scan_file, generate_chunks, scan_load, scan_run,
         _dispatch_processing_task, infected_status, infected_delete,
         _publish_scan_failure, error_status, _publish_scan_error,
         scan_soft_handled, scan_soft_lost, scan_soft_late
<1>a. /\ \A pc \in BusyPc : Goto(w, pc) => worker' \in WR
      /\ \A pc \in BusyPc : SoftGoto(w, pc, "none") => worker' \in WR
      /\ Ack(w) => worker' \in WR
      /\ Return(w) => worker' \in WR
  BY <1>0, WorkerUpdates, AckUpdate DEF Exception
<1>b. ScanPc \subseteq BusyPc
  BY DEF BusyPc
<1>c. \A pc \in ScanPc : Goto(w, pc) => worker' \in WR
  BY <1>a, <1>b
<1>d. "failed" \in Status /\ "failed" \in Notice
  BY DEF Status, Notice
<1> HIDE DEF WR
<1>1. CASE scan_load(w)
  <2>1. worker' \in WR
    BY <1>1, <1>a, <1>c DEF scan_load, ScanPc
  <2> QED BY <1>1, <2>1 DEF TypeOK, scan_load, WR
<1>2. CASE scan_run(w)
  <2>1. worker' \in WR
    BY <1>2, <1>a, <1>c DEF scan_run, scan_retry, ScanPc
  <2>2. queue' \in [Message -> Nat]
    BY <1>2, QueueUpdate DEF TypeOK, scan_run, scan_retry
  <2> QED BY <1>2, <2>1, <2>2 DEF TypeOK, scan_run, WR
<1>3. CASE _dispatch_processing_task(w)
  <2>1. worker' \in WR
    BY <1>3, <1>a, <1>c DEF _dispatch_processing_task, ScanPc
  <2>2. queue' \in [Message -> Nat]
    BY <1>3, QueueUpdate DEF TypeOK, _dispatch_processing_task
  <2> QED BY <1>3, <2>1, <2>2 DEF TypeOK, _dispatch_processing_task, WR
<1>4. CASE infected_status(w)
  <2>1. worker' \in WR
    BY <1>4, <1>a, <1>c DEF infected_status, ScanPc
  <2>2. status' \in [Models -> Status]
    BY <1>4, <1>d, StatusUpdate DEF TypeOK, infected_status
  <2> QED BY <1>4, <2>1, <2>2 DEF TypeOK, infected_status, WR
<1>5. CASE infected_delete(w)
  <2>1. worker' \in WR
    BY <1>5, <1>a, <1>c DEF infected_delete, ScanPc
  <2> QED BY <1>5, <2>1 DEF TypeOK, infected_delete, WR
<1>6. CASE _publish_scan_failure(w)
  <2>1. notices' \in [Models -> Seq(Notice)]
    BY <1>6, <1>d, NoticeUpdate DEF TypeOK, _publish_scan_failure, publish_model_failed
  <2> QED BY <1>6, <2>1, <1>a DEF TypeOK, _publish_scan_failure, WR
<1>7. CASE error_status(w)
  <2>1. worker' \in WR
    BY <1>7, <1>a, <1>c DEF error_status, ScanPc
  <2>2. status' \in [Models -> Status]
    BY <1>7, <1>d, StatusUpdate DEF TypeOK, error_status
  <2> QED BY <1>7, <2>1, <2>2 DEF TypeOK, error_status, WR
<1>8. CASE _publish_scan_error(w)
  <2>1. notices' \in [Models -> Seq(Notice)]
    BY <1>8, <1>d, NoticeUpdate DEF TypeOK, _publish_scan_error, publish_model_failed
  <2> QED BY <1>8, <2>1, <1>a DEF TypeOK, _publish_scan_error, WR
<1>9. CASE generate_chunks(w)
  <2>1. queue' \in [Message -> Nat]
    BY <1>9, QueueUpdate DEF TypeOK, generate_chunks
  <2> QED BY <1>9, <2>1, <1>a DEF TypeOK, generate_chunks, WR
<1>10. CASE scan_soft_handled(w)
  <2>1. worker' \in WR
    BY <1>10, <1>a, <1>b DEF scan_soft_handled, ScanPc
  <2> QED BY <1>10, <2>1 DEF TypeOK, scan_soft_handled, WR
<1>11. CASE scan_soft_lost(w)
  <2>1. worker' \in WR
    BY <1>11, <1>a, <1>b DEF scan_soft_lost, ScanPc, BusyPc
  <2> QED BY <1>11, <2>1 DEF TypeOK, scan_soft_lost, WR
<1>12. CASE scan_soft_late(w)
  <2>1. worker' \in WR
    BY <1>12, <1>a, <1>b DEF scan_soft_late, ScanPc
  <2>2. queue' \in [Message -> Nat]
    BY <1>12, QueueUpdate DEF TypeOK, scan_soft_late
  <2>3. notices' \in [Models -> Seq(Notice)]
    BY <1>12, <1>d, NoticeUpdate DEF TypeOK, scan_soft_late, publish_model_failed
  <2> QED BY <1>12, <2>1, <2>2, <2>3 DEF TypeOK, scan_soft_late, WR
<1> QED
  BY <1>1, <1>2, <1>3, <1>4, <1>5, <1>6, <1>7, <1>8, <1>9, <1>10, <1>11, <1>12
  DEF scan_file

(* The converters keep the types.                                          *)
LEMMA ConvertTypes ==
    ASSUME TypeOK, NEW w \in Workers, NEW f, NEW stages,
           Converter(w, f, stages)
    PROVE  TypeOK'
<1> USE DEF rowVars, storageVars, apiVars, historyVars
<1> DEFINE WR == [Workers -> Worker]
           LR == [Models -> Workers \cup {"free", "orphan"}]
<1>0. worker[w].pc # "idle"
  BY DEF Converter, Guard, acquire_task_lock, Load, RunStage, StageFails,
         SoftLimit, SoftHandled, SoftSwallowed, SoftEscapes, SoftFailsOpen,
         SoftReleasesTwice, NotifyReady, dispatch_webhook_event, Release,
         EarlyRelease, handle_task_failure, FailRelease
<1>a. /\ \A pc \in BusyPc : Goto(w, pc) => worker' \in WR
      /\ Ack(w) => worker' \in WR
      /\ Return(w) => worker' \in WR
      /\ \A e \in Exception : Raise(w, e) => worker' \in WR
      /\ \A pc \in BusyPc, e \in Exception :
            SoftGoto(w, pc, e) => worker' \in WR
      /\ NextStage(w) => worker' \in WR
  BY <1>0, WorkerUpdates, AckUpdate
<1>b. ConvertPc \subseteq BusyPc
  BY DEF BusyPc
<1>c. \A pc \in ConvertPc : Goto(w, pc) => worker' \in WR
  BY <1>a, <1>b
<1>d. /\ "failed" \in Status /\ "ready" \in Status
      /\ "failed" \in Notice /\ "ready" \in Notice
  BY DEF Status, Notice
<1>e. {"transient", "permanent", "released"} \subseteq Exception
  BY DEF Exception
<1>f. /\ release_task_lock(worker[w].model) => lock' \in LR
      /\ AbandonLock(w) => lock' \in LR
      /\ Unlock(w) => lock' \in LR
  BY LockUpdate DEF TypeOK, Unlock
<1>g. worker[w] \in BusyWorker
  BY <1>0, BusyRecord
<1>h. ASSUME NEW r \in BusyWorker, worker' = [worker EXCEPT ![w] = r]
      PROVE  worker' \in WR
  BY <1>h DEF TypeOK, Worker
<1> HIDE DEF WR, LR
<1>1. CASE Guard(w)
  <2>1. worker' \in WR
    BY <1>1, <1>a, <1>c DEF Guard, ConvertPc
  <2> QED BY <1>1, <2>1 DEF TypeOK, Guard, WR
<1>2. CASE acquire_task_lock(w)
  <2>1. worker' \in WR
    BY <1>2, <1>a, <1>c DEF acquire_task_lock, ConvertPc
  <2>2. lock' \in LR
    BY <1>2 DEF TypeOK, acquire_task_lock, LR
  <2> QED BY <1>2, <2>1, <2>2 DEF TypeOK, acquire_task_lock, WR, LR
<1>3. CASE Load(w)
  <2>1. worker' \in WR
    <3>1. [worker[w] EXCEPT !.pc = "run", !.stage = 1] \in BusyWorker
      BY <1>b, <1>g DEF BusyWorker, ConvertPc
    <3>2. worker' = [worker EXCEPT ![w] = [worker[w] EXCEPT !.pc = "run", !.stage = 1]]
             => worker' \in WR
      BY <1>h, <3>1
    <3> QED BY <1>3, <1>a, <1>c, <1>e, <3>2 DEF Load, Oversize, ConvertPc
  <2>2. lock' \in LR
    BY <1>3, <1>f DEF TypeOK, Load, Oversize, LR
  <2> QED BY <1>3, <2>1, <2>2 DEF TypeOK, Load, WR, LR
<1>4. CASE RunStage(w, stages)
  <2> DEFINE m == worker[w].model
  <2>a. m \in Models
    BY <1>g DEF BusyWorker
  <2>b. UNCHANGED <<apiVars, sweep, queue, lock, crashes>>
    BY <1>4 DEF RunStage
  <2> HIDE DEF m
  <2>1. CASE Download(w, m)
    <3> DEFINE next == [worker[w] EXCEPT !.stage = worker[w].stage + 1]
               rec  == [next EXCEPT !.src = raw[m]]
    <3>1. raw[m] \in AllContents \cup {"none"}
      BY <2>a DEF TypeOK
    <3>2. next \in BusyWorker
      BY <1>g DEF BusyWorker
    <3>3. worker' = [worker EXCEPT ![w] = rec]
             \/ \E e \in {"transient", "permanent"} : Raise(w, e)
      BY <2>1 DEF Download
    <3> HIDE DEF next
    <3>4. rec \in BusyWorker
      BY <3>1, <3>2 DEF BusyWorker
    <3> HIDE DEF rec
    <3>5. worker' \in WR
      BY <1>a, <1>e, <1>h, <3>3, <3>4
    <3> QED BY <2>b, <2>1, <3>5 DEF TypeOK, Download, WR
  <2>2. CASE UploadChunk(w, m)
    <3> DEFINE put == [worker[w] EXCEPT !.chunk = worker[w].chunk + 1]
               next == IF LastChunk(worker[w].chunk) THEN worker[w].stage + 1
                                                     ELSE worker[w].stage
               rec == [put EXCEPT !.stage = next]
    <3>1. put \in BusyWorker
      BY <1>g DEF BusyWorker
    <3>2. worker' = [worker EXCEPT ![w] = rec]
      BY <2>2 DEF UploadChunk
    <3> HIDE DEF put
    <3>3. next \in Nat
      BY <1>g DEF BusyWorker
    <3> HIDE DEF next
    <3>4. rec \in BusyWorker
      BY <3>1, <3>3 DEF BusyWorker
    <3> HIDE DEF rec
    <3>5. worker' \in WR
      BY <1>h, <3>2, <3>4
    <3>6. chunks' \in [Models -> SUBSET Nat]
      BY <1>g, <2>a, <2>2 DEF TypeOK, UploadChunk, BusyWorker
    <3> QED BY <2>b, <2>2, <3>5, <3>6 DEF TypeOK, UploadChunk, WR
  <2>3. CASE PersistMetadata(w, m)
    <3>1. worker' \in WR
      BY <1>a, <1>e, <2>3 DEF PersistMetadata
    <3> QED BY <2>b, <2>3, <3>1 DEF TypeOK, PersistMetadata, WR, Flag
  <2>4. CASE Finalize(w, m)
    <3>1. worker' \in WR
      BY <1>c, <2>4 DEF Finalize, ConvertPc
    <3>2. status' \in [Models -> Status]
      BY <1>d, <2>4, StatusUpdate DEF TypeOK, Finalize
    <3>3. built' \in [Models -> AllContents \cup {"none"}]
      BY <1>g, <2>4 DEF TypeOK, Finalize, BusyWorker
    <3> QED BY <2>b, <2>4, <3>1, <3>2, <3>3 DEF TypeOK, Finalize, WR, Flag
  <2>5. CASE LocalStage(w)
    BY <1>a, <2>b, <2>5 DEF TypeOK, LocalStage, WR
  <2> QED BY <1>4, <2>1, <2>2, <2>3, <2>4, <2>5 DEF RunStage, m
<1>5. CASE StageFails(w, stages)
  <2>1. worker' \in WR
    BY <1>5, <1>a, <1>e DEF StageFails, Raises
  <2> QED BY <1>5, <2>1 DEF TypeOK, StageFails, WR
<1>6. CASE SoftLimit(w)
  <2>1. /\ worker[w].exc \in Exception /\ AfterFailure(w) \in BusyPc
        /\ {"webhook", "fail_publish", "early_release", "load"} \subseteq BusyPc
    BY <1>g DEF BusyWorker, AfterFailure, BusyPc, ConvertPc
  <2>2. worker' \in WR
    BY <1>6, <1>a, <2>1 DEF SoftLimit, SoftHandled, SoftSwallowed, SoftEscapes,
       SoftFailsOpen, SoftReleasesTwice
  <2>3. lock' \in LR
    BY <1>6, <1>f DEF TypeOK, LR, SoftLimit, SoftHandled, SoftSwallowed,
       SoftEscapes, SoftFailsOpen, SoftReleasesTwice
  <2> QED BY <1>6, <2>2, <2>3 DEF TypeOK, SoftLimit, WR, LR
<1>7. CASE NotifyReady(w)
  <2>1. worker' \in WR
    BY <1>7, <1>a, <1>c DEF NotifyReady, ConvertPc
  <2>2. notices' \in [Models -> Seq(Notice)]
    BY <1>7, <1>d, NoticeUpdate DEF TypeOK, NotifyReady, publish_model_ready
  <2> QED BY <1>7, <2>1, <2>2 DEF TypeOK, NotifyReady, WR
<1>8. CASE dispatch_webhook_event(w)
  <2>1. worker' \in WR
    BY <1>8, <1>a, <1>c, <1>e DEF dispatch_webhook_event, ConvertPc
  <2> QED BY <1>8, <2>1 DEF TypeOK, dispatch_webhook_event, WR
<1>9. CASE Release(w)
  BY <1>9, <1>a, <1>f DEF TypeOK, Release, WR, LR
<1>10. CASE EarlyRelease(w)
  <2>1. worker' \in WR
    BY <1>10, <1>a, <1>b, <1>e DEF EarlyRelease, ConvertPc
  <2>2. lock' \in LR
    BY <1>10, <1>f DEF EarlyRelease
  <2> QED BY <1>10, <2>1, <2>2 DEF TypeOK, EarlyRelease, WR, LR
<1>11. CASE handle_task_failure(w)
  <2>1. worker' \in WR
    BY <1>11, <1>a, <1>c DEF handle_task_failure, AfterFailure, Return, ConvertPc
  <2>2. status' \in [Models -> Status]
    BY <1>11, <1>d, StatusUpdate DEF TypeOK, handle_task_failure
  <2>3. notices' \in [Models -> Seq(Notice)]
    BY <1>11, <1>d, NoticeUpdate DEF TypeOK, handle_task_failure, publish_model_failed
  <2> QED BY <1>11, <2>1, <2>2, <2>3 DEF TypeOK, handle_task_failure, WR
<1>12. CASE FailRelease(w)
  <2>1. queue' \in [Message -> Nat]
    BY <1>12, QueueUpdate DEF TypeOK, FailRelease
  <2> QED BY <1>12, <2>1, <1>a, <1>f DEF TypeOK, FailRelease, WR, LR
<1> QED
  BY <1>1, <1>2, <1>3, <1>4, <1>5, <1>6, <1>7, <1>8, <1>9, <1>10, <1>11, <1>12
  DEF Converter

(* Delivery, loss of processes, lock expiry and the sweeper keep the types. *)
LEMMA EnvironmentTypes ==
    ASSUME TypeOK,
           \/ \E m \in Models : LockExpire(m)
           \/ \E w \in Workers : \/ \E msg \in Message : Take(w, msg)
                                 \/ AckLate(w)
                                 \/ Crash(w)
                                 \/ HardLimit(w)
                                 \/ GltfInvalid(w)
           \/ cleanup_abandoned_uploads
    PROVE  TypeOK'
<1> USE DEF rowVars, storageVars, apiVars, historyVars
<1>1. ASSUME NEW m \in Models, LockExpire(m)  PROVE TypeOK'
  BY <1>1 DEF TypeOK, LockExpire
<1>2. ASSUME NEW w \in Workers, NEW msg \in Message, Take(w, msg)
      PROVE  TypeOK'
  <2> DEFINE rec == [Idle EXCEPT !.pc = StartPc(msg.task), !.task = msg.task,
                                 !.model = msg.model, !.retries = msg.retries]
  <2>1. StartPc(msg.task) \in BusyPc
    BY DEF StartPc, Message, TaskName, BusyPc, ScanPc, ConvertPc
  <2>2. rec \in BusyWorker
    BY <2>1 DEF Idle, BusyWorker, Message, Exception
  <2>3. worker' \in [Workers -> Worker]
    BY <1>2, <2>2 DEF TypeOK, Take, Worker
  <2>4. queue' \in [Message -> Nat]
    <3>1. queue[msg] \in Nat
      BY DEF TypeOK
    <3>2. queue[msg] > 0
      BY <1>2 DEF Take
    <3>3. queue[msg] - 1 \in Nat
      BY <3>1, <3>2
    <3> QED BY <1>2, <3>3 DEF TypeOK, Take
  <2> QED BY <1>2, <2>3, <2>4 DEF TypeOK, Take
<1>3. ASSUME NEW w \in Workers, AckLate(w)  PROVE TypeOK'
  <2>1. worker' \in [Workers -> Worker]
    BY <1>3, AckUpdate DEF AckLate
  <2> QED BY <1>3, <2>1 DEF TypeOK, AckLate
<1>4. ASSUME NEW w \in Workers, Crash(w)  PROVE TypeOK'
  <2>1. worker' \in [Workers -> Worker]
    BY <1>4, AckUpdate DEF Crash
  <2>2. queue' \in [Message -> Nat]
    BY <1>4, QueueUpdate DEF TypeOK, Crash
  <2>3. lock' \in [Models -> Workers \cup {"free", "orphan"}]
    BY <1>4, LockUpdate DEF TypeOK, Crash
  <2> QED BY <1>4, <2>1, <2>2, <2>3 DEF TypeOK, Crash
<1>5. ASSUME NEW w \in Workers, HardLimit(w)  PROVE TypeOK'
  <2>1. worker' \in [Workers -> Worker]
    BY <1>5, AckUpdate DEF HardLimit
  <2>2. lock' \in [Models -> Workers \cup {"free", "orphan"}]
    BY <1>5, LockUpdate DEF TypeOK, HardLimit
  <2> QED BY <1>5, <2>1, <2>2 DEF TypeOK, HardLimit
<1>6. ASSUME NEW w \in Workers, GltfInvalid(w)  PROVE TypeOK'
  <2>1. "early_release" \in BusyPc
    BY DEF BusyPc, ConvertPc
  <2>2. worker' \in [Workers -> Worker]
    BY <1>6, <2>1, WorkerUpdates DEF GltfInvalid
  <2> QED BY <1>6, <2>2 DEF TypeOK, GltfInvalid
<1>7. ASSUME cleanup_abandoned_uploads  PROVE TypeOK'
  <2>1. CASE sweep_select
    BY <2>1 DEF TypeOK, sweep_select
  <2>2. CASE sweep_fail
    <3>1. status' \in [Models -> Status]
      BY <2>2, StatusUpdate DEF TypeOK, sweep_fail, Status
    <3> QED BY <2>2, <3>1 DEF TypeOK, sweep_fail
  <2>3. CASE sweep_delete
    BY <2>3 DEF TypeOK, sweep_delete
  <2> QED BY <1>7, <2>1, <2>2, <2>3 DEF cleanup_abandoned_uploads
<1> QED BY <1>1, <1>2, <1>3, <1>4, <1>5, <1>6, <1>7

(* The initial state is well typed.                                        *)
LEMMA InitTypes == Init => TypeOK
  BY ConstantsOK DEF Init, TypeOK, Status, Flag, ConfirmPc, RemovalPc, Worker

(* Every step of the pipeline keeps the types.                             *)
LEMMA NextTypes == TypeOK /\ [Next]_vars => TypeOK'
<1> SUFFICES ASSUME TypeOK, [Next]_vars  PROVE TypeOK'
  OBVIOUS
<1>1. CASE UNCHANGED vars
  BY <1>1 DEF TypeOK, vars, rowVars, storageVars, apiVars, historyVars
<1>2. CASE Next
  <2>1. ASSUME NEW w \in Workers, Tasks(w)  PROVE TypeOK'
    BY <2>1, ScanTypes, ConvertTypes, EnvironmentTypes
    DEF Tasks, process_model, process_gltf, process_step, process_obj,
        process_stl
  <2> QED BY <1>2, <2>1, ApiTypes, EnvironmentTypes DEF Next
<1> QED BY <1>1, <1>2

(***************************************************************************)
(* Every variable keeps its type in every reachable state, whatever the    *)
(* constants and whichever faults occur.                                   *)
(***************************************************************************)
THEOREM TypeCorrect == Spec => []TypeOK
<1>1. Init => TypeOK
  BY InitTypes
<1>2. TypeOK /\ [Next]_vars => TypeOK'
  BY NextTypes
<1> QED BY <1>1, <1>2, PTL DEF Spec

-----------------------------------------------------------------------------
(* Mutual exclusion of conversions.  The invariant that carries it: a      *)
(* worker between acquire_task_lock and its release owns the lock of its   *)
(* model.  It is what makes the unconditional DEL of release_task_lock     *)
(* harmless: the key deleted is always the worker's own.                   *)

LockInv == \A m \in Models, w \in Workers : Converting(w, m) => lock[m] = w

(* What a step of w leaves alone.                                          *)
Others(w) == \A v \in Workers : v # w => worker'[v] = worker[v]

(* What the updates of a worker record do to its fields, and to the others. *)
LEMMA UpdateEffects ==
    ASSUME TypeOK, NEW w \in Workers, worker[w].pc # "idle"
    PROVE  /\ \A pc : Goto(w, pc) => /\ Others(w)
                                     /\ worker'[w].pc = pc
                                     /\ worker'[w].model = worker[w].model
                                     /\ worker'[w].exc = worker[w].exc
           /\ \A e : Raise(w, e) => /\ Others(w)
                                    /\ worker'[w].pc = "fail_status"
                                    /\ worker'[w].model = worker[w].model
                                    /\ worker'[w].exc = e
           /\ \A pc, e : SoftGoto(w, pc, e) =>
                  /\ Others(w)
                  /\ worker'[w].pc = pc
                  /\ worker'[w].model = worker[w].model
                  /\ worker'[w].exc = e
           /\ NextStage(w) => /\ Others(w)
                              /\ worker'[w].pc = worker[w].pc
                              /\ worker'[w].model = worker[w].model
                              /\ worker'[w].exc = worker[w].exc
<1>1. worker[w] \in BusyWorker /\ worker \in [Workers -> Worker]
  BY BusyRecord DEF TypeOK
<1>2. ASSUME NEW pc, Goto(w, pc)
      PROVE  /\ Others(w)
             /\ worker'[w].pc = pc
             /\ worker'[w].model = worker[w].model
             /\ worker'[w].exc = worker[w].exc
  BY <1>1, <1>2 DEF Goto, Others, BusyWorker
<1>3. ASSUME NEW e, Raise(w, e)
      PROVE  /\ Others(w)
             /\ worker'[w].pc = "fail_status"
             /\ worker'[w].model = worker[w].model
             /\ worker'[w].exc = e
  BY <1>1, <1>3 DEF Raise, Others, BusyWorker
<1>4. ASSUME NextStage(w)
      PROVE  /\ Others(w)
             /\ worker'[w].pc = worker[w].pc
             /\ worker'[w].model = worker[w].model
             /\ worker'[w].exc = worker[w].exc
  BY <1>1, <1>4 DEF NextStage, Others, BusyWorker
<1>5. ASSUME NEW pc, NEW e, SoftGoto(w, pc, e)
      PROVE  /\ Others(w)
             /\ worker'[w].pc = pc
             /\ worker'[w].model = worker[w].model
             /\ worker'[w].exc = e
  BY <1>1, <1>5 DEF SoftGoto, Others, BusyWorker
<1> QED BY <1>2, <1>3, <1>4, <1>5

(* A worker whose message is acknowledged converts nothing.                *)
LEMMA AckEffects ==
    ASSUME TypeOK, NEW w \in Workers, Ack(w)
    PROVE  Others(w) /\ \A m \in Models : ~Converting(w, m)'
  BY ConstantsOK DEF TypeOK, Ack, Others, Converting, Idle

(* A step of w that does not touch the lock and does not start converting. *)
LEMMA LocalStep ==
    ASSUME LockInv, NEW w \in Workers, UNCHANGED lock, Others(w),
           \A m \in Models : Converting(w, m)' => Converting(w, m)
    PROVE  LockInv'
  BY DEF LockInv, Others, Converting

(* The others still hold their locks after w released its own.             *)
LEMMA ReleaseStep ==
    ASSUME TypeOK, LockInv, NEW w \in Workers, NEW m \in Models,
           Converting(w, m), release_task_lock(m), Others(w),
           \A n \in Models : ~Converting(w, n)'
    PROVE  LockInv'
<1> SUFFICES ASSUME NEW n \in Models, NEW v \in Workers, Converting(v, n)'
             PROVE  lock'[n] = v
  BY DEF LockInv
<1>1. v # w
  OBVIOUS
<1>2. Converting(v, n)
  BY <1>1 DEF Others, Converting
<1>3. lock[n] = v /\ lock[m] = w
  BY <1>2 DEF LockInv
<1>4. n # m
  BY <1>1, <1>3
<1>5. lock'[n] = lock[n]
  BY <1>4 DEF TypeOK, release_task_lock
<1> QED BY <1>3, <1>5

(* The others still hold their locks after w ended and left its own.       *)
LEMMA AbandonStep ==
    ASSUME TypeOK, LockInv, NEW w \in Workers, AbandonLock(w), Others(w),
           \A n \in Models : ~Converting(w, n)'
    PROVE  LockInv'
<1> SUFFICES ASSUME NEW n \in Models, NEW v \in Workers, Converting(v, n)'
             PROVE  lock'[n] = v
  BY DEF LockInv
<1>1. v # w
  OBVIOUS
<1>2. Converting(v, n)
  BY <1>1 DEF Others, Converting
<1>3. lock[n] = v
  BY <1>2 DEF LockInv
<1>4. lock'[n] = lock[n]
  BY <1>1, <1>3 DEF AbandonLock
<1> QED BY <1>3, <1>4

(* The scan and the router neither convert nor touch a lock.               *)
LEMMA ScanLock ==
    ASSUME TypeOK, LockInv, NEW w \in Workers, scan_file(w) \/ generate_chunks(w)
    PROVE  LockInv'
<1>1. worker[w].pc # "idle" /\ UNCHANGED lock
  BY DEF scan_file, generate_chunks, scan_load, scan_run,
         _dispatch_processing_task, infected_status, infected_delete,
         _publish_scan_failure, error_status, _publish_scan_error,
         scan_soft_handled, scan_soft_lost, scan_soft_late
<1>2. Ack(w) \/ \E pc \in ScanPc \cup {"return"} :
                   Goto(w, pc) \/ SoftGoto(w, pc, "none")
  BY DEF scan_file, generate_chunks, scan_load, scan_run, scan_retry,
         _dispatch_processing_task, infected_status, infected_delete,
         _publish_scan_failure, error_status, _publish_scan_error,
         scan_soft_handled, scan_soft_lost, scan_soft_late, Return, ScanPc
<1>3. CASE Ack(w)
  BY <1>1, <1>3, AckEffects, LocalStep
<1>4. ASSUME NEW pc \in ScanPc \cup {"return"},
             Goto(w, pc) \/ SoftGoto(w, pc, "none")
      PROVE  LockInv'
  <2>1. Others(w) /\ worker'[w].pc = pc
    BY <1>1, <1>4, UpdateEffects
  <2>2. \A n \in Models : ~Converting(w, n)'
    BY <2>1 DEF Converting, CriticalPc, ScanPc
  <2> QED BY <1>1, <2>1, <2>2, LocalStep
<1> QED BY <1>2, <1>3, <1>4

(* A converter acquires the lock before it converts, keeps it while it     *)
(* does, and stops converting when it releases it.                         *)
LEMMA ConvertLock ==
    ASSUME TypeOK, LockInv, {"redis_acquire", "soft_lock"} \cap Enabled = {},
           NEW w \in Workers, NEW f, NEW stages, Converter(w, f, stages)
    PROVE  LockInv'
<1> DEFINE m == worker[w].model
<1>0. worker[w].pc # "idle"
  BY DEF Converter, Guard, acquire_task_lock, Load, RunStage, StageFails,
         SoftLimit, SoftHandled, SoftSwallowed, SoftEscapes, SoftFailsOpen,
         SoftReleasesTwice, NotifyReady, dispatch_webhook_event, Release,
         EarlyRelease, handle_task_failure, FailRelease
<1>a. m \in Models
  BY <1>0, BusyRecord DEF BusyWorker
<1>b. ASSUME NEW pc, Goto(w, pc) \/ SoftGoto(w, pc, worker[w].exc),
             UNCHANGED lock,
             pc \in CriticalPc => Converting(w, m),
             pc \in {"fail_status", "fail_publish"}
                 => Converting(w, m) \/ worker[w].exc = "released"
      PROVE  LockInv'
  <2>1. /\ Others(w)
        /\ worker'[w].pc = pc
        /\ worker'[w].model = m
        /\ worker'[w].exc = worker[w].exc
    BY <1>0, <1>b, UpdateEffects
  <2>2. \A n \in Models : Converting(w, n)' => Converting(w, n)
    BY <1>b, <2>1 DEF Converting
  <2> QED BY <1>b, <2>1, <2>2, LocalStep
<1>c. ASSUME NEW e, Raise(w, e), UNCHANGED lock, Converting(w, m)
      PROVE  LockInv'
  <2>1. Others(w) /\ worker'[w].model = m
    BY <1>0, <1>c, UpdateEffects
  <2>2. \A n \in Models : Converting(w, n)' => Converting(w, n)
    BY <1>c, <2>1 DEF Converting
  <2> QED BY <1>c, <2>1, <2>2, LocalStep
<1>d. ASSUME Others(w), worker'[w].model = m, UNCHANGED lock, Converting(w, m)
      PROVE  LockInv'
  <2>1. \A n \in Models : Converting(w, n)' => Converting(w, n)
    BY <1>d DEF Converting
  <2> QED BY <1>d, <2>1, LocalStep
<1>e. Ack(w) /\ UNCHANGED lock => LockInv'
  BY AckEffects, LocalStep
<1>f. ASSUME Ack(w), AbandonLock(w)  PROVE LockInv'
  BY <1>f, AckEffects, AbandonStep
<1>g. worker[w] \in BusyWorker
  BY <1>0, BusyRecord
<1> HIDE DEF m
<1>1. CASE Guard(w)
  BY <1>1, <1>b, <1>e DEF Guard, CriticalPc
<1>2. CASE acquire_task_lock(w)
  <2>1. CASE /\ lock[m] = "free"
             /\ lock' = [lock EXCEPT ![m] = w]
             /\ Goto(w, "load")
    <3>1. Others(w) /\ worker'[w].model = m
      BY <1>0, <2>1, UpdateEffects DEF m
    <3>2. SUFFICES ASSUME NEW n \in Models, NEW v \in Workers,
                          Converting(v, n)'
                   PROVE  lock'[n] = v
      BY DEF LockInv
    <3>3. CASE v = w
      <4>1. n = m
        BY <3>1, <3>2, <3>3 DEF Converting
      <4> QED BY <1>a, <2>1, <3>3, <4>1 DEF TypeOK
    <3>4. CASE v # w
      <4>1. Converting(v, n)
        BY <3>1, <3>2, <3>4 DEF Others, Converting
      <4>2. lock[n] = v
        BY <4>1 DEF LockInv
      <4>3. n # m
        BY <2>1, <4>2, ConstantsOK
      <4> QED BY <2>1, <4>2, <4>3 DEF TypeOK
    <3> QED BY <3>3, <3>4
  <2> QED BY <1>2, <1>e, <2>1 DEF acquire_task_lock, LockAvailable, m
<1>3. CASE Load(w)
  <2>1. Converting(w, m)
    BY <1>3 DEF Load, Converting, CriticalPc, m
  <2>2. ASSUME worker' = [worker EXCEPT ![w] =
                            [worker[w] EXCEPT !.pc = "run", !.stage = 1]]
        PROVE  Others(w) /\ worker'[w].model = m
    BY <1>g, <2>2 DEF TypeOK, Others, BusyWorker, m
  <2> QED BY <1>3, <1>b, <1>c, <1>d, <1>f, <2>1, <2>2 DEF Load, Oversize
<1>4. CASE RunStage(w, stages)
  <2>1. Converting(w, m) /\ UNCHANGED lock
    BY <1>4 DEF RunStage, Converting, CriticalPc, m
  <2>2. Others(w) /\ worker'[w].model = m
    <3>1. CASE Download(w, m)
      <4>1. ASSUME NEW e, Raise(w, e)
            PROVE  Others(w) /\ worker'[w].model = m
        BY <1>0, <4>1, UpdateEffects DEF m
      <4>2. ASSUME worker' = [worker EXCEPT ![w] =
                     [worker[w] EXCEPT !.stage = worker[w].stage + 1,
                                       !.src = raw[m]]]
            PROVE  Others(w) /\ worker'[w].model = m
        <5>1. Others(w)
          BY <4>2 DEF TypeOK, Others
        <5> QED BY <1>g, <4>2, <5>1 DEF TypeOK, BusyWorker, m
      <4> QED BY <3>1, <4>1, <4>2 DEF Download
    <3>2. CASE UploadChunk(w, m)
      <4>1. Others(w)
        BY <3>2 DEF TypeOK, UploadChunk, Others
      <4> QED BY <1>g, <3>2, <4>1 DEF TypeOK, UploadChunk, BusyWorker, m
    <3>3. CASE PersistMetadata(w, m)
      BY <1>0, <3>3, UpdateEffects DEF PersistMetadata, m
    <3>4. CASE Finalize(w, m)
      BY <1>0, <3>4, UpdateEffects DEF Finalize, m
    <3>5. CASE LocalStage(w)
      BY <1>0, <3>5, UpdateEffects DEF LocalStage, m
    <3> QED BY <1>4, <3>1, <3>2, <3>3, <3>4, <3>5 DEF RunStage, m
  <2> QED BY <1>d, <2>1, <2>2
<1>5. CASE StageFails(w, stages)
  BY <1>5, <1>c DEF StageFails, Converting, CriticalPc, m
<1>6. CASE SoftLimit(w)
  <2>1. CASE SoftHandled(w)
    BY <1>b, <2>1 DEF SoftHandled, Converting, CriticalPc, m
  <2>2. CASE SoftSwallowed(w)
    <3>1. PICK to \in {<<"notify", "webhook">>, <<"fail_status", "fail_publish">>,
                       <<"fail_publish", AfterFailure(w)>>} :
             /\ worker[w].pc = to[1] /\ SoftGoto(w, to[2], worker[w].exc)
             /\ UNCHANGED lock
      BY <2>2 DEF SoftSwallowed
    <3>2. Converting(w, m) \/ worker[w].exc = "released"
      BY <3>1 DEF Converting, CriticalPc, m
    <3>3. to[2] \in CriticalPc => Converting(w, m)
      BY <3>1, <3>2 DEF Converting, CriticalPc, AfterFailure, m
    <3> QED BY <1>b, <3>1, <3>2, <3>3
  <2>3. CASE SoftEscapes(w)
    BY <1>f, <2>3 DEF SoftEscapes
  <2> QED BY <1>6, <2>1, <2>2, <2>3 DEF SoftLimit, SoftFailsOpen,
          SoftReleasesTwice, SoftDue
<1>7. CASE NotifyReady(w)
  BY <1>7, <1>b DEF NotifyReady, Converting, CriticalPc, m
<1>8. CASE dispatch_webhook_event(w)
  BY <1>8, <1>b, <1>c DEF dispatch_webhook_event, Converting, CriticalPc, m
<1>9. ASSUME NEW pc, Goto(w, pc), pc = "return", Unlock(w), Converting(w, m)
      PROVE  LockInv'
  <2>1. Others(w) /\ worker'[w].pc = pc
    BY <1>0, <1>9, UpdateEffects
  <2>2. \A n \in Models : ~Converting(w, n)'
    BY <1>9, <2>1 DEF Converting, CriticalPc
  <2> QED BY <1>9, <1>a, <2>1, <2>2, ReleaseStep, AbandonStep DEF Unlock, m
<1>10. CASE Release(w)
  BY <1>9, <1>10 DEF Release, Return, Converting, CriticalPc, m
<1>11. CASE EarlyRelease(w)
  <2>1. /\ Converting(w, m)
        /\ release_task_lock(m) \/ AbandonLock(w)
        /\ Raise(w, "released") \/ SoftGoto(w, "fail_status", "released")
    BY <1>11 DEF EarlyRelease, Converting, CriticalPc, m
  <2>2. /\ Others(w)
        /\ worker'[w].pc = "fail_status"
        /\ worker'[w].exc = "released"
    BY <1>0, <2>1, UpdateEffects
  <2>3. \A n \in Models : ~Converting(w, n)'
    BY <2>2 DEF Converting, CriticalPc
  <2> QED BY <1>a, <2>1, <2>2, <2>3, ReleaseStep, AbandonStep
<1>12. CASE handle_task_failure(w)
  <2>1. UNCHANGED lock
    BY <1>12 DEF handle_task_failure
  <2>2. Converting(w, m) \/ worker[w].exc = "released"
    BY <1>12 DEF handle_task_failure, Converting, m
  <2>3. \/ Goto(w, "fail_publish") \/ Goto(w, "return")
        \/ Goto(w, "fail_release") /\ worker[w].exc # "released"
    BY <1>12 DEF handle_task_failure, AfterFailure
  <2> QED BY <1>b, <2>1, <2>2, <2>3 DEF CriticalPc
<1>13. CASE FailRelease(w)
  BY <1>9, <1>13 DEF FailRelease, Return, Converting, CriticalPc, m
<1> QED
  BY <1>1, <1>2, <1>3, <1>4, <1>5, <1>6, <1>7, <1>8, <1>10, <1>11, <1>12, <1>13
  DEF Converter

(* Every step of the pipeline preserves the ownership of the locks.        *)
LEMMA NextLock ==
    ASSUME TypeOK, LockInv, {"redis_acquire", "soft_lock"} \cap Enabled = {},
           [Next]_vars
    PROVE  LockInv'
<1>0. UNCHANGED <<worker, lock>> => LockInv'
  BY DEF LockInv, Converting
<1>1. CASE UNCHANGED vars
  BY <1>0, <1>1 DEF vars
<1>2. ASSUME NEW m \in Models,
             initiate_upload(m) \/ upload_local_file(m) \/ delete_model(m)
      PROVE  LockInv'
  BY <1>0, <1>2 DEF initiate_upload, upload_local_file, delete_model,
     delete_select, delete_raw_object, delete_processed_objects, delete_row
<1>3. ASSUME NEW m \in Models, LockExpire(m)  PROVE LockInv'
  <2> SUFFICES ASSUME NEW n \in Models, NEW v \in Workers, Converting(v, n)'
               PROVE  lock'[n] = v
    BY DEF LockInv
  <2>1. lock[n] = v
    BY <1>3 DEF LockExpire, LockInv, Converting
  <2>2. n # m
    BY <1>3, <2>1, ConstantsOK DEF LockExpire
  <2> QED BY <1>3, <2>1, <2>2 DEF TypeOK, LockExpire
<1>4. ASSUME NEW r \in Requests, confirm_upload(r)  PROVE LockInv'
  BY <1>0, <1>4 DEF confirm_upload, confirm_select, confirm_verify,
     confirm_commit, confirm_enqueue
<1>5. CASE cleanup_abandoned_uploads
  BY <1>0, <1>5 DEF cleanup_abandoned_uploads, sweep_select, sweep_fail,
     sweep_delete
<1>6. ASSUME NEW w \in Workers, NEW msg \in Message, Take(w, msg)
      PROVE  LockInv'
  <2> DEFINE rec == [Idle EXCEPT !.pc = StartPc(msg.task), !.task = msg.task,
                                 !.model = msg.model, !.retries = msg.retries]
  <2>1. worker' = [worker EXCEPT ![w] = rec] /\ UNCHANGED lock
    BY <1>6 DEF Take
  <2>2. rec.pc \in {"scan_load", "route", "guard"}
    BY DEF StartPc, Message, TaskName, Idle
  <2> HIDE DEF rec
  <2>3. Others(w) /\ worker'[w] = rec
    BY <2>1 DEF TypeOK, Others
  <2>4. \A n \in Models : ~Converting(w, n)'
    BY <2>2, <2>3 DEF Converting, CriticalPc
  <2> QED BY <2>1, <2>3, <2>4, LocalStep
<1>7. ASSUME NEW w \in Workers, Crash(w) \/ HardLimit(w)  PROVE LockInv'
  BY <1>7, AckEffects, AbandonStep DEF Crash, HardLimit
<1>8. ASSUME NEW w \in Workers, AckLate(w)  PROVE LockInv'
  BY <1>8, AckEffects, LocalStep DEF AckLate
<1>9. ASSUME NEW w \in Workers, GltfInvalid(w)  PROVE LockInv'
  <2>1. /\ Others(w) /\ UNCHANGED lock
        /\ worker'[w].model = worker[w].model
        /\ worker[w].pc = "run"
    BY <1>9, UpdateEffects DEF GltfInvalid
  <2>2. \A n \in Models : Converting(w, n)' => Converting(w, n)
    BY <2>1 DEF Converting, CriticalPc
  <2> QED BY <2>1, <2>2, LocalStep
<1>10. ASSUME NEW w \in Workers, Tasks(w)  PROVE LockInv'
  BY <1>8, <1>9, <1>10, ScanLock, ConvertLock
  DEF Tasks, process_model, process_gltf, process_step, process_obj,
      process_stl
<1> QED
  BY <1>1, <1>2, <1>3, <1>4, <1>5, <1>6, <1>7, <1>10 DEF Next

(***************************************************************************)
(* With Redis reachable at acquire_task_lock, no two workers ever convert  *)
(* the same model at once: for any number of models, workers and confirm   *)
(* requests, any crashes, retries and failed releases, and any time limits *)
(* but a soft limit inside the lock's own calls, where it fails open or    *)
(* releases twice.                                                         *)
(***************************************************************************)
THEOREM MutexCorrect ==
    ASSUME {"redis_acquire", "soft_lock"} \cap Enabled = {}
    PROVE  Spec => []ConversionMutex
<1>1. Init => LockInv
  BY ConstantsOK DEF Init, LockInv, Converting, Idle
<1>2. TypeOK /\ LockInv /\ [Next]_vars => LockInv'
  BY NextLock
<1>3. LockInv => ConversionMutex
  BY DEF LockInv, ConversionMutex
<1> QED BY <1>1, <1>2, <1>3, TypeCorrect, PTL DEF Spec

=============================================================================
