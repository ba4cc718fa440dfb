-------------------------- MODULE WebhookDelivery --------------------------
(***************************************************************************)
(* Webhooks: the rows that users edit through the API, the fan-out of an   *)
(* event (dispatch_webhook_event in the worker's pipeline, dispatch_event  *)
(* in the API) and the Celery task that posts it.  The broker is external: *)
(* a bag of messages for each queue.  A message is acknowledged late, and  *)
(* given back when its worker process dies.  The time of retries is left   *)
(* out: a message with a countdown may be taken at any moment.             *)
(***************************************************************************)
EXTENDS Naturals, FiniteSets

CONSTANTS
    Hooks,      \* webhook ids of one user
    Workers,    \* worker processes (--concurrency=2)
    MaxRetries, \* max_retries of the task
    MaxJobs,    \* bound: messages sent by fan-outs
    MaxCrashes, \* bound: worker processes lost
    HookFaults  \* faults of the instance: "db" (SELECT fails), "log" (INSERT
                \* fails), "broker" (a fan-out stops half-way), "edit" (users
                \* change and delete their webhooks)

ASSUME HooksOK == /\ Hooks # {}
                  /\ MaxRetries \in Nat /\ MaxJobs \in Nat
                  /\ MaxCrashes \in Nat

VARIABLES
    hook,       \* webhooks rows
    fanout,     \* per source of events: the rows it has yet to send to
    sent,       \* messages sent by fan-outs so far; each is a job
    job,        \* the webhook, source and queue of each job
    waiting,    \* messages in the broker: how many of each job and try
    task,       \* the task that each worker process runs
    log,        \* webhook_delivery_logs: jobs with a row that says success
    posts,      \* history: POSTs made for each job
    final,      \* history: 2xx and 4xx answers received for each job
    accepted,   \* history: jobs that were answered 2xx
    ended,      \* history: messages of each job that ended without a retry
    hurt,       \* history: jobs that a failing database or a crash touched
    crashes     \* number of worker processes lost

hookVars == <<hook, fanout, sent, job, waiting, task, log, posts, final,
              accepted, ended, hurt, crashes>>

Jobs    == 1..MaxJobs
Tries   == 0..MaxRetries
Sources == {"pipeline", "annotation"}
NoJob   == 0
(* "other" is a 5xx or 3xx answer, a timeout or an error of the connection; *)
(* "none", that no POST was made: URL blocked or payload not serialisable. *)
Answers == {"2xx", "4xx", "other", "none"}
TaskPc  == {"idle", "url", "post", "log", "end", "ack"}

(* The queues that the worker's command line consumes.                     *)
Consumed == {"ifc", "mesh", "scan", "bcf", "webhook"}

Row == [row : {"live", "deleted"}, active : BOOLEAN, subscribed : BOOLEAN,
        public : BOOLEAN]
Gone == [row |-> "deleted", active |-> FALSE, subscribed |-> FALSE,
         public |-> TRUE]
IdleTask == [pc |-> "idle", job |-> NoJob, try |-> 0, public |-> TRUE,
             answer |-> "none"]

HookTypeOK ==
    /\ hook \in [Hooks -> Row]
    /\ fanout \in [Sources -> SUBSET Hooks]
    /\ sent \in 0..MaxJobs
    /\ job \in [Jobs -> [hook : Hooks, source : Sources,
                         queue : Consumed \cup {"celery"}]]
    /\ waiting \in [Jobs \X Tries -> Nat]
    /\ task \in [Workers -> [pc : TaskPc, job : Jobs \cup {NoJob},
                    try : Tries, public : BOOLEAN, answer : Answers]]
    /\ log \subseteq Jobs
    /\ posts \in [Jobs -> Nat] /\ final \in [Jobs -> Nat]
    /\ ended \in [Jobs -> Nat]
    /\ accepted \subseteq Jobs /\ hurt \subseteq Jobs
    /\ crashes \in 0..MaxCrashes

HookInit ==
    /\ hook \in [Hooks -> [row : {"live"}, active : {TRUE},
                           subscribed : BOOLEAN, public : BOOLEAN]]
    /\ fanout = [s \in Sources |-> {}]
    /\ sent = 0
    /\ job = [j \in Jobs |-> [hook |-> CHOOSE h \in Hooks : TRUE,
                              source |-> "pipeline", queue |-> "webhook"]]
    /\ waiting = [m \in Jobs \X Tries |-> 0]
    /\ task = [w \in Workers |-> IdleTask]
    /\ log = {} /\ accepted = {} /\ hurt = {}
    /\ posts = [j \in Jobs |-> 0]
    /\ final = [j \in Jobs |-> 0]
    /\ ended = [j \in Jobs |-> 0]
    /\ crashes = 0

taskVars    == <<waiting, task, log, posts, final, accepted, ended, hurt,
                 crashes>>
answerVars  == <<posts, final, accepted>>
historyVars == <<answerVars, ended, hurt>>
senderVars  == <<fanout, sent, job>>

-----------------------------------------------------------------------------
(* PATCH and DELETE /webhooks/{id} of the owner; ON DELETE CASCADE takes   *)
(* the log with the row.  Creation is in HookInit: rows start active.      *)
update_webhook(h) ==
    /\ "edit" \in HookFaults
    /\ hook[h].row = "live"
    /\ \E active, subscribed, public \in BOOLEAN :
          hook' = [hook EXCEPT ![h] = [row |-> "live", active |-> active,
                        subscribed |-> subscribed, public |-> public]]
    /\ UNCHANGED <<senderVars, taskVars>>

delete_webhook(h) ==
    /\ "edit" \in HookFaults
    /\ hook[h].row = "live"
    /\ hook' = [hook EXCEPT ![h] = Gone]
    /\ log' = {j \in log : job[j].hook # h}
    /\ UNCHANGED <<senderVars, waiting, task, historyVars, crashes>>

(* dispatch_event and dispatch_webhook_event: one SELECT of the active     *)
(* webhooks, filtered by their events, then one send_task for each.        *)
Wants(h) == hook[h].row = "live" /\ hook[h].active /\ hook[h].subscribed

select_webhooks(s) ==
    /\ fanout[s] = {}
    /\ fanout' = [fanout EXCEPT ![s] = {h \in Hooks : Wants(h)}]
    /\ UNCHANGED <<hook, sent, job, taskVars>>

(* Only the worker's fan-out names the queue; the API's Celery client has  *)
(* no task_routes, and sends to Celery's default queue.                    *)
QueueOf(s) == IF s = "pipeline" THEN "webhook" ELSE "celery"

send_task(s, h) ==
    /\ h \in fanout[s]
    /\ sent < MaxJobs
    /\ sent' = sent + 1
    /\ job' = [job EXCEPT ![sent'] = [hook |-> h, source |-> s,
                                      queue |-> QueueOf(s)]]
    /\ waiting' = [waiting EXCEPT ![<<sent', 0>>] = 1]
    /\ fanout' = [fanout EXCEPT ![s] = @ \ {h}]
    /\ UNCHANGED <<hook, task, log, historyVars, crashes>>

send_task_fails(s) ==
    /\ "broker" \in HookFaults
    /\ fanout[s] # {}
    /\ fanout' = [fanout EXCEPT ![s] = {}]
    /\ UNCHANGED <<hook, sent, job, taskVars>>

-----------------------------------------------------------------------------
TaskGoto(w, pc, answer) ==
    task' = [task EXCEPT ![w].pc = pc, ![w].answer = answer,
                         ![w].public = TRUE]

(* The task returns or fails for good: its message is acknowledged.        *)
EndTask(w) ==
    /\ task' = [task EXCEPT ![w] = IdleTask]
    /\ ended' = [ended EXCEPT ![task[w].job] = @ + 1]

take(w, j, n) ==
    /\ task[w].pc = "idle"
    /\ j <= sent
    /\ job[j].queue \in Consumed
    /\ waiting[<<j, n>>] > 0
    /\ waiting' = [waiting EXCEPT ![<<j, n>>] = @ - 1]
    /\ task' = [task EXCEPT ![w] = [IdleTask EXCEPT !.pc = "url", !.job = j,
                                                    !.try = n]]
    /\ UNCHANGED <<hook, senderVars, log, historyVars, crashes>>

(* _get_webhook_row: a row that is gone or inactive ends the task, and so  *)
(* does an error of the database, which nothing catches.                   *)
get_webhook_row(w) ==
    LET h == job[task[w].job].hook IN
    /\ task[w].pc = "url"
    /\ IF hook[h].row = "live" /\ hook[h].active
       THEN /\ task' = [task EXCEPT ![w].pc = "post",
                                    ![w].public = hook[h].public]
            /\ UNCHANGED ended
       ELSE EndTask(w)
    /\ UNCHANGED <<hook, senderVars, waiting, log, answerVars, hurt,
                   crashes>>

get_webhook_row_fails(w) ==
    /\ "db" \in HookFaults
    /\ task[w].pc = "url"
    /\ EndTask(w)
    /\ hurt' = hurt \cup {task[w].job}
    /\ UNCHANGED <<hook, senderVars, waiting, log, answerVars, crashes>>

(* _validate_webhook_url, then _deliver: an answer, a timeout or another   *)
(* error of the connection, or a payload that cannot be sent.  A timeout   *)
(* may follow a POST that arrived.                                         *)
deliver(w) ==
    LET j == task[w].job IN
    /\ task[w].pc = "post"
    /\ IF ~ task[w].public
       THEN TaskGoto(w, "log", "none") /\ UNCHANGED answerVars
       ELSE \E a \in Answers :
               /\ TaskGoto(w, "log", a)
               /\ posts' = IF a = "none" THEN posts
                           ELSE [posts EXCEPT ![j] = @ + 1]
               /\ final' = IF a \in {"2xx", "4xx"}
                           THEN [final EXCEPT ![j] = @ + 1] ELSE final
               /\ accepted' = IF a = "2xx" THEN accepted \cup {j}
                                           ELSE accepted
    /\ UNCHANGED <<hook, senderVars, waiting, log, ended, hurt, crashes>>

(* _log_delivery, best effort: the INSERT also fails for a deleted row.    *)
(* Mutant: only failures are logged.                                       *)
LogsFailures(answer) == FALSE
LogsSuccess(answer)  == answer = "2xx"

log_delivery(w) ==
    LET j == task[w].job IN
    /\ task[w].pc = "log"
    /\ TaskGoto(w, "end", task[w].answer)
    /\ \/ /\ log' = IF LogsSuccess(task[w].answer)
                          /\ hook[job[j].hook].row = "live"
                    THEN log \cup {j} ELSE log
          /\ UNCHANGED hurt
       \/ /\ "log" \in HookFaults
          /\ hurt' = hurt \cup {j}
          /\ UNCHANGED log
    /\ UNCHANGED <<hook, senderVars, waiting, answerVars, ended, crashes>>

(* What is retried.  Mutant: a 4xx answer as well.                         *)
RetriedUnless2xx(answer) == answer \in {"4xx", "other"}
Retried(answer)          == answer = "other"

finish(w) ==
    /\ task[w].pc = "end"
    /\ ~ (Retried(task[w].answer) /\ task[w].try < MaxRetries)
    /\ EndTask(w)
    /\ UNCHANGED <<hook, senderVars, waiting, log, answerVars, hurt,
                   crashes>>

(* self.retry: send the message of the next try, then raise Retry, upon    *)
(* which this message is acknowledged.  Mutants: Retry is swallowed by the *)
(* `except Exception` (the comment at webhook.py:342); the message keeps   *)
(* its count.                                                              *)
SendRetry(w, n) ==
    /\ task[w].pc = "end"
    /\ Retried(task[w].answer)
    /\ task[w].try < MaxRetries
    /\ waiting' = [waiting EXCEPT ![<<task[w].job, n>>] = @ + 1]

retry_swallowed(w) ==
    /\ SendRetry(w, task[w].try + 1)
    /\ EndTask(w)
    /\ UNCHANGED <<hook, senderVars, log, answerVars, hurt, crashes>>

retry_uncounted(w) ==
    /\ SendRetry(w, task[w].try)
    /\ TaskGoto(w, "ack", "none")
    /\ UNCHANGED <<hook, senderVars, log, historyVars, crashes>>

retry(w) ==
    /\ SendRetry(w, task[w].try + 1)
    /\ TaskGoto(w, "ack", "none")
    /\ UNCHANGED <<hook, senderVars, log, historyVars, crashes>>

ack(w) ==
    /\ task[w].pc = "ack"
    /\ task' = [task EXCEPT ![w] = IdleTask]
    /\ UNCHANGED <<hook, senderVars, waiting, log, historyVars, crashes>>

(* The worker process dies.  Mutant: acknowledged early, the message is    *)
(* gone.                                                                   *)
not_given_back(w) == waiting
given_back(w) == [waiting EXCEPT ![<<task[w].job, task[w].try>>] = @ + 1]

crash(w) ==
    /\ crashes < MaxCrashes
    /\ task[w].pc # "idle"
    /\ crashes' = crashes + 1
    /\ waiting' = given_back(w)
    /\ task' = [task EXCEPT ![w] = IdleTask]
    /\ hurt' = hurt \cup {task[w].job}
    /\ UNCHANGED <<hook, senderVars, log, answerVars, ended>>

-----------------------------------------------------------------------------
RunTask(w) ==
    \/ get_webhook_row(w) \/ get_webhook_row_fails(w) \/ deliver(w)
    \/ log_delivery(w) \/ finish(w) \/ retry(w) \/ ack(w)

Take(w) == \E j \in Jobs, n \in Tries : take(w, j, n)

HookNext ==
    \/ \E h \in Hooks : update_webhook(h) \/ delete_webhook(h)
    \/ \E s \in Sources : \/ select_webhooks(s) \/ send_task_fails(s)
                          \/ \E h \in Hooks : send_task(s, h)
    \/ \E w \in Workers : RunTask(w) \/ Take(w) \/ crash(w)

HookSpec == HookInit /\ [][HookNext]_hookVars

(* Worker processes keep running their tasks, and consume their queues in  *)
(* order, so that no message is passed over for ever.                      *)
HookFairness ==
    /\ \A w \in Workers : WF_hookVars(RunTask(w))
    /\ \A j \in Jobs, n \in Tries :
          WF_hookVars(\E w \in Workers : take(w, j, n))

HookFairSpec == HookSpec /\ HookFairness

-----------------------------------------------------------------------------
(* The messages of a job in the broker, one pair for each message, and the *)
(* workers that have taken one and have not sent its retry.                *)
Messages(j) == UNION {{n} \X (1 .. waiting[<<j, n>>]) : n \in Tries}
Holders(j)  == {w \in Workers : task[w].job = j /\ task[w].pc # "ack"}
Live(j)     == Cardinality(Messages(j)) + Cardinality(Holders(j))

(* A message is never multiplied: what is alive of a job and what has      *)
(* ended of it is one, and one more for each lost worker process (which    *)
(* may have sent the retry of a message that is given back).               *)
NoExtraCopies == \A j \in Jobs : Live(j) + ended[j] <= 1 + crashes

(* A webhook gets a job at most MaxRetries + 1 times and, once it has      *)
(* answered 2xx or 4xx, not again, except for what a crash repeats.        *)
AttemptsBounded ==
    \A j \in Jobs : /\ posts[j] <= (MaxRetries + 1) * (1 + crashes)
                    /\ final[j] <= 1 + crashes

(* A POST that the endpoint has accepted is in the delivery log, unless    *)
(* the log could not be written or the webhook is gone.                    *)
AcceptedIsLogged ==
    \A j \in Jobs : j \in accepted /\ ended[j] > 0
        => \/ j \in log \/ j \in hurt
           \/ hook[job[j].hook].row = "deleted"

(* Each event that the pipeline sends to a webhook comes to an end, also   *)
(* when worker processes are lost and the endpoint never answers.          *)
Delivered(s) ==
    \A j \in Jobs : (j <= sent /\ job[j].source = s) ~> ended[j] > 0
PipelineEventsEnd == Delivered("pipeline")

(* The docstring of dispatch_event: it enqueues delivery for all active    *)
(* webhooks subscribed to the event.  Nothing consumes that queue.         *)
AnnotationEventsEnd == Delivered("annotation")
=============================================================================
