-------------------------- MODULE WebhookDelivery --------------------------
(***************************************************************************)
(* How an event reaches the webhooks of the apps: the payload and its      *)
(* deliveries are stored in one transaction, a celery task is queued for   *)
(* each delivery after it, and the task sends the payload, records the     *)
(* attempt and its outcome, is queued again when the answer asks for it,   *)
(* and clears what was delivered.                                          *)
(* (webhook/transport/utils.py, webhook/transport/asynchronous/transport.py,*)
(*  webhook/transport/synchronous/transport.py, core/models.py,            *)
(*  core/tasks.py, plugins/webhook/plugin.py, graphql/webhook/mutations/)  *)
(*                                                                         *)
(* There are two kinds of delivery: the asynchronous events, of which      *)
(* several may share a payload, and the transaction requests, whose task   *)
(* also turns the app's answer into a transaction event.  A task is        *)
(* acknowledged when a worker takes it, so one whose worker dies is lost.  *)
(***************************************************************************)
EXTENDS Naturals, FiniteSets

CONSTANTS
  Deliveries,  \* the deliveries that may be created, each with its webhook
  Requests,    \* those that carry a transaction request
  Payloads,    \* the payloads they send
  PayloadOf,   \* the payload of a delivery
  Touched,     \* deliveries that are retried, and their webhooks changed, by hand
  Expiring,    \* payloads that may get older than EVENT_PAYLOAD_DELETE_PERIOD
  Workers,     \* celery workers
  MaxRetries,  \* retry_kwargs["max_retries"] of both tasks
  MaxManual,   \* bound: how often a delivery is retried by hand
  MaxEvents    \* bound: how many payloads are created

ASSUME DeliveryAssumption ==
  /\ Requests \subseteq Deliveries
  /\ PayloadOf \in [Deliveries -> Payloads]
  /\ MaxRetries \in Nat
  /\ MaxManual \in Nat

VARIABLES
  row,       \* EventDelivery.status, "none" before and "gone" after the row
  hook,      \* the delivery's webhook: active, inactive, deleted
  content,   \* EventPayload: what its file holds
  triggers,  \* how often a task was started for the delivery
  toSend,    \* tasks about to be handed to the broker
  queue,     \* tasks in the broker, those waiting for their countdown too
  job,       \* what a worker does
  attempts,  \* EventDeliveryAttempt: how many the delivery had
  accepted,  \* history: deliveries answered with success
  answers,   \* history: events created from the answers to a request
  expired,   \* history: payloads deleted for their age
  lost,      \* history: <<delivery, trigger>> whose process died
  skipped    \* history: <<request, trigger>> whose task ended early

base == <<row, hook, content, triggers>>
history == <<attempts, accepted, answers, expired, lost, skipped>>
vars == <<base, toSend, queue, job, history>>

-----------------------------------------------------------------------------
(* Tasks *)

Statuses == {"pending", "failed", "success"}
Outcomes == {"ok",       \* 2xx; for a request, with a JSON body
             "refused",  \* 3xx or 4xx
             "error",    \* 5xx
             "timeout"}  \* no status code, or a request's answer not JSON

Task == [d : Deliveries, kind : {"async", "request"}, no : Nat, retries : Nat]

Idle == [at |-> "idle"]
Jobs == [at : {"send", "record", "clear", "sweep", "answer"}, task : Task,
         body : {"body", "empty"}, outcome : Outcomes]

Exists(d) == row[d] \in Statuses

\* send_webhook_request_async or handle_transaction_request_task, first run.
FirstTask(d) ==
  [d |-> d, kind |-> IF d \in Requests THEN "request" ELSE "async",
   no |-> 1, retries |-> 0]

\* EventDeliveryRetry starts the asynchronous task, whatever the delivery is.
RetryTask(d) == [d |-> d, kind |-> "async", no |-> triggers[d] + 1, retries |-> 0]

\* handle_webhook_retry: no retry for 3xx and 4xx; a request asks for one
\* after 5xx only.
Retriable(t, o) == IF t.kind = "async" THEN o \in {"error", "timeout"} ELSE o = "error"

\* (mutant) one retry too many.
Again_more(t, o) == Retriable(t, o) /\ t.retries <= MaxRetries

\* celery raises MaxRetriesExceededError once request.retries is max_retries.
Again(t, o) == Retriable(t, o) /\ t.retries < MaxRetries

Next_(t) == [t EXCEPT !.retries = @ + 1]

\* (mutant) the payload goes, its deliveries stay.
DropPayload_alone(p) ==
  /\ content' = [content EXCEPT ![p] = "gone"]
  /\ UNCHANGED row

\* Deleting a payload deletes its deliveries (on_delete=CASCADE).
DropPayload(p) ==
  /\ content' = [content EXCEPT ![p] = "gone"]
  /\ row' = [d \in Deliveries |->
               IF PayloadOf[d] = p /\ Exists(d) THEN "gone" ELSE row[d]]

\* (mutant) the payload of a delivered event is deleted with those who wait.
Orphan_always(p) == TRUE

\* deliveries__isnull=True: no delivery of the payload is left.
Orphan(p) == \A d \in Deliveries : PayloadOf[d] = p => ~Exists(d)

-----------------------------------------------------------------------------
(* Events *)

\* The payload and a delivery for every active webhook, in one transaction.
Create(p) ==
  LET active == {d \in Deliveries : PayloadOf[d] = p /\ hook[d] = "on"} IN
  /\ content[p] = "none"
  /\ Cardinality({q \in Payloads : content[q] # "none"}) < MaxEvents
  /\ active # {}
  /\ content' = [content EXCEPT ![p] = "body"]
  /\ row' = [d \in Deliveries |-> IF d \in active THEN "pending" ELSE row[d]]
  /\ triggers' = [d \in Deliveries |-> IF d \in active THEN 1 ELSE triggers[d]]
  /\ toSend' = toSend \cup {FirstTask(d) : d \in active}
  /\ UNCHANGED <<hook, queue, job, history>>

\* EventDeliveryRetry: the status is reset, then a task is queued.
ManualRetry(d) ==
  /\ d \in Touched /\ Exists(d)
  /\ triggers[d] \in 1..MaxManual
  /\ row' = [row EXCEPT ![d] = "pending"]
  /\ toSend' = toSend \cup {RetryTask(d)}
  /\ triggers' = [triggers EXCEPT ![d] = @ + 1]
  /\ UNCHANGED <<hook, content, queue, job, history>>

\* apply_async, after the rows were written.
Enqueue(t) ==
  /\ t \in toSend
  /\ toSend' = toSend \ {t}
  /\ queue' = queue \cup {t}
  /\ UNCHANGED <<base, job, history>>

\* The process ends between the two.
NeverQueued(t) ==
  /\ t \in toSend
  /\ toSend' = toSend \ {t}
  /\ lost' = lost \cup {<<t.d, t.no>>}
  /\ UNCHANGED <<base, queue, job, attempts, accepted, answers, expired, skipped>>

\* WebhookUpdate with is_active.  (Bound: once the event is stored; before, an
\* inactive webhook only gets no delivery.)
SwitchHook(d) ==
  /\ d \in Touched
  /\ hook[d] # "deleted" /\ content[PayloadOf[d]] # "none"
  /\ hook' = [hook EXCEPT ![d] = IF @ = "on" THEN "off" ELSE "on"]
  /\ UNCHANGED <<row, content, triggers, toSend, queue, job, history>>

\* WebhookDelete: the webhook is switched off and deleted with its deliveries.
DeleteHook(d) ==
  /\ d \in Touched
  /\ hook[d] # "deleted" /\ content[PayloadOf[d]] # "none"
  /\ hook' = [hook EXCEPT ![d] = "deleted"]
  /\ row' = [row EXCEPT ![d] = IF Exists(d) THEN "gone" ELSE @]
  /\ UNCHANGED <<content, triggers, toSend, queue, job, history>>

\* delete_event_payloads_task: payloads without a recent delivery.
Housekeep(p) ==
  /\ content[p] \in {"body", "empty"}
  /\ Orphan(p) \/ p \in Expiring
  /\ expired' = IF Orphan(p) THEN expired ELSE expired \cup {p}
  /\ DropPayload(p)
  /\ UNCHANGED <<hook, triggers, toSend, queue, job,
                 attempts, accepted, answers, lost, skipped>>

-----------------------------------------------------------------------------
(* The tasks *)

Skipped(t) ==
  IF t.kind = "request" THEN skipped \cup {<<t.d, t.no>>} ELSE skipped

\* (mutant) a delivery of an inactive webhook keeps its status.
Skip_kept(w, t) ==
  /\ ~Exists(t.d) \/ hook[t.d] # "on"
  /\ skipped' = Skipped(t)
  /\ UNCHANGED <<row, job, attempts>>

\* get_delivery_for_webhook finds no row, or an inactive webhook: the task ends.
\* A request's amounts are calculated again; no event answers it.
Skip(w, t) ==
  /\ ~Exists(t.d) \/ hook[t.d] # "on"
  /\ row' = [row EXCEPT ![t.d] = IF Exists(t.d) THEN "failed" ELSE @]
  /\ skipped' = Skipped(t)
  /\ UNCHANGED <<job, attempts>>

\* The delivery and its payload are read, and an attempt is created.
Load(w, t) ==
  /\ Exists(t.d) /\ hook[t.d] = "on"
  /\ attempts' = [attempts EXCEPT ![t.d] = @ + 1]
  /\ job' = [job EXCEPT ![w] = [at |-> "send", task |-> t,
                                body |-> content[PayloadOf[t.d]],
                                outcome |-> "timeout"]]
  /\ UNCHANGED <<row, skipped>>

Take(w, t) ==
  /\ job[w] = Idle
  /\ t \in queue
  /\ queue' = queue \ {t}
  /\ Skip(w, t) \/ Load(w, t)
  /\ UNCHANGED <<hook, content, triggers, toSend, accepted, answers, expired, lost>>

\* The receiver answers, or the timeout passes.
Respond(w) ==
  /\ job[w].at = "send"
  /\ \E o \in Outcomes :
       /\ job' = [job EXCEPT ![w] = [@ EXCEPT !.at = "record", !.outcome = o]]
       /\ accepted' = IF o = "ok" THEN accepted \cup {job[w].task.d} ELSE accepted
  /\ UNCHANGED <<base, toSend, queue, attempts, answers, expired, lost, skipped>>

\* The attempt went with its delivery: saving it raises DatabaseError.
RecordGone(w) ==
  /\ job[w].at = "record"
  /\ ~Exists(job[w].task.d)
  /\ job' = [job EXCEPT ![w] = Idle]
  /\ skipped' = Skipped(job[w].task)
  /\ UNCHANGED <<base, toSend, queue, attempts, accepted, answers, expired, lost>>

\* delivery_update(SUCCESS)
RecordSuccess(w) ==
  /\ job[w].at = "record" /\ job[w].outcome = "ok"
  /\ Exists(job[w].task.d)
  /\ row' = [row EXCEPT ![job[w].task.d] = "success"]
  /\ job' = [job EXCEPT ![w].at = "clear"]
  /\ UNCHANGED <<hook, content, triggers, toSend, queue, history>>

\* (mutants) the status is left when the retries are used up; it is written
\* before the retry is asked for.
StatusAfter_kept(t, o) == IF t.kind = "async" THEN row[t.d] ELSE "failed"
StatusAfter_early(t, o) == "failed"

\* The status after a failed attempt.  Retry leaves an asynchronous task before
\* the delivery is updated; a request was updated before the retry.
StatusAfter(t, o) == IF t.kind = "async" /\ Again(t, o) THEN row[t.d] ELSE "failed"

\* save_unsuccessful_delivery_attempt: the file is written from the text field,
\* which a stored payload has empty.
ContentAfter(t) ==
  IF t.kind = "request" THEN [content EXCEPT ![PayloadOf[t.d]] = "empty"] ELSE content

\* (mutants) a request is answered before it is sent again; a failed one never is.
JobAfter_each(w, t, o) ==
  IF t.kind = "request" THEN [job[w] EXCEPT !.at = "answer"] ELSE Idle
JobAfter_silent(w, t, o) == Idle

\* What a worker goes on with: nothing after Retry or at the end of an
\* asynchronous task, the transaction event for a request.
JobAfter(w, t, o) ==
  IF t.kind = "request" /\ ~Again(t, o) THEN [job[w] EXCEPT !.at = "answer"] ELSE Idle

RecordFailure(w) ==
  LET t == job[w].task
      o == job[w].outcome
  IN /\ job[w].at = "record" /\ o # "ok"
     /\ Exists(t.d)
     /\ row' = [row EXCEPT ![t.d] = StatusAfter(t, o)]
     /\ content' = ContentAfter(t)
     /\ queue' = IF Again(t, o) THEN queue \cup {Next_(t)} ELSE queue
     /\ job' = [job EXCEPT ![w] = JobAfter(w, t, o)]
     /\ UNCHANGED <<hook, triggers, toSend, history>>

\* clear_successful_delivery: the delivery ...
Clear(w) ==
  /\ job[w].at = "clear"
  /\ row' = [row EXCEPT ![job[w].task.d] = "gone"]
  /\ job' = [job EXCEPT ![w].at = "sweep"]
  /\ UNCHANGED <<hook, content, triggers, toSend, queue, history>>

\* ... and then its payload, unless another delivery has it.
Sweep(w) ==
  LET t == job[w].task IN
  /\ job[w].at = "sweep"
  /\ IF Orphan(PayloadOf[t.d]) THEN DropPayload(PayloadOf[t.d])
                               ELSE UNCHANGED <<row, content>>
  /\ job' = [job EXCEPT ![w] =
               IF t.kind = "request" THEN [@ EXCEPT !.at = "answer"] ELSE Idle]
  /\ UNCHANGED <<hook, triggers, toSend, queue, history>>

\* create_transaction_event_from_request_and_webhook_response
Answer(w) ==
  /\ job[w].at = "answer"
  /\ answers' = [answers EXCEPT ![job[w].task.d] = @ + 1]
  /\ job' = [job EXCEPT ![w] = Idle]
  /\ UNCHANGED <<base, toSend, queue, attempts, accepted, expired, lost, skipped>>

\* The worker dies, or an exception nobody handles ends the task.
Die(w) ==
  /\ job[w] # Idle
  /\ lost' = lost \cup {<<job[w].task.d, job[w].task.no>>}
  /\ job' = [job EXCEPT ![w] = Idle]
  /\ UNCHANGED <<base, toSend, queue, attempts, accepted, answers, expired, skipped>>

-----------------------------------------------------------------------------
Init ==
  /\ row = [d \in Deliveries |-> "none"]
  /\ hook = [d \in Deliveries |-> "on"]
  /\ content = [p \in Payloads |-> "none"]
  /\ triggers = [d \in Deliveries |-> 0]
  /\ toSend = {} /\ queue = {}
  /\ job = [w \in Workers |-> Idle]
  /\ attempts = [d \in Deliveries |-> 0]
  /\ accepted = {}
  /\ answers = [d \in Deliveries |-> 0]
  /\ expired = {} /\ lost = {} /\ skipped = {}

Step(w) ==
  \/ Respond(w) \/ RecordGone(w) \/ RecordSuccess(w) \/ RecordFailure(w)
  \/ Clear(w) \/ Sweep(w) \/ Answer(w)

Next ==
  \/ \E p \in Payloads : Create(p) \/ Housekeep(p)
  \/ \E d \in Deliveries : ManualRetry(d) \/ SwitchHook(d) \/ DeleteHook(d)
  \/ \E t \in toSend : Enqueue(t) \/ NeverQueued(t)
  \/ \E w \in Workers : (\E t \in queue : Take(w, t)) \/ Step(w) \/ Die(w)

Spec == Init /\ [][Next]_vars

\* The caller goes on to queue what it stored, the broker delivers every task,
\* and a request ends at its timeout: a worker goes on unless it dies.
Fairness ==
  /\ WF_vars(\E t \in toSend : Enqueue(t))
  /\ WF_vars(\E w \in Workers, t \in queue : Take(w, t))
  /\ \A w \in Workers : WF_vars(Step(w))

FairSpec == Spec /\ Fairness

-----------------------------------------------------------------------------
(* Properties *)

TypeOK ==
  /\ row \in [Deliveries -> Statuses \cup {"none", "gone"}]
  /\ hook \in [Deliveries -> {"on", "off", "deleted"}]
  /\ content \in [Payloads -> {"none", "body", "empty", "gone"}]
  /\ triggers \in [Deliveries -> Nat]
  /\ toSend \subseteq Task /\ queue \subseteq Task
  /\ job \in [Workers -> {Idle} \cup Jobs]
  /\ attempts \in [Deliveries -> Nat]
  /\ accepted \subseteq Deliveries
  /\ answers \in [Deliveries -> Nat]
  /\ expired \subseteq Payloads
  /\ lost \subseteq Deliveries \X Nat /\ skipped \subseteq Deliveries \X Nat

\* The task of trigger n of delivery d is still to be run or to be finished.
Waiting(d, n) == \E t \in toSend \cup queue : t.d = d /\ t.no = n
Running(d, n) == \E w \in Workers : job[w] # Idle /\ job[w].task.d = d /\ job[w].task.no = n
Live(d, n) == Waiting(d, n) \/ Running(d, n)

\* A delivery shown as pending is pending: the task of its last trigger is still
\* to come, unless a process died with it, which nobody repairs.
PendingHasTask ==
  \A d \in Deliveries :
    row[d] = "pending" => Live(d, triggers[d]) \/ <<d, triggers[d]>> \in lost

\* No delivery disappears undelivered: a row that is gone was accepted by its
\* receiver, or went with its webhook or with a payload that was too old.
\* (clear_successful_delivery keeps a payload other deliveries have)
NeverDropped ==
  \A d \in Deliveries :
    row[d] = "gone" => \/ d \in accepted
                       \/ hook[d] = "deleted"
                       \/ PayloadOf[d] \in expired

\* However often its task fails, a trigger makes max_retries + 1 attempts.
AttemptsBounded ==
  \A d \in Deliveries : attempts[d] <= (MaxRetries + 1) * triggers[d]

\* A transaction request is turned into at most one transaction event, and not
\* while it is going to be sent again.
AnsweredOnce ==
  \A d \in Requests :
    /\ answers[d] <= 1
    /\ answers[d] = 1 => ~Live(d, 1)

\* A delivery of an event that was not retried by hand is shown as failed only
\* when its task is over: nothing is sent for it any more.
FailedIsLast ==
  \A d \in Deliveries \ Requests :
    row[d] = "failed" /\ triggers[d] = 1 => ~Live(d, 1)

\* Every pending delivery is settled in the end, unless its process died.
Settles ==
  \A d \in Deliveries :
    row[d] = "pending" ~> row[d] # "pending" \/ <<d, triggers[d]>> \in lost

\* Every transaction request is answered by an event in the end, unless its
\* process died or its delivery or webhook was gone when the task ran.
RequestSettles ==
  \A d \in Requests :
    row[d] = "pending" ~> answers[d] = 1 \/ <<d, 1>> \in lost \cup skipped

\* What is sent, the first time and every later one, is the event's payload.
SendsPayload ==
  \A w \in Workers : job[w].at = "send" => job[w].body = "body"
=============================================================================
