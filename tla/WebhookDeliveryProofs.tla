----------------------- MODULE WebhookDeliveryProofs -----------------------
(***************************************************************************)
(* What holds of every delivery, for any number of events, deliveries,     *)
(* workers and retries: a pending delivery has its task or lost it with a  *)
(* process, no delivery disappears undelivered, a request is answered at   *)
(* most once, a failed delivery is not sent again by itself, and no        *)
(* trigger makes more attempts than its retries allow.                     *)
(*                                                                         *)
(* Three inductive invariants, each on top of the one before.  Tracked     *)
(* says which rows, payloads and tasks belong together; Single adds that   *)
(* no two tasks run for one trigger of a delivery; Budgeted counts the     *)
(* attempts that were spent against those a trigger has.                   *)
(***************************************************************************)
EXTENDS WebhookDelivery, FiniteSetTheorems, TLAPS

\* The payload of an existing delivery exists, and nothing is known of a
\* delivery before its payload is.
Stored ==
  \A d \in Deliveries :
    /\ Exists(d) => content[PayloadOf[d]] \in {"body", "empty"}
    /\ content[PayloadOf[d]] = "none" => row[d] = "none" /\ triggers[d] = 0

\* Every task belongs to a trigger its delivery has had.
Numbered ==
  /\ \A t \in toSend \cup queue : t.no \in 1..triggers[t.d]
  /\ \A w \in Workers : job[w] # Idle => job[w].task.no \in 1..triggers[job[w].task.d]

\* A worker past the delivery's last update leaves nothing pending behind.
Finished ==
  \A w \in Workers :
    job[w].at \in {"sweep", "answer"} =>
      (row[job[w].task.d] = "pending" => job[w].task.no # triggers[job[w].task.d])

\* What is to be cleared was accepted.
Approved ==
  \A w \in Workers :
    job[w].at = "clear" \/ (job[w].at = "record" /\ job[w].outcome = "ok") =>
      job[w].task.d \in accepted

Tracked ==
  /\ TypeOK /\ Stored /\ Numbered /\ Finished /\ Approved
  /\ PendingHasTask /\ NeverDropped

-----------------------------------------------------------------------------
(* Shapes of the steps *)

\* A worker that is at some stage has a task.
LEMMA Busy ==
  ASSUME TypeOK, NEW w \in Workers, job[w].at # "idle"
  PROVE  job[w] \in Jobs /\ job[w] # Idle /\ job[w].task \in Task
BY DEF TypeOK, Idle, Jobs

\* A step of a worker keeps its task or ends it, and leaves the others alone.
LEMMA StepShape ==
  ASSUME TypeOK, NEW w \in Workers, Step(w) \/ Die(w)
  PROVE  /\ job' \in [Workers -> {Idle} \cup Jobs]
         /\ \A v \in Workers \ {w} : job'[v] = job[v]
         /\ job[w] \in Jobs
         /\ job'[w] = Idle \/ (job'[w] \in Jobs /\ job'[w].task = job[w].task)
<1>1. job[w] \in Jobs
  <2>1. Idle.at = "idle"
    BY DEF Idle
  <2>2. CASE Die(w)
    BY <2>2 DEF Die, TypeOK
  <2>3. Step(w) => job[w].at # "idle"
    BY DEF Step, Respond, RecordGone, RecordSuccess, RecordFailure, Clear, Sweep, Answer
  <2> QED
    BY <2>1, <2>2, <2>3 DEF TypeOK
<1>2. job \in [Workers -> {Idle} \cup Jobs]
  BY DEF TypeOK
<1> DEFINE On(s) == [job[w] EXCEPT !.at = s]
<1>3. ASSUME NEW j, job' = [job EXCEPT ![w] = j],
             j = Idle \/ (j \in Jobs /\ j.task = job[w].task)
      PROVE  /\ job' \in [Workers -> {Idle} \cup Jobs]
             /\ \A v \in Workers \ {w} : job'[v] = job[v]
             /\ job'[w] = Idle \/ (job'[w] \in Jobs /\ job'[w].task = job[w].task)
  BY <1>1, <1>2, <1>3
<1>4. \A s \in {"send", "record", "clear", "sweep", "answer"} :
        On(s) \in Jobs /\ On(s).task = job[w].task
  BY <1>1 DEF Jobs
<1>5. CASE Respond(w)
  <2>1. PICK o \in Outcomes :
          job' = [job EXCEPT ![w] = [job[w] EXCEPT !.at = "record", !.outcome = o]]
    BY <1>5 DEF Respond
  <2>2. [job[w] EXCEPT !.at = "record", !.outcome = o] \in Jobs
    BY <1>1 DEF Jobs
  <2>3. [job[w] EXCEPT !.at = "record", !.outcome = o].task = job[w].task
    BY <1>1 DEF Jobs
  <2> QED
    BY <1>1, <1>3, <2>1, <2>2, <2>3
<1>6. CASE RecordGone(w) \/ Answer(w) \/ Die(w)
  <2>1. job' = [job EXCEPT ![w] = Idle]
    BY <1>6 DEF RecordGone, Answer, Die
  <2> QED
    BY <1>1, <1>3, <2>1
<1>7. CASE RecordSuccess(w)
  <2>1. job' = [job EXCEPT ![w] = On("clear")]
    BY <1>7 DEF RecordSuccess
  <2> QED
    BY <1>1, <1>3, <1>4, <2>1
<1>8. CASE RecordFailure(w)
  <2>1. job' = [job EXCEPT ![w] = JobAfter(w, job[w].task, job[w].outcome)]
    BY <1>8 DEF RecordFailure
  <2>2. JobAfter(w, job[w].task, job[w].outcome) \in {Idle, On("answer")}
    BY DEF JobAfter
  <2> QED
    BY <1>1, <1>3, <1>4, <2>1, <2>2
<1>9. CASE Clear(w)
  <2>1. job' = [job EXCEPT ![w] = On("sweep")]
    BY <1>9 DEF Clear
  <2> QED
    BY <1>1, <1>3, <1>4, <2>1
<1>10. CASE Sweep(w)
  <2>1. PICK j \in {Idle, On("answer")} : job' = [job EXCEPT ![w] = j]
    BY <1>10 DEF Sweep
  <2> QED
    BY <1>1, <1>3, <1>4, <2>1
<1> QED
  BY <1>5, <1>6, <1>7, <1>8, <1>9, <1>10 DEF Step

\* Taking a task starts it or ends it.
LEMMA TakeShape ==
  ASSUME DeliveryAssumption, TypeOK, Stored, NEW w \in Workers, NEW t \in queue, Take(w, t)
  PROVE  /\ job' \in [Workers -> {Idle} \cup Jobs]
         /\ \A v \in Workers \ {w} : job'[v] = job[v]
         /\ t \in Task
         /\ job[w] = Idle
         /\ \/ job'[w] = Idle
            \/ job'[w] \in Jobs /\ job'[w].task = t /\ job'[w].at = "send"
<1>1. t \in Task /\ job \in [Workers -> {Idle} \cup Jobs] /\ job[w] = Idle
  BY DEF TypeOK, Take
<1>2. CASE Skip(w, t)
  BY <1>1, <1>2 DEF Skip
<1>3. CASE Load(w, t)
  <2> DEFINE j == [at |-> "send", task |-> t, body |-> content[PayloadOf[t.d]],
                   outcome |-> "timeout"]
  <2>1. t.d \in Deliveries /\ Exists(t.d)
    BY <1>1, <1>3 DEF Load, Task
  <2>2. content[PayloadOf[t.d]] \in {"body", "empty"}
    BY <2>1 DEF Stored
  <2>3. j \in Jobs /\ j.task = t /\ j.at = "send"
    BY <1>1, <2>2 DEF Jobs, Outcomes
  <2>4. job' = [job EXCEPT ![w] = j]
    BY <1>3 DEF Load
  <2> QED
    BY <1>1, <2>3, <2>4
<1> QED
  BY <1>2, <1>3 DEF Take

-----------------------------------------------------------------------------
(* Types *)

\* Rows and payloads keep their types when a payload is deleted.
LEMMA DropType ==
  ASSUME DeliveryAssumption, TypeOK, NEW p \in Payloads, DropPayload(p)
  PROVE  /\ row' \in [Deliveries -> Statuses \cup {"none", "gone"}]
         /\ content' \in [Payloads -> {"none", "body", "empty", "gone"}]
BY DEF TypeOK, DropPayload

\* Every step keeps the types.
LEMMA TypeStep ==
  ASSUME DeliveryAssumption, TypeOK, Stored, [Next]_vars
  PROVE  TypeOK'
<1> USE DEF base, history
<1>1. CASE \E p \in Payloads : Create(p)
  <2>1. PICK p \in Payloads : Create(p)
    BY <1>1
  <2>2. \A d \in Deliveries : FirstTask(d) \in Task
    BY DEF FirstTask, Task
  <2>3. toSend' \subseteq Task
    BY <2>1, <2>2 DEF Create, TypeOK
  <2>4. row' \in [Deliveries -> Statuses \cup {"none", "gone"}]
    BY <2>1 DEF Create, TypeOK, Statuses
  <2>5. triggers' \in [Deliveries -> Nat]
    BY <2>1 DEF Create, TypeOK
  <2>6. content' \in [Payloads -> {"none", "body", "empty", "gone"}]
    BY <2>1 DEF Create, TypeOK
  <2> QED
    BY <2>1, <2>3, <2>4, <2>5, <2>6 DEF Create, TypeOK
<1>2. CASE \E p \in Payloads : Housekeep(p)
  <2>1. PICK p \in Payloads : Housekeep(p)
    BY <1>2
  <2>2. DropPayload(p)
    BY <2>1 DEF Housekeep
  <2> QED
    BY <2>1, <2>2, DropType DEF Housekeep, TypeOK
<1>3. CASE \E d \in Deliveries : ManualRetry(d)
  <2>1. PICK d \in Deliveries : ManualRetry(d)
    BY <1>3
  <2>2. RetryTask(d) \in Task
    BY DEF RetryTask, Task, TypeOK
  <2> QED
    BY <2>1, <2>2 DEF ManualRetry, TypeOK, Statuses
<1>4. CASE \E d \in Deliveries : SwitchHook(d) \/ DeleteHook(d)
  BY <1>4 DEF SwitchHook, DeleteHook, TypeOK
<1>5. CASE \E t \in toSend : Enqueue(t) \/ NeverQueued(t)
  BY <1>5 DEF Enqueue, NeverQueued, TypeOK, Task
<1>6. ASSUME NEW w \in Workers, NEW t \in queue, Take(w, t)
      PROVE  TypeOK'
  <2>1. job' \in [Workers -> {Idle} \cup Jobs] /\ t.d \in Deliveries /\ t.no \in Nat
    BY <1>6, TakeShape DEF Task
  <2>2. CASE Skip(w, t)
    BY <1>6, <2>1, <2>2 DEF Take, Skip, Skipped, TypeOK, Statuses
  <2>3. CASE Load(w, t)
    BY <1>6, <2>1, <2>3 DEF Take, Load, TypeOK
  <2> QED
    BY <1>6, <2>2, <2>3 DEF Take
<1>7. ASSUME NEW w \in Workers, Step(w) \/ Die(w)
      PROVE  TypeOK'
  <2>1. /\ job' \in [Workers -> {Idle} \cup Jobs]
        /\ job[w] \in Jobs /\ job[w].task \in Task
    BY <1>7, StepShape DEF Jobs
  <2>2. /\ job[w].task.d \in Deliveries /\ job[w].task.no \in Nat
        /\ job[w].task.retries \in Nat
        /\ PayloadOf[job[w].task.d] \in Payloads
    BY <2>1 DEF Task, DeliveryAssumption
  <2>3. CASE Respond(w)
    BY <2>1, <2>2, <2>3 DEF Respond, TypeOK
  <2>4. CASE RecordGone(w)
    BY <2>1, <2>2, <2>4 DEF RecordGone, Skipped, TypeOK
  <2>5. CASE RecordSuccess(w)
    BY <2>1, <2>2, <2>5 DEF RecordSuccess, TypeOK, Statuses
  <2>6. CASE RecordFailure(w)
    <3>1. StatusAfter(job[w].task, job[w].outcome) \in Statuses
      BY <2>2, <2>6 DEF RecordFailure, StatusAfter, Exists, Statuses
    <3>2. ContentAfter(job[w].task) \in [Payloads -> {"none", "body", "empty", "gone"}]
      BY <2>2 DEF ContentAfter, TypeOK
    <3>3. Next_(job[w].task) \in Task
      BY <2>1 DEF Next_, Task
    <3>4. row' \in [Deliveries -> Statuses \cup {"none", "gone"}]
      BY <2>6, <3>1 DEF RecordFailure, TypeOK
    <3>5. queue' \subseteq Task
      BY <2>6, <3>3 DEF RecordFailure, TypeOK
    <3> QED
      BY <2>1, <2>6, <3>2, <3>4, <3>5 DEF RecordFailure, TypeOK
  <2>7. CASE Clear(w)
    BY <2>1, <2>2, <2>7 DEF Clear, TypeOK
  <2>8. CASE Sweep(w)
    BY <2>1, <2>2, <2>8, DropType DEF Sweep, TypeOK
  <2>9. CASE Answer(w)
    BY <2>1, <2>2, <2>9 DEF Answer, TypeOK
  <2>10. CASE Die(w)
    BY <2>1, <2>2, <2>10 DEF Die, TypeOK
  <2> QED
    BY <1>7, <2>3, <2>4, <2>5, <2>6, <2>7, <2>8, <2>9, <2>10 DEF Step
<1>8. CASE UNCHANGED vars
  BY <1>8 DEF vars, TypeOK
<1> QED
  BY <1>1, <1>2, <1>3, <1>4, <1>5, <1>6, <1>7, <1>8 DEF Next

-----------------------------------------------------------------------------
(* Rows, payloads and triggers *)

\* What a step may do to a row: one that is gone stays so, and one becomes
\* pending only with a new trigger.
RowStep(d) ==
  /\ row[d] = "gone" => row'[d] = "gone"
  /\ triggers'[d] >= triggers[d]
  /\ row'[d] = "pending" => \/ row[d] = "pending" /\ triggers'[d] = triggers[d]
                            \/ triggers'[d] > triggers[d]
  /\ Exists(d)' => Exists(d) \/ content[PayloadOf[d]] = "none"
  /\ triggers'[d] # triggers[d] => row'[d] = "pending"
  /\ content[PayloadOf[d]] = "none" /\ row'[d] # row[d] => content'[PayloadOf[d]] = "body"

\* Deleting a payload deletes its rows and no other.
LEMMA DropRows ==
  ASSUME DeliveryAssumption, TypeOK, NEW p \in Payloads, DropPayload(p)
  PROVE  /\ \A d \in Deliveries : row'[d] = row[d] \/ (row'[d] = "gone" /\ Exists(d))
         /\ \A d \in Deliveries : PayloadOf[d] = p => ~Exists(d)'
         /\ \A q \in Payloads : content'[q] = IF q = p THEN "gone" ELSE content[q]
         /\ Orphan(p) => row' = row
BY DEF DropPayload, TypeOK, Exists, Statuses, Orphan

\* Every step changes rows that way.
LEMMA RowSteps ==
  ASSUME DeliveryAssumption, TypeOK, Stored, Numbered, [Next]_vars, NEW d \in Deliveries
  PROVE  RowStep(d)
<1> USE DEF base, history
<1>0. /\ row[d] \in Statuses \cup {"none", "gone"} /\ triggers[d] \in Nat
      /\ PayloadOf[d] \in Payloads
  BY DEF TypeOK, DeliveryAssumption
<1>1. ASSUME UNCHANGED <<row, triggers>>
      PROVE  RowStep(d)
  BY <1>0, <1>1 DEF RowStep, Exists
<1>2. ASSUME NEW e \in Deliveries, NEW s \in {"failed", "success", "gone", row[e]},
             row' = [row EXCEPT ![e] = s], Exists(e) \/ s = row[e],
             UNCHANGED triggers
      PROVE  RowStep(d)
  <2>1. row'[d] # row[d] => content[PayloadOf[d]] # "none"
    BY <1>2 DEF TypeOK, Stored, Exists, Statuses
  <2> QED
    BY <1>0, <1>2, <2>1 DEF RowStep, Exists, TypeOK, Statuses
<1>3. ASSUME NEW p \in Payloads, DropPayload(p), UNCHANGED triggers
      PROVE  RowStep(d)
  <2>1. row'[d] # row[d] => content[PayloadOf[d]] # "none"
    BY <1>3, DropRows DEF Stored
  <2> QED
    BY <1>0, <1>3, <2>1, DropRows DEF RowStep, Exists, Statuses
<1>4. ASSUME NEW p \in Payloads, Create(p)
      PROVE  RowStep(d)
  <2>1. CASE PayloadOf[d] = p /\ hook[d] = "on"
    <3>1. row[d] = "none" /\ triggers[d] = 0
      BY <1>4, <2>1 DEF Create, Stored
    <3>2. row'[d] = "pending" /\ triggers'[d] = 1
      BY <1>4, <2>1 DEF Create, TypeOK
    <3>3. content'[PayloadOf[d]] = "body"
      BY <1>4, <2>1 DEF Create, TypeOK
    <3> QED
      BY <1>4, <2>1, <3>1, <3>2, <3>3 DEF RowStep, Create, Exists
  <2>2. CASE ~(PayloadOf[d] = p /\ hook[d] = "on")
    <3>1. row'[d] = row[d] /\ triggers'[d] = triggers[d]
      BY <1>4, <2>2 DEF Create, TypeOK
    <3> QED
      BY <1>0, <3>1 DEF RowStep, Exists
  <2> QED
    BY <2>1, <2>2
<1>5. ASSUME NEW p \in Payloads, Housekeep(p)
      PROVE  RowStep(d)
  BY <1>3, <1>5 DEF Housekeep
<1>6. ASSUME NEW e \in Deliveries, ManualRetry(e)
      PROVE  RowStep(d)
  <2>1. row' = [row EXCEPT ![e] = "pending"] /\ triggers' = [triggers EXCEPT ![e] = @ + 1]
        /\ Exists(e)
    BY <1>6 DEF ManualRetry
  <2>2. CASE d = e
    <3>1. row'[d] = "pending" /\ triggers'[d] = triggers[d] + 1 /\ Exists(d)
      BY <2>1, <2>2 DEF TypeOK
    <3>2. triggers'[d] > triggers[d] /\ row[d] # "gone" /\ row[d] # "none"
      BY <1>0, <3>1 DEF Exists, Statuses
    <3>3. content[PayloadOf[d]] # "none"
      BY <3>2 DEF Stored
    <3> QED
      BY <1>0, <3>1, <3>2, <3>3 DEF RowStep
  <2>3. CASE d # e
    <3>1. row'[d] = row[d] /\ triggers'[d] = triggers[d]
      BY <2>1, <2>3 DEF TypeOK
    <3> QED
      BY <1>0, <3>1 DEF RowStep, Exists
  <2> QED
    BY <2>2, <2>3
<1>7. ASSUME NEW e \in Deliveries, SwitchHook(e) \/ DeleteHook(e)
      PROVE  RowStep(d)
  <2>1. CASE SwitchHook(e)
    BY <1>1, <2>1 DEF SwitchHook
  <2>2. CASE DeleteHook(e)
    <3>1. PICK s \in {"gone", row[e]} : row' = [row EXCEPT ![e] = s] /\ (Exists(e) \/ s = row[e])
      BY <2>2 DEF DeleteHook
    <3> QED
      BY <1>2, <2>2, <3>1 DEF DeleteHook
  <2> QED
    BY <1>7, <2>1, <2>2
<1>8. ASSUME NEW t \in toSend, Enqueue(t) \/ NeverQueued(t)
      PROVE  RowStep(d)
  BY <1>1, <1>8 DEF Enqueue, NeverQueued
<1>9. ASSUME NEW w \in Workers, NEW t \in queue, Take(w, t)
      PROVE  RowStep(d)
  <2>1. t.d \in Deliveries /\ UNCHANGED triggers
    BY <1>9, TakeShape DEF Take, Task
  <2>2. CASE Skip(w, t)
    <3>1. PICK s \in {"failed", row[t.d]} :
            row' = [row EXCEPT ![t.d] = s] /\ (Exists(t.d) \/ s = row[t.d])
      BY <2>2 DEF Skip
    <3> QED
      BY <1>2, <2>1, <3>1
  <2>3. CASE Load(w, t)
    BY <1>1, <2>1, <2>3 DEF Load
  <2> QED
    BY <1>9, <2>2, <2>3 DEF Take
<1>10. ASSUME NEW w \in Workers, Step(w) \/ Die(w)
       PROVE  RowStep(d)
  <2>1. job[w].task.d \in Deliveries
    BY <1>10, StepShape DEF Jobs, Task
  <2>2. CASE Respond(w) \/ RecordGone(w) \/ Answer(w) \/ Die(w)
    BY <1>1, <2>2 DEF Respond, RecordGone, Answer, Die
  <2>3. CASE RecordSuccess(w)
    BY <1>2, <2>1, <2>3 DEF RecordSuccess
  <2>4. CASE RecordFailure(w)
    <3>1. StatusAfter(job[w].task, job[w].outcome) \in {"failed", row[job[w].task.d]}
      BY DEF StatusAfter
    <3> QED
      BY <1>2, <2>1, <2>4, <3>1 DEF RecordFailure
  <2>5. CASE Clear(w)
    <3>1. triggers[job[w].task.d] # 0
      <4>1. job[w] # Idle
        BY <2>5, Busy DEF Clear
      <4> QED
        BY <2>1, <4>1 DEF Numbered, TypeOK
    <3>2. content[PayloadOf[job[w].task.d]] # "none"
      BY <2>1, <3>1 DEF Stored
    <3>3. row'[d] = IF d = job[w].task.d THEN "gone" ELSE row[d]
      BY <2>1, <2>5 DEF Clear, TypeOK
    <3> QED
      BY <1>0, <2>5, <3>2, <3>3 DEF Clear, RowStep, Exists, Statuses
  <2>6. CASE Sweep(w)
    <3>1. PayloadOf[job[w].task.d] \in Payloads
      BY <2>1 DEF DeliveryAssumption
    <3> QED
      BY <1>1, <1>3, <2>6, <3>1 DEF Sweep
  <2> QED
    BY <1>10, <2>2, <2>3, <2>4, <2>5, <2>6 DEF Step
<1>11. CASE UNCHANGED vars
  BY <1>1, <1>11 DEF vars
<1> QED
  BY <1>4, <1>5, <1>6, <1>7, <1>8, <1>9, <1>10, <1>11 DEF Next

\* Every step keeps payloads and rows together.
LEMMA StoredStep ==
  ASSUME DeliveryAssumption, TypeOK, Stored, Numbered, [Next]_vars
  PROVE  Stored'
<1> USE DEF base, history
<1>1. SUFFICES ASSUME NEW d \in Deliveries
               PROVE  /\ Exists(d)' => content'[PayloadOf[d]] \in {"body", "empty"}
                      /\ content'[PayloadOf[d]] = "none" => row'[d] = "none" /\ triggers'[d] = 0
  BY DEF Stored
<1> DEFINE q == PayloadOf[d]
<1>2. q \in Payloads /\ row[d] \in Statuses \cup {"none", "gone"} /\ triggers[d] \in Nat
  BY DEF TypeOK, DeliveryAssumption
<1>3. RowStep(d)
  BY <1>1, RowSteps
<1>4. ASSUME UNCHANGED content
      PROVE  /\ Exists(d)' => content'[q] \in {"body", "empty"}
             /\ content'[q] = "none" => row'[d] = "none" /\ triggers'[d] = 0
  BY <1>2, <1>3, <1>4 DEF Stored, RowStep, Exists, Statuses
<1>5. ASSUME NEW p \in Payloads, DropPayload(p), UNCHANGED triggers
      PROVE  /\ Exists(d)' => content'[q] \in {"body", "empty"}
             /\ content'[q] = "none" => row'[d] = "none" /\ triggers'[d] = 0
  <2>1. CASE q = p
    BY <1>2, <1>5, <2>1, DropRows
  <2>2. CASE q # p
    <3>1. row'[d] = row[d] /\ content'[q] = content[q]
      BY <1>2, <1>5, <2>2 DEF DropPayload, TypeOK
    <3> QED
      BY <1>2, <1>5, <3>1 DEF Stored, Exists
  <2> QED
    BY <2>1, <2>2
<1>6. ASSUME NEW p \in Payloads, Create(p)
      PROVE  /\ Exists(d)' => content'[q] \in {"body", "empty"}
             /\ content'[q] = "none" => row'[d] = "none" /\ triggers'[d] = 0
  <2>1. content' = [content EXCEPT ![p] = "body"]
    BY <1>6 DEF Create
  <2>2. CASE q = p
    BY <1>2, <2>1, <2>2 DEF TypeOK
  <2>3. CASE q # p
    <3>1. row'[d] = row[d] /\ content'[q] = content[q] /\ triggers'[d] = triggers[d]
      BY <1>2, <1>6, <2>1, <2>3 DEF Create, TypeOK
    <3> QED
      BY <1>2, <3>1 DEF Stored, Exists
  <2> QED
    BY <2>2, <2>3
<1>7. ASSUME NEW p \in Payloads, Housekeep(p)
      PROVE  /\ Exists(d)' => content'[q] \in {"body", "empty"}
             /\ content'[q] = "none" => row'[d] = "none" /\ triggers'[d] = 0
  BY <1>5, <1>7 DEF Housekeep
<1>8. CASE \E e \in Deliveries : ManualRetry(e) \/ SwitchHook(e) \/ DeleteHook(e)
  BY <1>4, <1>8 DEF ManualRetry, SwitchHook, DeleteHook
<1>9. CASE \E t \in toSend : Enqueue(t) \/ NeverQueued(t)
  BY <1>4, <1>9 DEF Enqueue, NeverQueued
<1>10. CASE \E w \in Workers, t \in queue : Take(w, t)
  BY <1>4, <1>10 DEF Take
<1>11. ASSUME NEW w \in Workers, RecordFailure(w)
       PROVE  /\ Exists(d)' => content'[q] \in {"body", "empty"}
              /\ content'[q] = "none" => row'[d] = "none" /\ triggers'[d] = 0
  <2> DEFINE e == job[w].task.d
  <2>1. e \in Deliveries /\ PayloadOf[e] \in Payloads /\ Exists(e)
    BY <1>11, StepShape DEF Step, Jobs, Task, DeliveryAssumption, RecordFailure
  <2>2. content[PayloadOf[e]] \in {"body", "empty"}
    BY <2>1 DEF Stored
  <2>3. content' = ContentAfter(job[w].task) /\ UNCHANGED triggers
    BY <1>11 DEF RecordFailure
  <2>4. PICK p \in Payloads :
          /\ content[p] \in {"body", "empty"}
          /\ content' = content \/ content' = [content EXCEPT ![p] = "empty"]
    BY <2>1, <2>2, <2>3 DEF ContentAfter
  <2>5. \/ content'[q] = content[q]
        \/ content[q] \in {"body", "empty"} /\ content'[q] \in {"body", "empty"}
    BY <1>2, <2>4 DEF TypeOK
  <2>6. CASE content[q] = "none"
    BY <1>2, <1>3, <2>3, <2>5, <2>6 DEF Stored, RowStep, Exists, Statuses
  <2>7. CASE content[q] # "none"
    BY <1>2, <1>3, <2>3, <2>5, <2>7 DEF Stored, RowStep, Exists, Statuses
  <2> QED
    BY <2>6, <2>7
<1>12. ASSUME NEW w \in Workers, Sweep(w)
       PROVE  /\ Exists(d)' => content'[q] \in {"body", "empty"}
              /\ content'[q] = "none" => row'[d] = "none" /\ triggers'[d] = 0
  <2>1. PayloadOf[job[w].task.d] \in Payloads
    BY <1>12, StepShape DEF Step, Jobs, Task, DeliveryAssumption
  <2> QED
    BY <1>4, <1>5, <1>12, <2>1 DEF Sweep
<1>13. ASSUME NEW w \in Workers, Step(w) \/ Die(w)
       PROVE  /\ Exists(d)' => content'[q] \in {"body", "empty"}
              /\ content'[q] = "none" => row'[d] = "none" /\ triggers'[d] = 0
  <2>1. CASE Respond(w) \/ RecordGone(w) \/ RecordSuccess(w) \/ Clear(w) \/ Answer(w) \/ Die(w)
    BY <1>4, <2>1 DEF Respond, RecordGone, RecordSuccess, Clear, Answer, Die
  <2> QED
    BY <1>11, <1>12, <1>13, <2>1 DEF Step
<1>14. CASE UNCHANGED vars
  BY <1>4, <1>14 DEF vars
<1> QED
  BY <1>6, <1>7, <1>8, <1>9, <1>10, <1>13, <1>14 DEF Next

-----------------------------------------------------------------------------
(* Tasks and workers *)

\* A worker's job changes only by its own steps.
LEMMA JobStep ==
  ASSUME DeliveryAssumption, TypeOK, Stored, [Next]_vars, NEW w \in Workers
  PROVE  job'[w] = job[w] \/ Step(w) \/ Die(w) \/ \E t \in queue : Take(w, t)
<1> USE DEF base, history
<1>1. CASE \E p \in Payloads : Create(p) \/ Housekeep(p)
  BY <1>1 DEF Create, Housekeep
<1>2. CASE \E d \in Deliveries : ManualRetry(d) \/ SwitchHook(d) \/ DeleteHook(d)
  BY <1>2 DEF ManualRetry, SwitchHook, DeleteHook
<1>3. CASE \E t \in toSend : Enqueue(t) \/ NeverQueued(t)
  BY <1>3 DEF Enqueue, NeverQueued
<1>4. ASSUME NEW v \in Workers, Step(v) \/ Die(v)
      PROVE  job'[w] = job[w] \/ Step(w) \/ Die(w)
  BY <1>4, StepShape
<1>5. ASSUME NEW v \in Workers, NEW t \in queue, Take(v, t)
      PROVE  job'[w] = job[w] \/ \E u \in queue : Take(w, u)
  BY <1>5, TakeShape
<1>6. CASE UNCHANGED vars
  BY <1>6 DEF vars
<1> QED
  BY <1>1, <1>2, <1>3, <1>4, <1>5, <1>6 DEF Next

\* Where the tasks of the next state come from: they were waiting, they are the
\* first of a new trigger, or a worker asked for a retry.
LEMMA TaskStep ==
  ASSUME DeliveryAssumption, TypeOK, Stored, Numbered, [Next]_vars,
         NEW t \in toSend' \cup queue'
  PROVE  \/ t \in toSend \cup queue
         \/ /\ t.d \in Deliveries /\ t.no = triggers'[t.d]
            /\ t.no = triggers[t.d] + 1
         \/ \E w \in Workers : /\ RecordFailure(w) /\ Again(job[w].task, job[w].outcome)
                               /\ t = Next_(job[w].task)
<1> USE DEF base, history
<1>1. ASSUME NEW p \in Payloads, Create(p)
      PROVE  \/ t \in toSend \cup queue
             \/ /\ t.d \in Deliveries /\ t.no = triggers'[t.d]
                /\ t.no = triggers[t.d] + 1
  <2>1. CASE t \notin toSend \cup queue
    <3>1. PICK d \in Deliveries : PayloadOf[d] = p /\ hook[d] = "on" /\ t = FirstTask(d)
      BY <1>1, <2>1 DEF Create
    <3>2. t.d = d /\ t.no = 1 /\ triggers[d] = 0
      BY <1>1, <3>1 DEF FirstTask, Create, Stored
    <3>3. triggers'[d] = 1
      BY <1>1, <3>1 DEF Create
    <3> QED
      BY <3>2, <3>3
  <2> QED
    BY <2>1
<1>2. ASSUME NEW d \in Deliveries, ManualRetry(d)
      PROVE  \/ t \in toSend \cup queue
             \/ /\ t.d \in Deliveries /\ t.no = triggers'[t.d]
                /\ t.no = triggers[t.d] + 1
  BY <1>2 DEF ManualRetry, RetryTask, TypeOK
<1>3. CASE \E p \in Payloads : Housekeep(p)
  BY <1>3 DEF Housekeep
<1>4. CASE \E d \in Deliveries : SwitchHook(d) \/ DeleteHook(d)
  BY <1>4 DEF SwitchHook, DeleteHook
<1>5. CASE \E u \in toSend : Enqueue(u) \/ NeverQueued(u)
  BY <1>5 DEF Enqueue, NeverQueued
<1>6. CASE \E w \in Workers : \E u \in queue : Take(w, u)
  BY <1>6 DEF Take
<1>7. ASSUME NEW w \in Workers, RecordFailure(w)
      PROVE  \/ t \in toSend \cup queue
             \/ Again(job[w].task, job[w].outcome) /\ t = Next_(job[w].task)
  BY <1>7 DEF RecordFailure
<1>8. ASSUME NEW w \in Workers, Step(w) \/ Die(w), ~RecordFailure(w)
      PROVE  t \in toSend \cup queue
  BY <1>8 DEF Step, Respond, RecordGone, RecordSuccess, Clear, Sweep, Answer, Die
<1>9. CASE UNCHANGED vars
  BY <1>9 DEF vars
<1> QED
  BY <1>1, <1>2, <1>3, <1>4, <1>5, <1>6, <1>7, <1>8, <1>9 DEF Next

\* Every step keeps tasks within the triggers of their deliveries.
LEMMA NumberedStep ==
  ASSUME DeliveryAssumption, TypeOK, Stored, Numbered, [Next]_vars
  PROVE  Numbered'
<1>0. \A d \in Deliveries : triggers[d] \in Nat /\ triggers'[d] \in Nat
  BY TypeStep DEF TypeOK
<1>1. ASSUME NEW t \in Task, t.no \in 1..triggers[t.d]
      PROVE  t.no \in 1..triggers'[t.d]
  <2>1. RowStep(t.d)
    BY RowSteps DEF Task
  <2> QED
    BY <1>0, <1>1, <2>1 DEF RowStep, Task
<1>2. ASSUME NEW t \in toSend' \cup queue'
      PROVE  t.no \in 1..triggers'[t.d]
  <2>1. CASE t \in toSend \cup queue
    BY <1>1, <2>1 DEF Numbered, TypeOK
  <2>2. CASE t.d \in Deliveries /\ t.no = triggers'[t.d] /\ t.no = triggers[t.d] + 1
    BY <1>0, <2>2
  <2>3. ASSUME NEW w \in Workers, RecordFailure(w), t = Next_(job[w].task)
        PROVE  t.no \in 1..triggers'[t.d]
    <3>1. job[w] # Idle /\ job[w].task \in Task
      BY <2>3, Busy DEF RecordFailure
    <3>2. t.d = job[w].task.d /\ t.no = job[w].task.no
      BY <2>3, <3>1 DEF Next_, Task
    <3> QED
      BY <1>1, <3>1, <3>2 DEF Numbered
  <2> QED
    BY <2>1, <2>2, <2>3, TaskStep
<1>3. ASSUME NEW w \in Workers, job'[w] # Idle
      PROVE  job'[w].task.no \in 1..triggers'[job'[w].task.d]
  <2>1. CASE job'[w] = job[w]
    BY <1>1, <1>3, <2>1 DEF Numbered, TypeOK, Jobs
  <2>2. CASE Step(w) \/ Die(w)
    BY <1>1, <1>3, <2>2, StepShape DEF Numbered, Jobs, Idle
  <2>3. ASSUME NEW t \in queue, Take(w, t)
        PROVE  job'[w].task.no \in 1..triggers'[job'[w].task.d]
    BY <1>1, <1>3, <2>3, TakeShape DEF Numbered
  <2> QED
    BY <2>1, <2>2, <2>3, JobStep
<1> QED
  BY <1>2, <1>3 DEF Numbered

\* Every step keeps what finished workers leave behind.
LEMMA FinishedStep ==
  ASSUME DeliveryAssumption, TypeOK, Stored, Numbered, Finished, [Next]_vars
  PROVE  Finished'
<1>1. SUFFICES ASSUME NEW w \in Workers, job'[w].at \in {"sweep", "answer"},
                      row'[job'[w].task.d] = "pending"
               PROVE  job'[w].task.no # triggers'[job'[w].task.d]
  BY DEF Finished
<1>2. ASSUME job[w].at \in {"sweep", "answer"}, job'[w].task = job[w].task
      PROVE  job'[w].task.no # triggers'[job'[w].task.d]
  <2>1. job[w] # Idle /\ job[w].task \in Task
    BY <1>2, Busy
  <2> DEFINE d == job[w].task.d
  <2>2. d \in Deliveries /\ RowStep(d)
    BY <2>1, RowSteps DEF Task
  <2>3. job[w].task.no \in 1..triggers[d] /\ triggers[d] \in Nat /\ triggers'[d] \in Nat
    BY <2>1, <2>2, TypeStep DEF Numbered, TypeOK
  <2>4. row[d] = "pending" => job[w].task.no # triggers[d]
    BY <1>2 DEF Finished
  <2> QED
    BY <1>1, <1>2, <2>2, <2>3, <2>4 DEF RowStep
<1>3. CASE job'[w] = job[w]
  BY <1>1, <1>2, <1>3
<1>4. ASSUME NEW t \in queue, Take(w, t)
      PROVE  FALSE
  BY <1>1, <1>4, TakeShape DEF Idle
<1>5. CASE Step(w) \/ Die(w)
  <2>1. job[w] \in Jobs /\ job'[w] # Idle /\ job'[w].task = job[w].task
        /\ job[w].task.d \in Deliveries
    BY <1>1, <1>5, StepShape DEF Idle, Jobs, Task
  <2>2. CASE Sweep(w)
    BY <1>2, <2>1, <2>2 DEF Sweep
  <2>3. CASE Clear(w)
    BY <1>1, <2>1, <2>3 DEF Clear, TypeOK
  <2>4. CASE RecordFailure(w)
    <3>1. ~Again(job[w].task, job[w].outcome)
      BY <2>1, <2>4 DEF RecordFailure, JobAfter, TypeOK
    <3> QED
      BY <1>1, <2>1, <2>4, <3>1 DEF RecordFailure, StatusAfter, TypeOK
  <2>5. CASE Respond(w) \/ RecordSuccess(w)
    <3>1. job'[w].at \in {"record", "clear"}
      <4>1. CASE RecordSuccess(w)
        BY <2>1, <4>1 DEF RecordSuccess, TypeOK, Jobs
      <4>2. CASE Respond(w)
        <5>1. PICK o \in Outcomes :
                job' = [job EXCEPT ![w] = [job[w] EXCEPT !.at = "record", !.outcome = o]]
          BY <4>2 DEF Respond
        <5>2. [job[w] EXCEPT !.at = "record", !.outcome = o].at = "record"
          BY <2>1 DEF Jobs
        <5> QED
          BY <5>1, <5>2 DEF TypeOK
      <4> QED
        BY <2>5, <4>1, <4>2
    <3> QED
      BY <1>1, <3>1
  <2>6. CASE RecordGone(w) \/ Answer(w) \/ Die(w)
    BY <2>1, <2>6 DEF RecordGone, Answer, Die, TypeOK
  <2> QED
    BY <1>5, <2>2, <2>3, <2>4, <2>5, <2>6 DEF Step
<1> QED
  BY <1>3, <1>4, <1>5, JobStep

\* Every step keeps the answers of what is going to be cleared.
LEMMA ApprovedStep ==
  ASSUME DeliveryAssumption, TypeOK, Stored, Approved, [Next]_vars
  PROVE  Approved'
<1> USE DEF base, history
<1>0. accepted \subseteq accepted'
  <2>1. CASE \E p \in Payloads : Create(p) \/ Housekeep(p)
    BY <2>1 DEF Create, Housekeep
  <2>2. CASE \E d \in Deliveries : ManualRetry(d) \/ SwitchHook(d) \/ DeleteHook(d)
    BY <2>2 DEF ManualRetry, SwitchHook, DeleteHook
  <2>3. CASE \E t \in toSend : Enqueue(t) \/ NeverQueued(t)
    BY <2>3 DEF Enqueue, NeverQueued
  <2>4. CASE \E w \in Workers : \E t \in queue : Take(w, t)
    BY <2>4 DEF Take
  <2>5. CASE \E w \in Workers : Respond(w)
    BY <2>5 DEF Respond
  <2>6. CASE \E w \in Workers : RecordGone(w) \/ RecordSuccess(w) \/ RecordFailure(w)
    BY <2>6 DEF RecordGone, RecordSuccess, RecordFailure
  <2>7. CASE \E w \in Workers : Clear(w) \/ Sweep(w) \/ Answer(w) \/ Die(w)
    BY <2>7 DEF Clear, Sweep, Answer, Die
  <2>8. CASE UNCHANGED vars
    BY <2>8 DEF vars
  <2> QED
    BY <2>1, <2>2, <2>3, <2>4, <2>5, <2>6, <2>7, <2>8 DEF Next, Step
<1>1. SUFFICES ASSUME NEW w \in Workers,
                      \/ job'[w].at = "clear"
                      \/ job'[w].at = "record" /\ job'[w].outcome = "ok"
               PROVE  job'[w].task.d \in accepted'
  BY DEF Approved
<1>2. CASE job'[w] = job[w]
  BY <1>0, <1>1, <1>2 DEF Approved
<1>3. ASSUME NEW t \in queue, Take(w, t)
      PROVE  FALSE
  BY <1>1, <1>3, TakeShape DEF Idle
<1>4. CASE Step(w) \/ Die(w)
  <2>1. job[w] \in Jobs /\ job'[w].task = job[w].task
    BY <1>1, <1>4, StepShape DEF Idle
  <2>2. CASE Respond(w)
    <3>1. PICK o \in Outcomes :
            /\ job' = [job EXCEPT ![w] = [job[w] EXCEPT !.at = "record", !.outcome = o]]
            /\ accepted' = IF o = "ok" THEN accepted \cup {job[w].task.d} ELSE accepted
      BY <2>2 DEF Respond
    <3>2. LET j == [job[w] EXCEPT !.at = "record", !.outcome = o]
          IN  j.at = "record" /\ j.outcome = o
      BY <2>1 DEF Jobs
    <3> QED
      BY <1>1, <2>1, <3>1, <3>2 DEF TypeOK
  <2>3. CASE RecordSuccess(w)
    BY <1>0, <2>1, <2>3 DEF RecordSuccess, Approved
  <2>4. CASE RecordFailure(w)
    <3>1. job'[w] = Idle \/ job'[w].at = "answer"
      BY <2>1, <2>4 DEF RecordFailure, JobAfter, TypeOK, Jobs
    <3> QED
      BY <1>1, <3>1 DEF Idle
  <2>5. CASE Clear(w)
    <3>1. job'[w].at = "sweep"
      BY <2>1, <2>5 DEF Clear, TypeOK, Jobs
    <3> QED
      BY <1>1, <3>1
  <2>6. CASE Sweep(w)
    <3>1. job'[w] = Idle \/ job'[w].at = "answer"
      BY <2>1, <2>6 DEF Sweep, TypeOK, Jobs
    <3> QED
      BY <1>1, <3>1 DEF Idle
  <2>7. CASE RecordGone(w) \/ Answer(w) \/ Die(w)
    <3>1. job'[w] = Idle
      BY <2>7 DEF RecordGone, Answer, Die, TypeOK
    <3> QED
      BY <1>1, <3>1 DEF Idle
  <2> QED
    BY <1>4, <2>2, <2>3, <2>4, <2>5, <2>6, <2>7 DEF Step
<1> QED
  BY <1>2, <1>3, <1>4, JobStep

-----------------------------------------------------------------------------
(* The properties *)

\* Every step keeps a reason for each row that is gone.
LEMMA NeverDroppedStep ==
  ASSUME DeliveryAssumption, TypeOK, Stored, Approved, NeverDropped, [Next]_vars
  PROVE  NeverDropped'
<1> USE DEF base, history
<1>1. SUFFICES ASSUME NEW d \in Deliveries, row'[d] = "gone"
               PROVE  \/ d \in accepted' \/ hook'[d] = "deleted"
                      \/ PayloadOf[d] \in expired'
  BY DEF NeverDropped
<1> DEFINE Reason == \/ d \in accepted' \/ hook'[d] = "deleted"
                     \/ PayloadOf[d] \in expired'
<1>2. ASSUME row'[d] = row[d], accepted \subseteq accepted', expired \subseteq expired',
             hook[d] = "deleted" => hook'[d] = "deleted"
      PROVE  Reason
  BY <1>1, <1>2 DEF NeverDropped
<1>3. ASSUME NEW p \in Payloads, Create(p)
      PROVE  Reason
  <2>1. row'[d] = row[d]
    BY <1>1, <1>3 DEF Create, TypeOK
  <2> QED
    BY <1>2, <1>3, <2>1 DEF Create
<1>4. ASSUME NEW p \in Payloads, Housekeep(p)
      PROVE  Reason
  <2>1. DropPayload(p) /\ UNCHANGED <<accepted, hook>> /\ expired \subseteq expired'
    BY <1>4 DEF Housekeep
  <2>2. CASE row'[d] = row[d]
    BY <1>2, <2>1, <2>2
  <2>3. CASE row'[d] # row[d]
    <3>1. PayloadOf[d] = p /\ ~Orphan(p)
      BY <2>1, <2>3, DropRows DEF DropPayload, TypeOK
    <3> QED
      BY <1>4, <3>1 DEF Housekeep
  <2> QED
    BY <2>2, <2>3
<1>5. ASSUME NEW e \in Deliveries, ManualRetry(e)
      PROVE  Reason
  <2>1. row'[d] = row[d]
    BY <1>1, <1>5 DEF ManualRetry, TypeOK
  <2> QED
    BY <1>2, <1>5, <2>1 DEF ManualRetry
<1>6. ASSUME NEW e \in Deliveries, SwitchHook(e)
      PROVE  Reason
  BY <1>2, <1>6 DEF SwitchHook, TypeOK
<1>7. ASSUME NEW e \in Deliveries, DeleteHook(e)
      PROVE  Reason
  <2>1. CASE d = e
    BY <1>7, <2>1 DEF DeleteHook, TypeOK
  <2>2. CASE d # e
    BY <1>2, <1>7, <2>2 DEF DeleteHook, TypeOK
  <2> QED
    BY <2>1, <2>2
<1>8. CASE \E t \in toSend : Enqueue(t) \/ NeverQueued(t)
  BY <1>2, <1>8 DEF Enqueue, NeverQueued
<1>9. ASSUME NEW w \in Workers, NEW t \in queue, Take(w, t)
      PROVE  Reason
  <2>1. t.d \in Deliveries /\ UNCHANGED <<hook, accepted, expired>>
    BY <1>9, TakeShape DEF Take, Task
  <2>2. row'[d] = row[d]
    BY <1>1, <1>9, <2>1 DEF Take, Skip, Load, TypeOK
  <2> QED
    BY <1>2, <2>1, <2>2
<1>10. ASSUME NEW w \in Workers, Step(w) \/ Die(w)
       PROVE  Reason
  <2>1. job[w].task.d \in Deliveries
    BY <1>10, StepShape DEF Jobs, Task
  <2>2. CASE Respond(w)
    BY <1>2, <2>2 DEF Respond
  <2>3. CASE RecordGone(w) \/ Answer(w) \/ Die(w)
    BY <1>2, <2>3 DEF RecordGone, Answer, Die
  <2>4. CASE RecordSuccess(w)
    BY <1>1, <1>2, <2>1, <2>4 DEF RecordSuccess, TypeOK
  <2>5. CASE RecordFailure(w)
    <3>1. row'[d] = row[d]
      <4>1. CASE d = job[w].task.d
        BY <1>1, <2>1, <2>5, <4>1 DEF RecordFailure, StatusAfter, TypeOK
      <4>2. CASE d # job[w].task.d
        BY <2>1, <2>5, <4>2 DEF RecordFailure, TypeOK
      <4> QED
        BY <4>1, <4>2
    <3> QED
      BY <1>2, <2>5, <3>1 DEF RecordFailure
  <2>6. CASE Clear(w)
    <3>1. CASE d = job[w].task.d
      BY <2>6, <3>1 DEF Clear, Approved
    <3>2. CASE d # job[w].task.d
      BY <1>2, <2>1, <2>6, <3>2 DEF Clear, TypeOK
    <3> QED
      BY <3>1, <3>2
  <2>7. CASE Sweep(w)
    <3>1. PayloadOf[job[w].task.d] \in Payloads
      BY <2>1 DEF DeliveryAssumption
    <3>2. row' = row
      BY <2>7, <3>1, DropRows DEF Sweep
    <3> QED
      BY <1>2, <2>7, <3>2 DEF Sweep
  <2> QED
    BY <1>10, <2>2, <2>3, <2>4, <2>5, <2>6, <2>7 DEF Step
<1>11. CASE UNCHANGED vars
  BY <1>2, <1>11 DEF vars
<1> QED
  BY <1>3, <1>4, <1>5, <1>6, <1>7, <1>8, <1>9, <1>10, <1>11 DEF Next

\* A task of the last trigger of a pending delivery stays, is lost with its
\* process, or settles the delivery.
LEMMA LiveStep ==
  ASSUME DeliveryAssumption, TypeOK, Stored, Numbered, Finished, [Next]_vars,
         NEW d \in Deliveries, row[d] = "pending", row'[d] = "pending",
         Live(d, triggers[d])
  PROVE  Live(d, triggers[d])' \/ <<d, triggers[d]>> \in lost' \/ triggers'[d] # triggers[d]
<1> USE DEF base, history
<1>1. CASE triggers'[d] # triggers[d]
  BY <1>1
<1>2. CASE triggers'[d] = triggers[d]
  <2> DEFINE n == triggers[d]
  <2>1. ASSUME NEW t \in toSend \cup queue, t.d = d, t.no = n
        PROVE  Live(d, n)' \/ <<d, n>> \in lost'
    <3>0. CASE t \in toSend' \cup queue'
      BY <1>2, <2>1, <3>0 DEF Live, Waiting
    <3>1. CASE \E p \in Payloads : Create(p) \/ Housekeep(p)
      BY <3>0, <3>1 DEF Create, Housekeep
    <3>2. CASE \E e \in Deliveries : ManualRetry(e) \/ SwitchHook(e) \/ DeleteHook(e)
      BY <3>0, <3>2 DEF ManualRetry, SwitchHook, DeleteHook
    <3>3. CASE \E u \in toSend : Enqueue(u)
      BY <3>0, <3>3 DEF Enqueue
    <3>4. CASE \E u \in toSend : NeverQueued(u)
      BY <2>1, <3>0, <3>4 DEF NeverQueued
    <3>5. ASSUME NEW w \in Workers, NEW u \in queue, Take(w, u)
          PROVE  Live(d, n)' \/ <<d, n>> \in lost'
      <4>1. CASE u # t
        BY <3>0, <3>5, <4>1 DEF Take
      <4>2. CASE u = t /\ Skip(w, t)
        <5>1. row'[d] # "pending"
          BY <2>1, <4>2 DEF Skip, Exists, TypeOK, Statuses
        <5> QED
          BY <5>1
      <4>3. CASE u = t /\ Load(w, t)
        <5>1. job'[w] # Idle /\ job'[w].task = t
          BY <3>5, <4>3 DEF Load, TypeOK, Idle
        <5> QED
          BY <1>2, <2>1, <5>1 DEF Live, Running
      <4> QED
        BY <3>5, <4>1, <4>2, <4>3 DEF Take
    <3>6. CASE \E w \in Workers : Step(w) \/ Die(w)
      <4>1. toSend' = toSend /\ queue \subseteq queue'
        BY <3>6 DEF Step, Respond, RecordGone, RecordSuccess, RecordFailure, Clear,
                    Sweep, Answer, Die
      <4> QED
        BY <3>0, <4>1
    <3>7. CASE UNCHANGED vars
      BY <3>0, <3>7 DEF vars
    <3> QED
      BY <3>1, <3>2, <3>3, <3>4, <3>5, <3>6, <3>7 DEF Next
  <2>2. ASSUME NEW w \in Workers, job[w] # Idle, job[w].task.d = d, job[w].task.no = n
        PROVE  Live(d, n)' \/ <<d, n>> \in lost'
    <3>0. CASE job'[w] # Idle /\ job'[w].task = job[w].task
      BY <1>2, <2>2, <3>0 DEF Live, Running
    <3>1. CASE job'[w] = job[w]
      BY <2>2, <3>0, <3>1
    <3>2. ASSUME NEW t \in queue, Take(w, t)
          PROVE  FALSE
      BY <2>2, <3>2 DEF Take
    <3>3. CASE (Step(w) \/ Die(w)) /\ job'[w] = Idle
      <4>1. job[w] \in Jobs /\ job[w].task \in Task /\ job \in [Workers -> {Idle} \cup Jobs]
        BY <3>3, StepShape DEF Jobs, TypeOK
      <4>2. CASE Die(w)
        BY <2>2, <4>2 DEF Die
      <4>3. CASE RecordGone(w)
        BY <2>2, <4>3 DEF RecordGone, Exists, Statuses
      <4>4. CASE RecordFailure(w)
        <5>1. CASE Again(job[w].task, job[w].outcome)
          <6>1. /\ Next_(job[w].task) \in queue'
                /\ Next_(job[w].task).d = d /\ Next_(job[w].task).no = n
            BY <2>2, <4>1, <4>4, <5>1 DEF RecordFailure, Next_, Task
          <6> QED
            BY <1>2, <6>1 DEF Live, Waiting
        <5>2. CASE ~Again(job[w].task, job[w].outcome)
          <6>1. row'[d] = "failed"
            BY <2>2, <4>4, <5>2 DEF RecordFailure, StatusAfter, TypeOK
          <6> QED
            BY <6>1
        <5> QED
          BY <5>1, <5>2
      <4>5. CASE Sweep(w) \/ Answer(w)
        BY <2>2, <4>5 DEF Sweep, Answer, Finished
      <4>6. CASE RecordSuccess(w)
        <5>1. row'[d] = "success"
          BY <2>2, <4>6 DEF RecordSuccess, TypeOK
        <5> QED
          BY <5>1
      <4>7. CASE Clear(w)
        <5>1. row'[d] = "gone"
          BY <2>2, <4>7 DEF Clear, TypeOK
        <5> QED
          BY <5>1
      <4>8. CASE Respond(w)
        <5>1. PICK o \in Outcomes :
                job' = [job EXCEPT ![w] = [job[w] EXCEPT !.at = "record", !.outcome = o]]
          BY <4>8 DEF Respond
        <5>2. [job[w] EXCEPT !.at = "record", !.outcome = o].at = "record"
          BY <4>1 DEF Jobs
        <5>3. job'[w].at = "record"
          BY <4>1, <5>1, <5>2
        <5> QED
          BY <3>3, <5>3 DEF Idle
      <4> QED
        BY <3>3, <4>2, <4>3, <4>4, <4>5, <4>6, <4>7, <4>8 DEF Step
    <3> QED
      BY <3>0, <3>1, <3>2, <3>3, JobStep, StepShape
  <2> QED
    BY <2>1, <2>2 DEF Live, Waiting, Running
<1> QED
  BY <1>1, <1>2

\* Every step keeps a task for every pending delivery.
LEMMA PendingStep ==
  ASSUME DeliveryAssumption, TypeOK, Stored, Numbered, Finished, PendingHasTask, [Next]_vars
  PROVE  PendingHasTask'
<1> USE DEF base, history
<1>1. SUFFICES ASSUME NEW d \in Deliveries, row'[d] = "pending"
               PROVE  Live(d, triggers[d])' \/ <<d, triggers'[d]>> \in lost'
  BY DEF PendingHasTask
<1>2. lost \subseteq lost'
  <2>1. CASE \E p \in Payloads : Create(p) \/ Housekeep(p)
    BY <2>1 DEF Create, Housekeep
  <2>2. CASE \E e \in Deliveries : ManualRetry(e) \/ SwitchHook(e) \/ DeleteHook(e)
    BY <2>2 DEF ManualRetry, SwitchHook, DeleteHook
  <2>3. CASE \E t \in toSend : Enqueue(t) \/ NeverQueued(t)
    BY <2>3 DEF Enqueue, NeverQueued
  <2>4. CASE \E w \in Workers : \E t \in queue : Take(w, t)
    BY <2>4 DEF Take
  <2>5. CASE \E w \in Workers : Step(w) \/ Die(w)
    BY <2>5 DEF Step, Respond, RecordGone, RecordSuccess, RecordFailure, Clear,
                Sweep, Answer, Die
  <2>6. CASE UNCHANGED vars
    BY <2>6 DEF vars
  <2> QED
    BY <2>1, <2>2, <2>3, <2>4, <2>5, <2>6 DEF Next
<1>3. CASE triggers'[d] = triggers[d]
  <2>1. row[d] = "pending"
    BY <1>1, <1>3, RowSteps DEF RowStep, TypeOK
  <2>2. Live(d, triggers[d]) \/ <<d, triggers[d]>> \in lost
    BY <2>1 DEF PendingHasTask
  <2> QED
    BY <1>1, <1>2, <1>3, <2>1, <2>2, LiveStep
<1>4. CASE triggers'[d] # triggers[d]
  <2>1. CASE \E p \in Payloads : Create(p)
    <3>1. PICK p \in Payloads : Create(p)
      BY <2>1
    <3>2. PayloadOf[d] = p /\ hook[d] = "on" /\ triggers'[d] = 1
      BY <1>4, <3>1 DEF Create, TypeOK
    <3>3. FirstTask(d) \in toSend' /\ FirstTask(d).d = d /\ FirstTask(d).no = 1
      BY <3>1, <3>2 DEF Create, FirstTask
    <3> QED
      BY <3>2, <3>3 DEF Live, Waiting
  <2>2. CASE \E e \in Deliveries : ManualRetry(e)
    <3>1. PICK e \in Deliveries : ManualRetry(e)
      BY <2>2
    <3>2. d = e
      BY <1>4, <3>1 DEF ManualRetry, TypeOK
    <3>3. RetryTask(d) \in toSend' /\ triggers' = [triggers EXCEPT ![d] = @ + 1]
      BY <3>1, <3>2 DEF ManualRetry
    <3>4. RetryTask(d).d = d /\ RetryTask(d).no = triggers'[d]
      BY <3>3 DEF RetryTask, TypeOK
    <3>5. \E t \in toSend' : t.d = d /\ t.no = triggers'[d]
      BY <3>3, <3>4
    <3> QED
      BY <3>5 DEF Live, Waiting
  <2>3. UNCHANGED triggers \/ (\E p \in Payloads : Create(p))
          \/ (\E e \in Deliveries : ManualRetry(e))
    <3>1. CASE \E p \in Payloads : Housekeep(p)
      BY <3>1 DEF Housekeep
    <3>2. CASE \E e \in Deliveries : SwitchHook(e) \/ DeleteHook(e)
      BY <3>2 DEF SwitchHook, DeleteHook
    <3>3. CASE \E t \in toSend : Enqueue(t) \/ NeverQueued(t)
      BY <3>3 DEF Enqueue, NeverQueued
    <3>4. CASE \E w \in Workers : \E t \in queue : Take(w, t)
      BY <3>4 DEF Take
    <3>5. CASE \E w \in Workers : Step(w) \/ Die(w)
      BY <3>5 DEF Step, Respond, RecordGone, RecordSuccess, RecordFailure, Clear,
                  Sweep, Answer, Die
    <3>6. CASE UNCHANGED vars
      BY <3>6 DEF vars
    <3> QED
      BY <3>1, <3>2, <3>3, <3>4, <3>5, <3>6 DEF Next
  <2> QED
    BY <1>4, <2>1, <2>2, <2>3
<1> QED
  BY <1>3, <1>4

\* Tracked holds of the initial states.
LEMMA InitTracked ==
  ASSUME DeliveryAssumption, Init
  PROVE  Tracked
<1>1. TypeOK
  BY DEF Init, TypeOK
<1>2. \A w \in Workers : job[w] = Idle
  BY DEF Init
<1>3. Stored /\ NeverDropped /\ PendingHasTask
  BY DEF Init, Stored, NeverDropped, PendingHasTask, Exists, Statuses, DeliveryAssumption
<1>4. Numbered /\ Finished /\ Approved
  BY <1>2 DEF Init, Numbered, Finished, Approved, Idle
<1> QED
  BY <1>1, <1>3, <1>4 DEF Tracked

\* The inductive invariant of every run of the deliveries.
THEOREM TrackedAlways == Spec => []Tracked
<1>1. Init => Tracked
  BY InitTracked, DeliveryAssumption
<1>2. Tracked /\ [Next]_vars => Tracked'
  BY TypeStep, StoredStep, NumberedStep, FinishedStep, ApprovedStep, NeverDroppedStep,
     PendingStep, DeliveryAssumption DEF Tracked
<1> QED
  BY <1>1, <1>2, PTL DEF Spec

\* Type correctness of rows, payloads, tasks and workers.
THEOREM DeliveryTypeOKAlways == Spec => []TypeOK
<1>1. Tracked => TypeOK
  BY DEF Tracked
<1> QED
  BY <1>1, TrackedAlways, PTL

\* A delivery shown as pending has a task that will settle it, or lost that task
\* with a process (send_webhook_request_async, handle_webhook_retry).
THEOREM PendingHasTaskAlways == Spec => []PendingHasTask
<1>1. Tracked => PendingHasTask
  BY DEF Tracked
<1> QED
  BY <1>1, TrackedAlways, PTL

\* No delivery disappears before it was accepted, unless its webhook was deleted
\* or its payload was too old (clear_successful_delivery).
THEOREM NeverDroppedAlways == Spec => []NeverDropped
<1>1. Tracked => NeverDropped
  BY DEF Tracked
<1> QED
  BY <1>1, TrackedAlways, PTL

-----------------------------------------------------------------------------
(* One task for each trigger *)

\* No two tasks, waiting or running, belong to one trigger of a delivery.
Alone ==
  /\ toSend \cap queue = {}
  /\ \A t, u \in toSend \cup queue : t.d = u.d /\ t.no = u.no => t = u
  /\ \A t \in toSend \cup queue, w \in Workers :
       job[w] # Idle => ~(t.d = job[w].task.d /\ t.no = job[w].task.no)
  /\ \A v, w \in Workers :
       /\ job[v] # Idle /\ job[w] # Idle
       /\ job[v].task.d = job[w].task.d /\ job[v].task.no = job[w].task.no
       => v = w

\* Only the first trigger of a transaction request runs the task that answers it.
KindOf(t) == IF t.d \in Requests /\ t.no = 1 THEN "request" ELSE "async"

Kinds ==
  /\ \A t \in toSend \cup queue : t.kind = KindOf(t)
  /\ \A w \in Workers :
       job[w] # Idle => /\ job[w].task.kind = KindOf(job[w].task)
                        /\ job[w].at = "answer" => job[w].task.kind = "request"

\* A request that was answered was made.
Asked == \A d \in Requests : answers[d] = 1 => triggers[d] >= 1

Single == Tracked /\ Alone /\ Kinds /\ Asked /\ AnsweredOnce /\ FailedIsLast

\* What runs for a trigger that was there before ran for it before.
LEMMA LiveBack ==
  ASSUME DeliveryAssumption, TypeOK, Stored, Numbered, [Next]_vars,
         NEW d \in Deliveries, NEW n \in Nat, n <= triggers[d], Live(d, n)'
  PROVE  Live(d, n)
<1>0. triggers[d] \in Nat
  BY DEF TypeOK
<1>1. ASSUME NEW t \in toSend' \cup queue', t.d = d, t.no = n
      PROVE  Live(d, n)
  <2>1. CASE t \in toSend \cup queue
    BY <1>1, <2>1 DEF Live, Waiting
  <2>2. CASE t.no = triggers[t.d] + 1
    BY <1>0, <1>1, <2>2
  <2>3. ASSUME NEW w \in Workers, RecordFailure(w), t = Next_(job[w].task)
        PROVE  Live(d, n)
    <3>1. job[w] # Idle /\ job[w].task \in Task
      BY <2>3, Busy DEF RecordFailure
    <3>2. job[w].task.d = d /\ job[w].task.no = n
      BY <1>1, <2>3, <3>1 DEF Next_, Task
    <3> QED
      BY <3>1, <3>2 DEF Live, Running
  <2> QED
    BY <2>1, <2>2, <2>3, TaskStep
<1>2. ASSUME NEW w \in Workers, job'[w] # Idle, job'[w].task.d = d, job'[w].task.no = n
      PROVE  Live(d, n)
  <2>1. CASE job'[w] = job[w]
    BY <1>2, <2>1 DEF Live, Running
  <2>2. CASE Step(w) \/ Die(w)
    <3>1. job[w] \in Jobs /\ job'[w].task = job[w].task
      BY <1>2, <2>2, StepShape
    <3>2. job[w] # Idle
      BY <3>1 DEF Idle, Jobs
    <3> QED
      BY <1>2, <3>1, <3>2 DEF Live, Running
  <2>3. ASSUME NEW t \in queue, Take(w, t)
        PROVE  Live(d, n)
    BY <1>2, <2>3, TakeShape DEF Live, Waiting
  <2> QED
    BY <2>1, <2>2, <2>3, JobStep
<1> QED
  BY <1>1, <1>2 DEF Live, Waiting, Running

\* Every step keeps the tasks of a trigger alone.
LEMMA AloneStep ==
  ASSUME DeliveryAssumption, Tracked, Alone, [Next]_vars
  PROVE  Alone'
<1> USE DEF base, history
<1>0. TypeOK /\ Stored /\ Numbered
  BY DEF Tracked
<1>1. ASSUME toSend' \subseteq toSend, queue' \subseteq queue,
             \A w \in Workers : job'[w] = Idle \/ (job[w] # Idle /\ job'[w].task = job[w].task)
      PROVE  Alone'
  BY <1>1 DEF Alone
<1>2. ASSUME NEW S, S \cap queue = {}, toSend' = toSend \cup S, UNCHANGED <<queue, job>>,
             \A t, u \in S : t.d = u.d /\ t.no = u.no => t = u,
             \A t \in S : t.d \in Deliveries /\ t.no \in Nat /\ t.no > triggers[t.d]
      PROVE  Alone'
  <2>1. \A t \in S, u \in toSend \cup queue : ~(t.d = u.d /\ t.no = u.no)
    BY <1>0, <1>2 DEF Numbered, TypeOK
  <2>2. \A t \in S, w \in Workers :
          job[w] # Idle => ~(t.d = job[w].task.d /\ t.no = job[w].task.no)
    BY <1>0, <1>2 DEF Numbered, TypeOK
  <2> QED
    BY <1>2, <2>1, <2>2 DEF Alone
<1>3. ASSUME NEW p \in Payloads, Create(p)
      PROVE  Alone'
  <2> DEFINE S == {FirstTask(d) : d \in {e \in Deliveries : PayloadOf[e] = p /\ hook[e] = "on"}}
  <2>1. toSend' = toSend \cup S /\ UNCHANGED <<queue, job>>
    BY <1>3 DEF Create
  <2>2. \A t \in S : /\ t.d \in Deliveries /\ t.no = 1 /\ triggers[t.d] = 0
                     /\ t = FirstTask(t.d)
    BY <1>0, <1>3 DEF Create, Stored, FirstTask
  <2>3. S \cap queue = {}
    BY <1>0, <2>2 DEF Numbered
  <2>4. /\ \A t, u \in S : t.d = u.d /\ t.no = u.no => t = u
        /\ \A t \in S : t.d \in Deliveries /\ t.no \in Nat /\ t.no > triggers[t.d]
    BY <2>2
  <2> QED
    BY <1>2, <2>1, <2>3, <2>4
<1>4. ASSUME NEW d \in Deliveries, ManualRetry(d)
      PROVE  Alone'
  <2> DEFINE S == {RetryTask(d)}
  <2>1. toSend' = toSend \cup S /\ UNCHANGED <<queue, job>>
    BY <1>4 DEF ManualRetry
  <2>2. \A t \in S : /\ t.d = d /\ t.no = triggers[d] + 1 /\ triggers[d] \in Nat
    BY <1>0 DEF RetryTask, TypeOK
  <2>3. S \cap queue = {}
    BY <1>0, <2>2 DEF Numbered
  <2>4. \A t \in S : t.d \in Deliveries /\ t.no \in Nat /\ t.no > triggers[t.d]
    BY <2>2
  <2> QED
    BY <1>2, <2>1, <2>3, <2>4
<1>5. CASE \E p \in Payloads : Housekeep(p)
  BY <1>1, <1>5 DEF Housekeep
<1>6. CASE \E d \in Deliveries : SwitchHook(d) \/ DeleteHook(d)
  BY <1>1, <1>6 DEF SwitchHook, DeleteHook
<1>7. ASSUME NEW t \in toSend, Enqueue(t)
      PROVE  Alone'
  BY <1>7 DEF Enqueue, Alone
<1>8. CASE \E t \in toSend : NeverQueued(t)
  BY <1>1, <1>8 DEF NeverQueued
<1>9. ASSUME NEW w \in Workers, NEW t \in queue, Take(w, t)
      PROVE  Alone'
  <2>1. /\ toSend' = toSend /\ queue' = queue \ {t}
        /\ \A v \in Workers \ {w} : job'[v] = job[v]
        /\ job'[w] = Idle \/ (job'[w] # Idle /\ job'[w].task = t)
    BY <1>0, <1>9, TakeShape DEF Take, Idle, Jobs
  <2>2. CASE job'[w] = Idle
    BY <1>1, <2>1, <2>2
  <2>3. CASE job'[w] # Idle /\ job'[w].task = t
    <3>1. \A u \in toSend' \cup queue' : ~(u.d = t.d /\ u.no = t.no)
      BY <2>1 DEF Alone
    <3>2. \A v \in Workers \ {w} :
            job[v] # Idle => ~(t.d = job[v].task.d /\ t.no = job[v].task.no)
      BY DEF Alone
    <3> QED
      BY <2>1, <2>3, <3>1, <3>2 DEF Alone
  <2> QED
    BY <2>1, <2>2, <2>3
<1>10. ASSUME NEW w \in Workers, Step(w) \/ Die(w)
       PROVE  Alone'
  <2>1. /\ \A v \in Workers \ {w} : job'[v] = job[v]
        /\ job[w] \in Jobs /\ job[w] # Idle
        /\ job'[w] = Idle \/ job'[w].task = job[w].task
    BY <1>0, <1>10, StepShape DEF Idle, Jobs
  <2>2. CASE RecordFailure(w) /\ Again(job[w].task, job[w].outcome)
    <3>1. job'[w] = Idle
      BY <1>0, <2>2 DEF RecordFailure, JobAfter, TypeOK
    <3> DEFINE u == Next_(job[w].task)
    <3>2. u.d = job[w].task.d /\ u.no = job[w].task.no
      BY <2>1 DEF Next_, Jobs, Task
    <3>3. toSend' = toSend /\ queue' = queue \cup {u}
      BY <2>2 DEF RecordFailure
    <3>4. \A t \in toSend \cup queue : ~(t.d = u.d /\ t.no = u.no)
      BY <2>1, <3>2 DEF Alone
    <3>5. \A v \in Workers : job'[v] # Idle =>
            /\ job[v] # Idle /\ job'[v].task = job[v].task
            /\ ~(u.d = job'[v].task.d /\ u.no = job'[v].task.no)
      BY <2>1, <3>1, <3>2 DEF Alone
    <3> HIDE DEF u
    <3> QED
      BY <3>3, <3>4, <3>5 DEF Alone
  <2>3. CASE ~(RecordFailure(w) /\ Again(job[w].task, job[w].outcome))
    <3>1. toSend' \subseteq toSend /\ queue' \subseteq queue
      BY <1>10, <2>3 DEF Step, Respond, RecordGone, RecordSuccess, RecordFailure, Clear,
                         Sweep, Answer, Die
    <3> QED
      BY <1>1, <2>1, <3>1
  <2> QED
    BY <2>2, <2>3
<1>11. CASE UNCHANGED vars
  BY <1>1, <1>11 DEF vars
<1> QED
  BY <1>3, <1>4, <1>5, <1>6, <1>7, <1>8, <1>9, <1>10, <1>11 DEF Next

\* Every step keeps the kinds of the tasks.
LEMMA KindsStep ==
  ASSUME DeliveryAssumption, Tracked, Kinds, [Next]_vars
  PROVE  Kinds'
<1> USE DEF base, history
<1>0. TypeOK /\ Stored /\ Numbered
  BY DEF Tracked
<1>1. ASSUME NEW t \in toSend' \cup queue'
      PROVE  t.kind = KindOf(t)
  <2>1. CASE t \in toSend \cup queue
    BY <2>1 DEF Kinds
  <2>2. ASSUME NEW w \in Workers, RecordFailure(w), t = Next_(job[w].task)
        PROVE  t.kind = KindOf(t)
    <3>1. job[w] # Idle /\ job[w].task \in Task
      BY <1>0, <2>2, Busy DEF RecordFailure
    <3>2. t.d = job[w].task.d /\ t.no = job[w].task.no /\ t.kind = job[w].task.kind
      BY <2>2, <3>1 DEF Next_, Task
    <3> QED
      BY <3>1, <3>2 DEF Kinds, KindOf
  <2>3. CASE \E p \in Payloads : Create(p)
    BY <2>1, <2>3 DEF Create, FirstTask, KindOf
  <2>4. ASSUME NEW d \in Deliveries, ManualRetry(d), t \notin toSend \cup queue
        PROVE  t.kind = KindOf(t)
    <3>1. t = RetryTask(d) /\ triggers[d] \in 1..MaxManual
      BY <2>4 DEF ManualRetry
    <3> QED
      BY <3>1, DeliveryAssumption DEF RetryTask, KindOf, DeliveryAssumption
  <2>5. CASE UNCHANGED triggers
    <3>1. \A d \in Deliveries : triggers[d] \in Nat
      BY <1>0 DEF TypeOK
    <3> QED
      BY <1>0, <2>1, <2>2, <2>5, <3>1, TaskStep
  <2>6. UNCHANGED triggers \/ (\E p \in Payloads : Create(p))
          \/ (\E d \in Deliveries : ManualRetry(d))
    <3>1. CASE \E p \in Payloads : Housekeep(p)
      BY <3>1 DEF Housekeep
    <3>2. CASE \E d \in Deliveries : SwitchHook(d) \/ DeleteHook(d)
      BY <3>2 DEF SwitchHook, DeleteHook
    <3>3. CASE \E u \in toSend : Enqueue(u) \/ NeverQueued(u)
      BY <3>3 DEF Enqueue, NeverQueued
    <3>4. CASE \E w \in Workers : \E u \in queue : Take(w, u)
      BY <3>4 DEF Take
    <3>5. CASE \E w \in Workers : Step(w) \/ Die(w)
      BY <3>5 DEF Step, Respond, RecordGone, RecordSuccess, RecordFailure, Clear,
                  Sweep, Answer, Die
    <3>6. CASE UNCHANGED vars
      BY <3>6 DEF vars
    <3> QED
      BY <3>1, <3>2, <3>3, <3>4, <3>5, <3>6 DEF Next
  <2> QED
    BY <2>1, <2>3, <2>4, <2>5, <2>6
<1>2. ASSUME NEW w \in Workers, job'[w] # Idle
      PROVE  /\ job'[w].task.kind = KindOf(job'[w].task)
             /\ job'[w].at = "answer" => job'[w].task.kind = "request"
  <2>1. CASE job'[w] = job[w]
    BY <1>2, <2>1 DEF Kinds
  <2>2. ASSUME NEW t \in queue, Take(w, t)
        PROVE  job'[w].task = t /\ job'[w].at # "answer"
    BY <1>0, <1>2, <2>2, TakeShape
  <2>3. CASE Step(w) \/ Die(w)
    <3>1. job[w] \in Jobs /\ job[w] # Idle /\ job'[w].task = job[w].task
      BY <1>0, <1>2, <2>3, StepShape DEF Idle, Jobs
    <3>2. job[w].task.kind = KindOf(job[w].task)
      BY <3>1 DEF Kinds
    <3>3. job'[w].at = "answer" => job[w].task.kind = "request"
      <4>1. CASE Respond(w)
        <5>1. PICK o \in Outcomes :
                job' = [job EXCEPT ![w] = [job[w] EXCEPT !.at = "record", !.outcome = o]]
          BY <4>1 DEF Respond
        <5>2. [job[w] EXCEPT !.at = "record", !.outcome = o].at = "record"
          BY <3>1 DEF Jobs
        <5> QED
          BY <1>0, <5>1, <5>2 DEF TypeOK
      <4>2. CASE RecordSuccess(w) \/ Clear(w)
        BY <1>0, <3>1, <4>2 DEF RecordSuccess, Clear, TypeOK, Jobs
      <4>3. CASE RecordFailure(w)
        BY <1>0, <1>2, <3>1, <4>3 DEF RecordFailure, JobAfter, TypeOK, Jobs
      <4>4. CASE Sweep(w)
        BY <1>0, <1>2, <3>1, <4>4 DEF Sweep, TypeOK, Jobs
      <4>5. CASE RecordGone(w) \/ Answer(w) \/ Die(w)
        BY <1>0, <1>2, <4>5 DEF RecordGone, Answer, Die, TypeOK
      <4> QED
        BY <2>3, <4>1, <4>2, <4>3, <4>4, <4>5 DEF Step
    <3> QED
      BY <3>1, <3>2, <3>3
  <2> QED
    BY <1>0, <2>1, <2>2, <2>3, JobStep DEF Kinds
<1> QED
  BY <1>1, <1>2 DEF Kinds, KindOf

\* A trigger whose worker stopped, or whose task was taken and ended, has no
\* other task.
LEMMA OverFor ==
  ASSUME DeliveryAssumption, Tracked, Alone, [Next]_vars,
         NEW d \in Deliveries, NEW n \in Nat, NEW w \in Workers, job'[w] = Idle,
         \/ /\ job[w] # Idle /\ job[w].task.d = d /\ job[w].task.no = n
            /\ toSend' \subseteq toSend /\ queue' \subseteq queue
         \/ \E t \in queue : t.d = d /\ t.no = n /\ Take(w, t)
  PROVE  ~Live(d, n)'
<1>0. TypeOK /\ Stored /\ Numbered
  BY DEF Tracked
<1>1. CASE /\ job[w] # Idle /\ job[w].task.d = d /\ job[w].task.no = n
           /\ toSend' \subseteq toSend /\ queue' \subseteq queue
  <2>1. Step(w) \/ Die(w)
    BY <1>0, <1>1, JobStep DEF Take
  <2>2. \A v \in Workers \ {w} : job'[v] = job[v]
    BY <1>0, <2>1, StepShape
  <2>3. \A t \in toSend' \cup queue' : ~(t.d = d /\ t.no = n)
    BY <1>1 DEF Alone
  <2>4. \A v \in Workers : job'[v] # Idle => ~(job'[v].task.d = d /\ job'[v].task.no = n)
    BY <1>1, <2>2 DEF Alone
  <2> QED
    BY <2>3, <2>4 DEF Live, Waiting, Running
<1>2. ASSUME NEW t \in queue, t.d = d, t.no = n, Take(w, t)
      PROVE  ~Live(d, n)'
  <2>1. \A v \in Workers \ {w} : job'[v] = job[v]
    BY <1>0, <1>2, TakeShape
  <2>2. toSend' = toSend /\ queue' = queue \ {t}
    BY <1>2 DEF Take
  <2>3. \A u \in toSend' \cup queue' : ~(u.d = d /\ u.no = n)
    BY <1>2, <2>2 DEF Alone
  <2>4. \A v \in Workers : job'[v] # Idle => ~(job'[v].task.d = d /\ job'[v].task.no = n)
    BY <1>2, <2>1 DEF Alone
  <2> QED
    BY <2>3, <2>4 DEF Live, Waiting, Running
<1> QED
  BY <1>1, <1>2

\* Every step keeps requests answered at most once.
LEMMA AnsweredStep ==
  ASSUME DeliveryAssumption, Tracked, Alone, Kinds, Asked, AnsweredOnce, [Next]_vars
  PROVE  Asked' /\ AnsweredOnce'
<1> USE DEF base, history
<1>0. TypeOK /\ Stored /\ Numbered /\ TypeOK'
  BY TypeStep DEF Tracked
<1>1. SUFFICES ASSUME NEW d \in Requests
               PROVE  /\ answers'[d] <= 1
                      /\ answers'[d] = 1 => triggers'[d] >= 1 /\ ~Live(d, 1)'
  BY DEF Asked, AnsweredOnce
<1>2. d \in Deliveries /\ RowStep(d) /\ triggers[d] \in Nat /\ triggers'[d] \in Nat
      /\ answers[d] \in Nat
  BY <1>0, RowSteps DEF DeliveryAssumption, TypeOK
<1>3. CASE answers'[d] = answers[d]
  <2>1. answers[d] <= 1
    BY DEF AnsweredOnce
  <2>2. ASSUME answers[d] = 1
        PROVE  triggers'[d] >= 1 /\ ~Live(d, 1)'
    <3>1. triggers[d] >= 1 /\ ~Live(d, 1)
      BY <2>2 DEF Asked, AnsweredOnce
    <3> QED
      BY <1>0, <1>2, <3>1, LiveBack DEF RowStep
  <2> QED
    BY <1>3, <2>1, <2>2
<1>4. ASSUME NEW w \in Workers, Answer(w), job[w].task.d = d
      PROVE  /\ answers'[d] <= 1
             /\ answers'[d] = 1 => triggers'[d] >= 1 /\ ~Live(d, 1)'
  <2>1. job[w] # Idle /\ job[w].task \in Task
    BY <1>0, <1>4, Busy DEF Answer
  <2>2. job[w].task.kind = "request" /\ job[w].task.no = 1
    BY <1>4, <2>1 DEF Kinds, KindOf, Answer
  <2>3. Live(d, 1)
    BY <1>4, <2>1, <2>2 DEF Live, Running
  <2>4. answers[d] = 0
    BY <1>2, <2>3 DEF AnsweredOnce
  <2>5. answers'[d] = 1 /\ triggers' = triggers /\ job'[w] = Idle
        /\ toSend' = toSend /\ queue' = queue
    BY <1>0, <1>2, <1>4, <2>4 DEF Answer, TypeOK
  <2>6. 1 \in 1..triggers[d]
    BY <1>4, <2>1, <2>2 DEF Tracked, Numbered
  <2>7. ~Live(d, 1)'
    BY <1>2, <1>4, <2>1, <2>2, <2>5, OverFor
  <2> QED
    BY <1>2, <2>5, <2>6, <2>7
<1>5. answers'[d] = answers[d] \/ \E w \in Workers : Answer(w) /\ job[w].task.d = d
  <2>1. CASE \E p \in Payloads : Create(p) \/ Housekeep(p)
    BY <2>1 DEF Create, Housekeep
  <2>2. CASE \E e \in Deliveries : ManualRetry(e) \/ SwitchHook(e) \/ DeleteHook(e)
    BY <2>2 DEF ManualRetry, SwitchHook, DeleteHook
  <2>3. CASE \E t \in toSend : Enqueue(t) \/ NeverQueued(t)
    BY <2>3 DEF Enqueue, NeverQueued
  <2>4. CASE \E w \in Workers : \E t \in queue : Take(w, t)
    BY <2>4 DEF Take
  <2>5. ASSUME NEW w \in Workers, Answer(w), job[w].task.d # d
        PROVE  answers'[d] = answers[d]
    BY <1>0, <1>2, <2>5 DEF Answer, TypeOK
  <2>6. ASSUME NEW w \in Workers, Step(w) \/ Die(w), ~Answer(w)
        PROVE  answers'[d] = answers[d]
    BY <2>6 DEF Step, Respond, RecordGone, RecordSuccess, RecordFailure, Clear, Sweep, Die
  <2>7. CASE UNCHANGED vars
    BY <2>7 DEF vars
  <2> QED
    BY <2>1, <2>2, <2>3, <2>4, <2>5, <2>6, <2>7 DEF Next
<1> QED
  BY <1>3, <1>4, <1>5

\* Every step keeps a failed delivery without a task.
LEMMA FailedStep ==
  ASSUME DeliveryAssumption, Tracked, Alone, Kinds, FailedIsLast, [Next]_vars
  PROVE  FailedIsLast'
<1> USE DEF base, history
<1>0. TypeOK /\ Stored /\ Numbered /\ TypeOK'
  BY TypeStep DEF Tracked
<1>1. SUFFICES ASSUME NEW d \in Deliveries \ Requests, row'[d] = "failed", triggers'[d] = 1
               PROVE  ~Live(d, 1)'
  BY DEF FailedIsLast
<1>2. triggers[d] = 1
  BY <1>0, <1>1, RowSteps DEF RowStep
<1>3. CASE row[d] = "failed"
  <2>1. ~Live(d, 1)
    BY <1>2, <1>3 DEF FailedIsLast
  <2> QED
    BY <1>0, <1>2, <2>1, LiveBack
<1>4. CASE row[d] # "failed"
  <2>1. ASSUME NEW p \in Payloads, Create(p) \/ Housekeep(p)
        PROVE  FALSE
    BY <1>0, <1>1, <1>4, <2>1 DEF Create, Housekeep, DropPayload, TypeOK
  <2>2. ASSUME NEW e \in Deliveries, ManualRetry(e) \/ SwitchHook(e) \/ DeleteHook(e)
        PROVE  FALSE
    BY <1>0, <1>1, <1>4, <2>2 DEF ManualRetry, SwitchHook, DeleteHook, TypeOK
  <2>3. ASSUME NEW t \in toSend, Enqueue(t) \/ NeverQueued(t)
        PROVE  FALSE
    BY <1>1, <1>4, <2>3 DEF Enqueue, NeverQueued
  <2>4. ASSUME NEW w \in Workers, NEW t \in queue, Take(w, t)
        PROVE  ~Live(d, 1)'
    <3>1. t \in Task
      BY <1>0, <2>4, TakeShape
    <3>2. Skip(w, t)
      BY <1>1, <1>4, <2>4 DEF Take, Load
    <3>3. t.d = d
      BY <1>0, <1>1, <1>4, <3>1, <3>2 DEF Skip, TypeOK, Task
    <3>4. t.no = 1
      BY <1>0, <1>2, <3>1, <3>3 DEF Numbered, Task
    <3>5. job'[w] = Idle
      BY <2>4, <3>2 DEF Take, Skip
    <3> QED
      BY <2>4, <3>3, <3>4, <3>5, OverFor
  <2>5. ASSUME NEW w \in Workers, RecordFailure(w)
        PROVE  ~Live(d, 1)'
    <3>1. job[w] # Idle /\ job[w].task \in Task
      BY <1>0, <2>5, Busy DEF RecordFailure
    <3>2. job[w].task.d = d
      BY <1>0, <1>1, <1>4, <2>5 DEF RecordFailure, TypeOK
    <3>3. job[w].task.no = 1 /\ job[w].task.kind = "async"
      BY <1>0, <1>2, <3>1, <3>2 DEF Numbered, Kinds, KindOf, Task
    <3>4. ~Again(job[w].task, job[w].outcome)
      BY <1>0, <1>1, <1>4, <2>5, <3>2, <3>3 DEF RecordFailure, StatusAfter, TypeOK
    <3>5. toSend' = toSend /\ queue' = queue /\ job'[w] = Idle
      BY <1>0, <2>5, <3>3, <3>4 DEF RecordFailure, JobAfter, TypeOK
    <3> QED
      BY <3>1, <3>2, <3>3, <3>5, OverFor
  <2>6. ASSUME NEW w \in Workers, Step(w) \/ Die(w), ~RecordFailure(w)
        PROVE  FALSE
    <3>1. job[w].task.d \in Deliveries
      BY <1>0, <2>6, StepShape DEF Jobs, Task
    <3>2. CASE Respond(w) \/ RecordGone(w) \/ Answer(w) \/ Die(w)
      BY <1>1, <1>4, <3>2 DEF Respond, RecordGone, Answer, Die
    <3>3. CASE RecordSuccess(w) \/ Clear(w)
      BY <1>0, <1>1, <1>4, <3>3 DEF RecordSuccess, Clear, TypeOK
    <3>4. CASE Sweep(w)
      BY <1>0, <1>1, <1>4, <3>4 DEF Sweep, DropPayload, TypeOK
    <3> QED
      BY <2>6, <3>2, <3>3, <3>4 DEF Step
  <2>7. CASE UNCHANGED vars
    BY <1>1, <1>4, <2>7 DEF vars
  <2> QED
    BY <2>1, <2>2, <2>3, <2>4, <2>5, <2>6, <2>7 DEF Next
<1> QED
  BY <1>3, <1>4

\* Single holds of the initial states.
LEMMA InitSingle ==
  ASSUME DeliveryAssumption, Init
  PROVE  Single
<1>1. \A w \in Workers : job[w] = Idle
  BY DEF Init
<1>2. Alone /\ Kinds
  BY <1>1 DEF Init, Alone, Kinds
<1>3. Asked /\ AnsweredOnce /\ FailedIsLast
  BY DEF Init, Asked, AnsweredOnce, FailedIsLast, DeliveryAssumption
<1> QED
  BY <1>2, <1>3, InitTracked DEF Single

\* The second inductive invariant, on top of the first.
THEOREM SingleAlways == Spec => []Single
<1>1. Init => Single
  BY InitSingle, DeliveryAssumption
<1>2. Single /\ [Next]_vars => Single'
  <2>1. Tracked /\ [Next]_vars => Tracked'
    BY TypeStep, StoredStep, NumberedStep, FinishedStep, ApprovedStep, NeverDroppedStep,
       PendingStep, DeliveryAssumption DEF Tracked
  <2> QED
    BY <2>1, AloneStep, KindsStep, AnsweredStep, FailedStep, DeliveryAssumption DEF Single
<1> QED
  BY <1>1, <1>2, PTL DEF Spec

\* A transaction request is turned into one transaction event at most, and not
\* before its last attempt (handle_transaction_request_task).
THEOREM AnsweredOnceAlways == Spec => []AnsweredOnce
<1>1. Single => AnsweredOnce
  BY DEF Single
<1> QED
  BY <1>1, SingleAlways, PTL

\* Nothing more is sent for an event whose delivery is shown as failed, unless it
\* is retried by hand (handle_webhook_retry, delivery_update).
THEOREM FailedIsLastAlways == Spec => []FailedIsLast
<1>1. Single => FailedIsLast
  BY DEF Single
<1> QED
  BY <1>1, SingleAlways, PTL

-----------------------------------------------------------------------------
(* How often a delivery is attempted.                                      *)
(*                                                                         *)
(* Each trigger of a delivery has MaxRetries + 1 attempts to spend, one for *)
(* each number of retries.  Used(d) are those its tasks have spent or will *)
(* never spend; there are at least as many as attempts were made.          *)

\* The task of trigger n can still make the attempt after r retries.
Ahead(d, n, r) ==
  \/ \E t \in toSend \cup queue : t.d = d /\ t.no = n /\ t.retries <= r
  \/ \E w \in Workers : /\ job[w] # Idle /\ job[w].task.d = d
                        /\ job[w].task.no = n /\ job[w].task.retries < r

Used(d) == {x \in (1..triggers[d]) \X (0..MaxRetries) : ~Ahead(d, x[1], x[2])}

Budgeted ==
  /\ \A t \in toSend \cup queue : t.retries <= MaxRetries
  /\ \A w \in Workers : job[w] # Idle => job[w].task.retries <= MaxRetries
  /\ \A d \in Deliveries : attempts[d] <= Cardinality(Used(d))

\* What was spent is a part of what there was to spend.
LEMMA UsedFinite ==
  ASSUME DeliveryAssumption, NEW k \in Nat, NEW S \in SUBSET ((1..k) \X (0..MaxRetries))
  PROVE  /\ IsFiniteSet(S) /\ Cardinality(S) \in Nat
         /\ Cardinality(S) <= (MaxRetries + 1) * k
<1> DEFINE all == (1..k) \X (0..MaxRetries)
<1>1. MaxRetries \in Nat
  BY DEF DeliveryAssumption
<1>2. /\ IsFiniteSet(1..k) /\ Cardinality(1..k) = k
      /\ IsFiniteSet(0..MaxRetries) /\ Cardinality(0..MaxRetries) = MaxRetries + 1
  <2>1. 0 \in Int /\ 1 \in Int /\ k \in Int /\ MaxRetries \in Int
    BY <1>1
  <2>2. /\ IsFiniteSet(1..k) /\ Cardinality(1..k) = IF 1 > k THEN 0 ELSE k - 1 + 1
    BY <2>1, FS_Interval
  <2>3. /\ IsFiniteSet(0..MaxRetries)
        /\ Cardinality(0..MaxRetries) = IF 0 > MaxRetries THEN 0 ELSE MaxRetries - 0 + 1
    BY <2>1, FS_Interval
  <2> QED
    BY <1>1, <2>2, <2>3
<1>3. IsFiniteSet(all) /\ Cardinality(all) = k * (MaxRetries + 1)
  BY ZenonT(40), <1>2, FS_Product
<1>4. k * (MaxRetries + 1) = (MaxRetries + 1) * k
  BY <1>1
<1> HIDE DEF all
<1>5. S \in SUBSET all
  BY DEF all
<1>6. IsFiniteSet(S) /\ Cardinality(S) <= Cardinality(all)
  BY <1>3, <1>5, FS_Subset
<1> QED
  BY <1>3, <1>4, <1>6, FS_CardinalityType

\* An attempt that is still to come was to come before.
LEMMA AheadBack ==
  ASSUME DeliveryAssumption, TypeOK, Stored, Numbered, [Next]_vars,
         NEW d \in Deliveries, NEW n \in Nat, n <= triggers[d], NEW r \in Nat,
         Ahead(d, n, r)'
  PROVE  Ahead(d, n, r)
<1>0. triggers[d] \in Nat
  BY DEF TypeOK
<1>1. ASSUME NEW t \in toSend' \cup queue', t.d = d, t.no = n, t.retries <= r
      PROVE  Ahead(d, n, r)
  <2>1. CASE t \in toSend \cup queue
    BY <1>1, <2>1 DEF Ahead
  <2>2. CASE t.no = triggers[t.d] + 1
    BY <1>0, <1>1, <2>2
  <2>3. ASSUME NEW w \in Workers, RecordFailure(w), t = Next_(job[w].task)
        PROVE  Ahead(d, n, r)
    <3>1. job[w] # Idle /\ job[w].task \in Task
      BY <2>3, Busy DEF RecordFailure
    <3>2. /\ job[w].task.d = d /\ job[w].task.no = n
          /\ job[w].task.retries \in Nat /\ job[w].task.retries + 1 <= r
      BY <1>1, <2>3, <3>1 DEF Next_, Task
    <3> QED
      BY <3>1, <3>2 DEF Ahead
  <2> QED
    BY <2>1, <2>2, <2>3, TaskStep
<1>2. ASSUME NEW w \in Workers, job'[w] # Idle, job'[w].task.d = d,
             job'[w].task.no = n, job'[w].task.retries < r
      PROVE  Ahead(d, n, r)
  <2>1. CASE job'[w] = job[w]
    BY <1>2, <2>1 DEF Ahead
  <2>2. CASE Step(w) \/ Die(w)
    <3>1. job[w] \in Jobs /\ job'[w].task = job[w].task
      BY <1>2, <2>2, StepShape
    <3>2. job[w] # Idle
      BY <3>1 DEF Idle, Jobs
    <3> QED
      BY <1>2, <3>1, <3>2 DEF Ahead
  <2>3. ASSUME NEW t \in queue, Take(w, t)
        PROVE  Ahead(d, n, r)
    <3>1. t \in Task /\ job'[w].task = t
      BY <1>2, <2>3, TakeShape
    <3>2. t.retries <= r
      BY <1>2, <3>1 DEF Task
    <3> QED
      BY <1>2, <3>1, <3>2 DEF Ahead
  <2> QED
    BY <2>1, <2>2, <2>3, JobStep
<1> QED
  BY <1>1, <1>2 DEF Ahead

\* Nothing that was spent can be spent again.
LEMMA UsedGrows ==
  ASSUME DeliveryAssumption, TypeOK, Stored, Numbered, [Next]_vars,
         NEW d \in Deliveries
  PROVE  Used(d) \subseteq Used(d)'
<1>1. triggers[d] \in Nat /\ triggers'[d] \in Nat /\ triggers[d] <= triggers'[d]
  BY TypeStep, RowSteps DEF TypeOK, RowStep
<1>2. MaxRetries \in Nat
  BY DEF DeliveryAssumption
<1>3. ASSUME NEW x \in Used(d)
      PROVE  x \in Used(d)'
  <2>1. PICK n \in 1..triggers[d], r \in 0..MaxRetries : x = <<n, r>>
    BY <1>3 DEF Used
  <2>2. ~Ahead(d, n, r)
    BY <1>3, <2>1 DEF Used
  <2>3. n \in Nat /\ r \in Nat /\ n <= triggers[d] /\ n \in 1..triggers'[d]
    BY <1>1, <1>2
  <2>4. ~Ahead(d, n, r)'
    BY <2>2, <2>3, AheadBack
  <2> QED
    BY <2>1, <2>3, <2>4 DEF Used
<1> QED
  BY <1>3

\* An attempt spends one that was still to come.
LEMMA LoadSpends ==
  ASSUME DeliveryAssumption, Single, Budgeted, Alone', [Next]_vars,
         NEW w \in Workers, NEW t \in queue, Take(w, t), Load(w, t)
  PROVE  <<t.no, t.retries>> \in Used(t.d)' \ Used(t.d)
<1>1. TypeOK /\ Stored /\ Numbered
  BY DEF Single, Tracked
<1>2. /\ t \in Task /\ t.no \in 1..triggers[t.d] /\ t.retries <= MaxRetries
      /\ MaxRetries \in Nat
  BY <1>1 DEF TypeOK, Numbered, Budgeted, DeliveryAssumption
<1>3. t.retries \in 0..MaxRetries /\ t.retries \in Nat
  BY <1>2 DEF Task
<1>4. UNCHANGED triggers
  BY DEF Take
<1>5. job'[w] # Idle /\ job'[w].task = t
  BY <1>1 DEF Load, TypeOK, Idle
<1>6. Ahead(t.d, t.no, t.retries)
  BY <1>3 DEF Ahead
<1>7. ~Ahead(t.d, t.no, t.retries)'
  <2>1. \A u \in toSend' \cup queue' : ~(u.d = t.d /\ u.no = t.no)
    BY <1>5 DEF Alone
  <2>2. ASSUME NEW v \in Workers, job'[v] # Idle, job'[v].task.d = t.d,
               job'[v].task.no = t.no, job'[v].task.retries < t.retries
        PROVE  FALSE
    <3>1. v = w
      BY <1>5, <2>2 DEF Alone
    <3> QED
      BY <1>3, <1>5, <2>2, <3>1
  <2> QED
    BY <2>1, <2>2 DEF Ahead
<1> QED
  BY <1>2, <1>3, <1>4, <1>6, <1>7 DEF Used

\* Only loading a delivery makes an attempt.
LEMMA AttemptStep ==
  ASSUME [Next]_vars
  PROVE  \/ UNCHANGED attempts
         \/ \E w \in Workers, t \in queue : Take(w, t) /\ Load(w, t)
<1> USE DEF base, history
<1>1. CASE \E p \in Payloads : Create(p) \/ Housekeep(p)
  BY <1>1 DEF Create, Housekeep
<1>2. CASE \E d \in Deliveries : ManualRetry(d) \/ SwitchHook(d) \/ DeleteHook(d)
  BY <1>2 DEF ManualRetry, SwitchHook, DeleteHook
<1>3. CASE \E t \in toSend : Enqueue(t) \/ NeverQueued(t)
  BY <1>3 DEF Enqueue, NeverQueued
<1>4. ASSUME NEW w \in Workers, NEW t \in queue, Take(w, t)
      PROVE  UNCHANGED attempts \/ (Take(w, t) /\ Load(w, t))
  BY <1>4 DEF Take, Skip
<1>5. CASE \E w \in Workers : Step(w) \/ Die(w)
  BY <1>5 DEF Step, Respond, RecordGone, RecordSuccess, RecordFailure, Clear,
              Sweep, Answer, Die
<1>6. CASE UNCHANGED vars
  BY <1>6 DEF vars
<1> QED
  BY <1>1, <1>2, <1>3, <1>4, <1>5, <1>6 DEF Next

\* The first task of a trigger has not been retried.
LEMMA FirstOfTrigger ==
  ASSUME DeliveryAssumption, TypeOK, Stored, Numbered, [Next]_vars,
         NEW t \in toSend' \cup queue', t \notin toSend \cup queue,
         t.d \in Deliveries, t.no = triggers[t.d] + 1
  PROVE  t.retries = 0
<1> USE DEF base, history
<1>0. triggers[t.d] \in Nat
  BY DEF TypeOK
<1>1. CASE \E p \in Payloads : Create(p)
  BY <1>1 DEF Create, FirstTask
<1>2. CASE \E d \in Deliveries : ManualRetry(d)
  BY <1>2 DEF ManualRetry, RetryTask
<1>3. CASE \E p \in Payloads : Housekeep(p)
  BY <1>3 DEF Housekeep
<1>4. CASE \E d \in Deliveries : SwitchHook(d) \/ DeleteHook(d)
  BY <1>4 DEF SwitchHook, DeleteHook
<1>5. CASE \E u \in toSend : Enqueue(u) \/ NeverQueued(u)
  BY <1>5 DEF Enqueue, NeverQueued
<1>6. CASE \E w \in Workers : \E u \in queue : Take(w, u)
  BY <1>6 DEF Take
<1>7. ASSUME NEW w \in Workers, RecordFailure(w)
      PROVE  FALSE
  <2>1. t = Next_(job[w].task)
    BY <1>7 DEF RecordFailure
  <2>2. job[w] # Idle /\ job[w].task \in Task
    BY <1>7, Busy DEF RecordFailure, Jobs
  <2>3. t.d = job[w].task.d /\ t.no = job[w].task.no
    BY <2>1, <2>2 DEF Next_, Task
  <2> QED
    BY <1>0, <2>2, <2>3 DEF Numbered
<1>8. CASE \E w \in Workers : Step(w) /\ ~RecordFailure(w)
  BY <1>8 DEF Step, Respond, RecordGone, RecordSuccess, Clear, Sweep, Answer
<1>9. CASE \E w \in Workers : Die(w)
  BY <1>9 DEF Die
<1>10. CASE UNCHANGED vars
  BY <1>10 DEF vars
<1> QED
  BY <1>1, <1>2, <1>3, <1>4, <1>5, <1>6, <1>7, <1>8, <1>9, <1>10 DEF Next

\* Every step keeps within what there is to spend.
LEMMA BudgetedStep ==
  ASSUME DeliveryAssumption, Single, Single', Budgeted, [Next]_vars
  PROVE  Budgeted'
<1>1. TypeOK /\ Stored /\ Numbered /\ TypeOK' /\ Alone'
  BY DEF Single, Tracked
<1>2. MaxRetries \in Nat
  BY DEF DeliveryAssumption
<1>3. ASSUME NEW t \in toSend' \cup queue'
      PROVE  t.retries <= MaxRetries
  <2>1. CASE t \in toSend \cup queue
    BY <2>1 DEF Budgeted
  <2>2. ASSUME NEW w \in Workers, RecordFailure(w),
               Again(job[w].task, job[w].outcome), t = Next_(job[w].task)
        PROVE  t.retries <= MaxRetries
    <3>1. job[w].task \in Task
      BY <1>1, <2>2, Busy DEF RecordFailure, Jobs
    <3> QED
      BY <1>2, <2>2, <3>1 DEF Again, Next_, Task
  <2>3. CASE t \notin toSend \cup queue /\ t.no = triggers[t.d] + 1
               /\ t.no = triggers'[t.d] /\ t.d \in Deliveries
    <3>1. t.retries = 0
      BY <1>1, <2>3, FirstOfTrigger
    <3> QED
      BY <1>2, <3>1
  <2> QED
    BY <1>1, <2>1, <2>2, <2>3, TaskStep
<1>4. ASSUME NEW w \in Workers, job'[w] # Idle
      PROVE  job'[w].task.retries <= MaxRetries
  <2>1. CASE job'[w] = job[w]
    BY <1>4, <2>1 DEF Budgeted
  <2>2. CASE Step(w) \/ Die(w)
    BY <1>1, <1>4, <2>2, StepShape DEF Budgeted, Jobs, Idle
  <2>3. ASSUME NEW t \in queue, Take(w, t)
        PROVE  job'[w].task.retries <= MaxRetries
    BY <1>1, <1>4, <2>3, TakeShape DEF Budgeted
  <2> QED
    BY <1>1, <2>1, <2>2, <2>3, JobStep
<1>5. ASSUME NEW d \in Deliveries
      PROVE  attempts'[d] <= Cardinality(Used(d)')
  <2> DEFINE new == Used(d)'
  <2>1. /\ IsFiniteSet(Used(d)) /\ Cardinality(Used(d)) \in Nat
        /\ IsFiniteSet(new) /\ Cardinality(new) \in Nat
    <3>1. triggers[d] \in Nat /\ triggers'[d] \in Nat
      BY <1>1 DEF TypeOK
    <3>2. /\ Used(d) \in SUBSET ((1..triggers[d]) \X (0..MaxRetries))
          /\ new \in SUBSET ((1..triggers'[d]) \X (0..MaxRetries))
      BY DEF Used
    <3> HIDE DEF new
    <3> QED
      BY <3>1, <3>2, UsedFinite
  <2>2. Used(d) \in SUBSET new
    BY <1>1, UsedGrows
  <2>3. attempts \in [Deliveries -> Nat] /\ attempts[d] <= Cardinality(Used(d))
    BY <1>1 DEF TypeOK, Budgeted
  <2> HIDE DEF new
  <2>4. Cardinality(Used(d)) <= Cardinality(new)
    BY <2>1, <2>2, FS_Subset
  <2>5. CASE attempts'[d] = attempts[d]
    BY <2>1, <2>3, <2>4, <2>5 DEF new
  <2>6. ASSUME NEW w \in Workers, NEW t \in queue, Take(w, t), Load(w, t),
               attempts'[d] # attempts[d]
        PROVE  attempts'[d] <= Cardinality(new)
    <3>1. attempts' = [attempts EXCEPT ![t.d] = @ + 1]
      BY <2>6 DEF Load
    <3>2. d = t.d /\ attempts'[d] = attempts[d] + 1
      BY <2>3, <2>6, <3>1
    <3> DEFINE x == <<t.no, t.retries>>
    <3>3. x \in new \ Used(d)
      BY <2>6, <3>2, <1>1, LoadSpends DEF new
    <3> HIDE DEF x
    <3>4. /\ IsFiniteSet(Used(d) \cup {x})
          /\ Cardinality(Used(d) \cup {x}) = Cardinality(Used(d)) + 1
      BY <2>1, <3>3, FS_AddElement
    <3>5. Used(d) \cup {x} \in SUBSET new
      BY <2>2, <3>3
    <3>6. Cardinality(Used(d) \cup {x}) <= Cardinality(new)
      BY <2>1, <3>5, FS_Subset
    <3> QED
      BY <2>1, <2>3, <3>2, <3>4, <3>6
  <2> QED
    BY <2>5, <2>6, AttemptStep DEF new
<1> QED
  BY <1>3, <1>4, <1>5 DEF Budgeted

\* The third, on top of the second.
THEOREM BudgetedAlways == Spec => [](Single /\ Budgeted)
<1>1. Init => Single /\ Budgeted
  <2>1. ASSUME Init
        PROVE  Single /\ Budgeted
    <3>1. Single /\ TypeOK
      BY <2>1, InitSingle, DeliveryAssumption DEF Single, Tracked
    <3>2. \A d \in Deliveries : Cardinality(Used(d)) \in Nat /\ attempts[d] = 0
      <4>1. \A d \in Deliveries :
              /\ triggers[d] \in Nat
              /\ Used(d) \in SUBSET ((1..triggers[d]) \X (0..MaxRetries))
        BY <3>1 DEF TypeOK, Used
      <4> QED
        BY <2>1, <4>1, UsedFinite, DeliveryAssumption DEF Init
    <3>3. \A d \in Deliveries : attempts[d] <= Cardinality(Used(d))
      BY <3>2
    <3> QED
      BY <2>1, <3>1, <3>3 DEF Init, Budgeted
  <2> QED
    BY <2>1
<1>2. Single /\ Single' /\ Budgeted /\ [Next]_vars => Budgeted'
  BY BudgetedStep, DeliveryAssumption
<1> QED
  BY <1>1, <1>2, SingleAlways, PTL DEF Spec

\* However often its task fails, a trigger makes max_retries + 1 attempts at most
\* (handle_webhook_retry).
THEOREM AttemptsBoundedAlways == Spec => []AttemptsBounded
<1>1. Single /\ Budgeted => AttemptsBounded
  <2>1. ASSUME Single, Budgeted, NEW d \in Deliveries
        PROVE  attempts[d] <= (MaxRetries + 1) * triggers[d]
    <3>1. TypeOK /\ attempts[d] <= Cardinality(Used(d))
      BY <2>1 DEF Single, Tracked, Budgeted
    <3>2. /\ attempts[d] \in Nat /\ triggers[d] \in Nat /\ MaxRetries \in Nat
          /\ Cardinality(Used(d)) \in Nat
          /\ Cardinality(Used(d)) <= (MaxRetries + 1) * triggers[d]
      <4>1. /\ attempts[d] \in Nat /\ triggers[d] \in Nat /\ MaxRetries \in Nat
            /\ Used(d) \in SUBSET ((1..triggers[d]) \X (0..MaxRetries))
        BY <3>1, DeliveryAssumption DEF TypeOK, Used, DeliveryAssumption
      <4> QED
        BY <4>1, UsedFinite, DeliveryAssumption
    <3>3. (MaxRetries + 1) * triggers[d] \in Nat
      BY <3>2
    <3> QED
      BY <3>1, <3>2, <3>3
  <2> QED
    BY <2>1 DEF AttemptsBounded
<1> QED
  BY <1>1, BudgetedAlways, PTL
=============================================================================
