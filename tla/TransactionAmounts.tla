------------------------- MODULE TransactionAmounts -------------------------
(***************************************************************************)
(* The amounts of one TransactionItem: saleor/payment/                     *)
(* transaction_item_calculations.py, the mutations transactionEventReport, *)
(* transactionRequestAction, transactionUpdate and transactionProcess, and *)
(* the answers of the payment app that saleor/payment/utils.py stores.     *)
(*                                                                         *)
(* A payment app tells Saleor about events; the transaction's amounts are  *)
(* columns recomputed from the events.  No lock spans the steps of a       *)
(* mutation: looking for an event that exists already, inserting the new   *)
(* one, reading all events and saving the amounts are separate actions.    *)
(* (The existing event is looked up with select_for_update, which locks    *)
(* nothing when there is none.)                                            *)
(*                                                                         *)
(* The types of events that move amounts are pairs, CHARGE_BACK being      *)
(* <<"charge", "back">>.  Time is the order of created_at, which differs   *)
(* between any two events of one action.  INFO and ACTION_REQUIRED events, *)
(* metadata and the orders and checkouts that follow the amounts are left  *)
(* out.                                                                    *)
(***************************************************************************)
EXTENDS Quantities, Sequences, FiniteSetsExt

CONSTANTS
  Refs, NoRef,   \* psp references, and having none
  Amounts,       \* amounts that apps and staff may name
  Reports,       \* types of events that apps report
  Requests,      \* actions that transactionRequestAction is called with
  Updates,       \* amounts that transactionUpdate is called with
  Sessions,      \* actions a session may begin with, or result in
  Late,          \* whether a report may name an earlier time
  Workers,
  MaxCalls,      \* bound on the number of calls
  MaxCrowded     \* bound on the calls that may begin beside another worker

Actions == {"authorization", "charge", "refund", "cancel"}

Types == Actions \X {"request", "success", "failure"} \cup
         {<<"authorization", "adjustment">>, <<"charge", "back">>,
          <<"refund", "reverse">>}

ASSUME TransactionAssumption ==
  /\ NoRef \notin Refs
  /\ Amounts \subseteq Nat
  /\ Reports \subseteq Types
  /\ Requests \subseteq {"charge", "refund", "cancel"}
  /\ Updates \subseteq Actions
  /\ Sessions \subseteq {"authorization", "charge"}
  /\ Late \in BOOLEAN
  /\ MaxCalls \in Nat /\ MaxCrowded \in Nat

VARIABLES
  events,   \* the TransactionEvent rows
  amounts,  \* the amount columns: done and pending, by action
  sent,     \* keys of the requests whose webhook task has not been answered
  proc,     \* what each worker is doing
  raced,    \* history: two workers had this transaction at a time
  known,    \* history: reports that were answered with alreadyProcessed
  unsettled, \* history: a request counts, and its refused answer saved no amounts
  calls

vars == <<events, amounts, sent, proc, raced, known, unsettled, calls>>

Idle == [at |-> "idle"]

Event(action, result, ref, amount) ==
  [action |-> action, result |-> result, ref |-> ref, amount |-> amount,
   pk |-> 0, at |-> 0, counted |-> TRUE]

\* The row of an event that is stored now, and of one that is said to have
\* happened earlier: its primary key and its created_at.
NextKey == Cardinality(events) + 1
Stored(e) == [e EXCEPT !.pk = NextKey, !.at = 2 * NextKey]
StoredLate(e) ==
  {[e EXCEPT !.pk = NextKey, !.at = n] :
     n \in {m \in 1 .. 2 * NextKey : m % 2 = 1} \ {f.at : f \in events}}

-----------------------------------------------------------------------------
(* recalculate_transaction_amounts.                                        *)

Sum(evs) == MapThenSumSet(LAMBDA e : e.amount, evs)

\* The newest event, as the set of it.
Newest(evs) == {e \in evs : \A f \in evs : f.at <= e.at}

\* _get_authorize_events: the newest adjustment hides older authorizations.
Relevant(evs) ==
  LET counted == {e \in evs : e.counted}
      adjustment == Newest({e \in counted : e.result = "adjustment"})
  IN  {e \in counted : e.action = "authorization" =>
                         \A a \in adjustment : e.at >= a.at}

\* The one event kept for a type and a psp reference, as the set of it.
Role(evs, type, ref) ==
  Newest({e \in evs : <<e.action, e.result>> = type /\ e.ref = ref})

EachRole(evs, type) == UNION {Role(evs, type, ref) : ref \in Refs}

\* (mutant) a request that has failed stays pending.
Pending_failed(evs, action) ==
  UNION {Role(evs, <<action, "request">>, ref) :
           ref \in {r \in Refs : Role(evs, <<action, "success">>, r) = {}}}

\* Requests that have neither succeeded nor failed.
Pending(evs, action) ==
  UNION {Role(evs, <<action, "request">>, ref) :
           ref \in {r \in Refs : /\ Role(evs, <<action, "success">>, r) = {}
                                 /\ Role(evs, <<action, "failure">>, r) = {}}}

\* Successes that no later failure took back.
Done(evs, action) ==
  UNION {{s \in Role(evs, <<action, "success">>, ref) :
            \A f \in Role(evs, <<action, "failure">>, ref) : s.at > f.at} :
           ref \in Refs}

\* Events without a reference are added one by one.
Manual(evs, type) ==
  Sum({e \in evs : <<e.action, e.result>> = type /\ e.ref = NoRef})

(***************************************************************************)
(* The amounts before the last two are cut at zero.  An event with a       *)
(* reference moves its amount out of where it was before: a charge or a    *)
(* cancellation out of the authorization, a refund out of the charge.  An  *)
(* adjustment with a reference overwrites even the authorizations without  *)
(* one that are newer, since those are added first.                        *)
(***************************************************************************)
AmountsOf(evs) ==
  LET adjusted == EachRole(evs, <<"authorization", "adjustment">>)
      opening == IF adjusted # {} THEN Sum(adjusted)
                 ELSE Manual(evs, <<"authorization", "adjustment">>)
                      + Manual(evs, <<"authorization", "success">>)
      pending == [a \in Actions |-> Sum(Pending(evs, a))]
      done == [a \in Actions |-> Sum(Done(evs, a))]
      backs == Sum(EachRole(evs, <<"charge", "back">>))
      reverses == Sum(EachRole(evs, <<"refund", "reverse">>))
      left(a) == pending[a] + done[a]
  IN  [pending |-> pending,
       done |-> [done EXCEPT
         !["authorization"] = @ + opening - left("charge") - left("cancel"),
         !["charge"] = @ + Manual(evs, <<"charge", "success">>)
                         - Manual(evs, <<"charge", "back">>)
                         + Manual(evs, <<"refund", "reverse">>)
                         - backs + reverses - left("refund"),
         !["refund"] = @ + Manual(evs, <<"refund", "success">>) - reverses,
         !["cancel"] = @ + Manual(evs, <<"cancel", "success">>)]]

Calculated(all) == AmountsOf(Relevant(all))

\* (mutant) an authorization that is overdrawn is not cut at zero.
Recalculated_uncut(all) == Calculated(all)

Recalculated(all) ==
  LET c == Calculated(all)
  IN  [pending |-> [c.pending EXCEPT !["authorization"] = Positive(@)],
       done |-> [c.done EXCEPT !["authorization"] = Positive(@)]]

-----------------------------------------------------------------------------
(* Storing an event once.                                                  *)

\* get_already_existing_event, as the set of it; whether it counts is not asked.
Existing(e) ==
  LET same == {f \in events : /\ f.action = e.action /\ f.result = e.result
                              /\ f.ref = e.ref}
  IN  {f \in same : \A g \in same : f.pk <= g.pk}

AuthorizationExists == \E f \in events :
  f.action = "authorization" /\ f.result = "success"

Repeated(e) == \E f \in Existing(e) : f.amount = e.amount

\* deduplicate_event: the same action has been reported with another amount,
\* or the transaction has been authorized before.
Rejected(e) ==
  IF Existing(e) # {} THEN ~Repeated(e)
  ELSE <<e.action, e.result>> = <<"authorization", "success">> /\ AuthorizationExists

\* create_failed_transaction_event: a failure that is only a record.
Refuse(e) ==
  events' = events \cup {Stored([e EXCEPT !.result = "failure", !.counted = FALSE])}

\* The events after the requests qs were given a reference.
Referring(qs, ref) ==
  {IF \E q \in qs : q.pk = e.pk THEN [e EXCEPT !.ref = ref] ELSE e : e \in events}

Become(w, job) == proc' = [proc EXCEPT ![w] = job]

Calculate(target) == [at |-> "calculating", target |-> target]
NoTarget == [a \in {} |-> 0]

\* A worker begins to serve a call.
Begin(w) ==
  /\ proc[w] = Idle
  /\ calls < MaxCrowded \/ \A v \in Workers : proc[v] = Idle
  /\ raced' = (raced \/ \E v \in Workers \ {w} : proc[v] # Idle)

-----------------------------------------------------------------------------
(* transactionEventReport.                                                 *)

\* (mutant) an authorization that was reported already is not looked for.
Report_again(w, e) ==
  /\ Begin(w)
  /\ known' = IF Repeated(e) THEN known \cup {<<e.action, e.result, e.ref>>} ELSE known
  /\ \/ Repeated(e) /\ UNCHANGED <<events, proc>>
     \/ Existing(e) # {} /\ Rejected(e) /\ Refuse(e) /\ UNCHANGED proc
     \/ /\ Existing(e) = {}
        /\ Become(w, [at |-> "inserting", event |-> e, source |-> "report",
                      request |-> {}])
        /\ UNCHANGED events
  /\ UNCHANGED <<amounts, sent>>

\* The event is looked up: it is known, or refused, or to be stored.
Report(w, e) ==
  /\ Begin(w)
  /\ known' = IF Repeated(e) THEN known \cup {<<e.action, e.result, e.ref>>} ELSE known
  /\ \/ Repeated(e) /\ UNCHANGED <<events, proc>>
     \/ Rejected(e) /\ Refuse(e) /\ UNCHANGED proc
     \/ /\ ~Repeated(e) /\ ~Rejected(e)
        /\ Become(w, [at |-> "inserting", event |-> e, source |-> "report",
                      request |-> {}])
        /\ UNCHANGED events
  /\ UNCHANGED <<amounts, sent>>

\* (mutant) only the answers that succeed are followed by a recalculation.
InsertEvent_failure(w) ==
  LET job == proc[w]
  IN  /\ job.at = "inserting"
      /\ \E e \in {Stored(job.event)} \cup (IF Late THEN StoredLate(job.event) ELSE {}) :
           events' = Referring(job.request, job.event.ref) \cup {e}
      /\ Become(w, IF job.event.result = "failure" THEN Idle ELSE Calculate(NoTarget))
      /\ UNCHANGED <<amounts, sent>>

\* The event is stored.  A session passes its reference on to the request
\* that began it, and is not followed by a recalculation when it failed.
InsertEvent(w) ==
  LET job == proc[w]
  IN  /\ job.at = "inserting"
      /\ \E e \in {Stored(job.event)} \cup (IF Late THEN StoredLate(job.event) ELSE {}) :
           events' = Referring(job.request, job.event.ref) \cup {e}
      /\ Become(w, IF job.source = "session" /\ job.event.result = "failure"
                   THEN Idle ELSE Calculate(NoTarget))
      /\ UNCHANGED <<amounts, sent>>

\* The amounts are calculated from the events as they are now,
ReadEvents(w) ==
  /\ proc[w].at = "calculating"
  /\ Become(w, [at |-> "saving", amounts |-> Recalculated(events),
                target |-> proc[w].target])
  /\ UNCHANGED <<events, amounts, sent>>

\* and saved.
SaveAmounts(w) ==
  /\ proc[w].at = "saving"
  /\ amounts' = proc[w].amounts
  /\ Become(w, Idle)
  /\ UNCHANGED <<events, sent>>

-----------------------------------------------------------------------------
(* transactionRequestAction and the answer to its webhook.                 *)

\* The request is stored but does not count yet.
RequestAction(action, n) ==
  LET limit == IF action = "charge" THEN amounts.done["authorization"]
                                    ELSE amounts.done["charge"]
      amount == IF action = "cancel" THEN 0
                ELSE IF n \in 1 .. limit - 1 THEN n ELSE limit
      request == Stored([Event(action, "request", NoRef, amount) EXCEPT
                           !.counted = FALSE])
  IN  /\ events' = events \cup {request}
      /\ sent' = sent \cup {request.pk}
      /\ UNCHANGED <<amounts, proc, raced>>

\* No answer, or one that cannot be read.  The retries of the task that come
\* before, and a task that is lost, change nothing.
AnswerLost(q) ==
  /\ Refuse(q)
  /\ sent' = sent \ {q.pk}
  /\ UNCHANGED <<amounts, proc, raced>>

\* The app takes the request over, and may answer it at once.
AnswerRequest(w, q, ref, result, n) ==
  /\ Begin(w)
  /\ result # "failure" => ref # NoRef
  /\ events' = (events \ {q}) \cup {[q EXCEPT !.ref = ref, !.counted = TRUE]}
  /\ sent' = sent \ {q.pk}
  /\ IF result = "none" THEN Become(w, Calculate(NoTarget))
     ELSE Become(w, [at |-> "answering", event |-> Event(q.action, result, ref, n),
                     request |-> {[q EXCEPT !.ref = ref]}])
  /\ UNCHANGED amounts

\* _create_event_from_response.  When the event is refused the amounts are
\* not calculated, although the request counts from now on.
LookUpAnswer(w) ==
  LET job == proc[w]
  IN  /\ job.at = "answering"
      /\ \/ Repeated(job.event) /\ Become(w, Calculate(NoTarget)) /\ UNCHANGED events
         \/ /\ Rejected(job.event) /\ Become(w, Idle)
            /\ \E q \in job.request : Refuse(q)
         \/ /\ ~Repeated(job.event) /\ ~Rejected(job.event)
            /\ Become(w, [at |-> "inserting", event |-> job.event,
                          source |-> "request", request |-> {}])
            /\ UNCHANGED events
      /\ UNCHANGED <<amounts, sent>>

-----------------------------------------------------------------------------
(* transactionProcess: a step of the session that transactionInitialize    *)
(* opened with a request event that does not count.                        *)

Final(e) == /\ e.action \in {"authorization", "charge"}
            /\ e.result \in {"request", "success", "failure"}

\* The request the session is about, unless its outcome is known already.
ProcessSession(w) ==
  LET open == {e \in events : e.result = "request" /\ Final(e) /\ ~e.counted}
  IN  /\ Begin(w)
      /\ \A e \in events : ~(Final(e) /\ e.counted)
      /\ \E q \in open : /\ \A r \in open : q.pk <= r.pk
                         /\ Become(w, [at |-> "processing", request |-> {q}])
      /\ UNCHANGED <<events, amounts, sent>>

\* The app did not answer, or answered nonsense.
SessionUnanswered(w) ==
  /\ proc[w].at = "processing"
  /\ \E q \in proc[w].request : Refuse(q)
  /\ Become(w, Idle)
  /\ UNCHANGED <<amounts, sent>>

\* The app has asked for the money: the request counts, as the app states it.
SessionPending(w, action, ref, n) ==
  /\ proc[w].at = "processing" /\ ref # NoRef
  /\ \E q \in proc[w].request :
       events' = {e \in events : e.pk # q.pk}
         \cup {[Event(action, "request", ref, n) EXCEPT !.pk = q.pk, !.at = q.at]}
  /\ Become(w, Calculate(NoTarget))
  /\ UNCHANGED <<amounts, sent>>

\* The app has the money, or will not get it.
SessionAnswered(w, action, result, ref, n) ==
  LET e == Event(action, result, ref, n)
  IN  /\ proc[w].at = "processing"
      /\ result # "failure" => ref # NoRef
      /\ \/ /\ Rejected(e) /\ Become(w, Idle)
            /\ \E q \in proc[w].request : Refuse(q)
         \/ /\ Repeated(e)
            /\ events' = Referring(proc[w].request, ref)
            /\ Become(w, IF result = "failure" THEN Idle ELSE Calculate(NoTarget))
         \/ /\ ~Repeated(e) /\ ~Rejected(e)
            /\ Become(w, [at |-> "inserting", event |-> e, source |-> "session",
                          request |-> proc[w].request])
            /\ UNCHANGED events
      /\ UNCHANGED <<amounts, sent>>

-----------------------------------------------------------------------------
(* transactionUpdate.                                                      *)

\* (mutant) the new amount is stored instead of the difference.
Adjustment_whole(a, n, current) == <<Event(a, "success", NoRef, n)>>

\* create_manual_adjustment_events: the event, or none, that takes amount a
\* from its current value to n.  A transaction that has been authorized is
\* adjusted, by the whole amount.
Adjustment(a, n, current) ==
  IF n = current THEN <<>>
  ELSE IF a = "authorization" /\ AuthorizationExists
  THEN <<Event(a, "adjustment", NoRef, n)>>
  ELSE <<Event(a, "success", NoRef, n - current)>>

\* The adjusting events are made from the amounts of the events so far,
UpdateTransaction(w, target) ==
  LET current == Calculated(events).done
      For(a) == IF a \in DOMAIN target THEN Adjustment(a, target[a], current[a])
                                       ELSE <<>>
  IN  /\ Begin(w)
      /\ Become(w, [at |-> "adjusting", target |-> target,
                    adjustments |-> For("authorization") \o For("charge")
                                    \o For("refund") \o For("cancel")])
      /\ UNCHANGED <<events, amounts, sent>>

\* and stored together.
InsertAdjustments(w) ==
  LET new == proc[w].adjustments
      key(i) == Cardinality(events) + i
  IN  /\ proc[w].at = "adjusting"
      /\ events' = events \cup
           {[new[i] EXCEPT !.pk = key(i), !.at = 2 * key(i)] : i \in DOMAIN new}
      /\ Become(w, Calculate(proc[w].target))
      /\ UNCHANGED <<amounts, sent>>

-----------------------------------------------------------------------------
(* The specification.                                                      *)

Zero == [pending |-> [a \in Actions |-> 0], done |-> [a \in Actions |-> 0]]

\* The request that transactionInitialize stored; it does not count yet.
Opened(a, n) == [Event(a, "request", NoRef, n) EXCEPT !.pk = 1, !.at = 2, !.counted = FALSE]

\* A transaction that the app created, or one that transactionInitialize did.
Init ==
  /\ events \in {{}} \cup {{Opened(a, n)} : a \in Sessions, n \in Amounts}
  /\ amounts = Zero
  /\ sent = {}
  /\ proc = [w \in Workers |-> Idle]
  /\ raced = FALSE
  /\ known = {}
  /\ unsettled = FALSE
  /\ calls = 0

Call == calls < MaxCalls /\ calls' = calls + 1

ReportCall ==
  /\ Call /\ UNCHANGED unsettled
  /\ \E w \in Workers, type \in Reports, ref \in Refs, n \in Amounts :
       Report(w, Event(type[1], type[2], ref, n))

RequestCall ==
  /\ Call /\ UNCHANGED <<known, unsettled>>
  /\ \E action \in Requests, n \in Amounts : RequestAction(action, n)

AnswerCall ==
  /\ Call /\ UNCHANGED <<known, unsettled>>
  /\ \E q \in {e \in events : e.pk \in sent} :
       \/ AnswerLost(q)
       \/ \E w \in Workers, ref \in Refs \cup {NoRef},
             result \in {"none", "success", "failure"}, n \in Amounts :
            AnswerRequest(w, q, ref, result, n)

SessionCall ==
  Call /\ UNCHANGED <<known, unsettled>> /\ \E w \in Workers : ProcessSession(w)

UpdateCall ==
  /\ Call /\ UNCHANGED <<known, unsettled>>
  /\ \E w \in Workers, which \in SUBSET Updates \ {{}} :
       \E target \in [which -> Amounts] : UpdateTransaction(w, target)

SessionStep(w) ==
  \/ SessionUnanswered(w)
  \/ \E action \in Sessions, ref \in Refs \cup {NoRef}, n \in Amounts :
       \/ SessionPending(w, action, ref, n)
       \/ \E result \in {"success", "failure"} : SessionAnswered(w, action, result, ref, n)

\* A refused answer returns before the amounts are calculated.  They are those
\* of the events all the same if the outcome of the request counts already and
\* the request did not.
LeavesUnsettled(w) ==
  /\ proc[w].at = "answering" /\ Rejected(proc[w].event)
  /\ \/ \E q \in proc[w].request : q.counted
     \/ \A e \in Existing(proc[w].event) : ~e.counted

Step(w) ==
  /\ unsettled' = (proc[w].at # "saving" /\ (unsettled \/ LeavesUnsettled(w)))
  /\ \/ InsertEvent(w) \/ ReadEvents(w) \/ SaveAmounts(w)
     \/ LookUpAnswer(w) \/ SessionStep(w) \/ InsertAdjustments(w)
  /\ UNCHANGED <<raced, known, calls>>

Next ==
  \/ ReportCall \/ RequestCall \/ AnswerCall \/ SessionCall \/ UpdateCall
  \/ \E w \in Workers : Step(w)

Spec == Init /\ [][Next]_vars

-----------------------------------------------------------------------------
(* Properties.                                                             *)

Events == [action : Actions,
           result : {"request", "success", "failure", "adjustment", "back", "reverse"},
           ref : Refs \cup {NoRef}, amount : Int, pk : Nat, at : Nat,
           counted : BOOLEAN]

AmountColumns == [pending : [Actions -> Int], done : [Actions -> Int]]

\* Every column stays in its type, and the two amounts that
\* recalculate_transaction_amounts cuts at zero are never negative.
TypeOK ==
  /\ events \subseteq Events
  /\ \A e, f \in events : e.pk = f.pk => e = f
  /\ amounts \in AmountColumns
  /\ amounts.done["authorization"] >= 0 /\ amounts.pending["authorization"] >= 0
  /\ sent \subseteq {e.pk : e \in events}
  /\ raced \in BOOLEAN /\ unsettled \in BOOLEAN /\ calls \in Nat
  /\ known \subseteq {<<t[1], t[2], ref>> : t \in Types, ref \in Refs}

\* Nobody works on the transaction, no two workers ever did at a time (the
\* older calculation may be saved last), and no answer was refused since the
\* amounts were saved that left its request counting all the same.
Quiet == ~raced /\ ~unsettled /\ \A w \in Workers : proc[w] = Idle

\* recalculate_transaction_amounts, "the amounts that are stored in
\* transaction's events": when nobody works on the transaction, its amounts
\* are those of its events, whichever way each of the events came in, also
\* after the failed sessions and the refused reports and answers that return
\* before the recalculation.
AmountsFollowEventsAlone == Quiet => amounts = Recalculated(events)

Reported(e) == e.counted /\ e.ref # NoRef /\ e.result # "request"

\* transactionEventReport: "we will always create a single event on our side
\* for specific action".  Not so when two workers have the transaction (see
\* the README), hence ReportedOnceAlone.
SingleEvent ==
  \A e, f \in events :
    /\ Reported(e) /\ Reported(f) /\ e.ref = f.ref
    /\ e.action = f.action /\ e.result = f.result
    => e = f

\* Alone, also over different psp references: one authorization at most.
ReportedOnceAlone ==
  ~raced =>
    /\ SingleEvent
    /\ \A e, f \in events :
         /\ e.action = "authorization" /\ f.action = "authorization"
         /\ e.result = "success" /\ f.result = "success"
         => e = f

\* An amount is pending only while the app owes an outcome: some request that
\* the app took over has neither succeeded nor failed, in whatever order the
\* request and the outcome came in.  (An adjustment of the authorization hides
\* the older authorizations, their outcomes included: hence Relevant.)
PendingIsOpen ==
  Quiet =>
    \A a \in Actions :
      amounts.pending[a] > 0 =>
        \E q \in events :
          /\ q.action = a /\ q.result = "request" /\ q.counted
          /\ \A e \in Relevant(events) : e.action = a /\ e.ref = q.ref =>
                                          e.result \notin {"success", "failure"}

\* create_manual_adjustment_events, "to properly match the amounts":
\* transactionUpdate sets the charged, refunded and canceled amounts it is
\* called with, after any reports, unless another worker had the transaction
\* too.  (It may miss the authorized amount: that adjustment is by the whole
\* amount, from which the charges that were reported with a reference are then
\* subtracted.)
UpdateSetsAmounts ==
  [][\A w \in Workers :
       proc[w].at = "saving" /\ proc'[w] = Idle /\ ~raced =>
         \A a \in DOMAIN proc[w].target \ {"authorization"} :
           amounts'.done[a] = proc[w].target[a]]_vars

\* No run checks this one: a refused report leaves a record that the real
\* event is later mistaken for (see the README).
\* transactionEventReport, "if alreadyProcessed is set to true, the previously
\* processed event will be returned": what the app was told is processed was
\* taken into account.
KnownCounts ==
  \A k \in known : \E e \in events :
    k = <<e.action, e.result, e.ref>> /\ e.counted

=============================================================================
