---------------------- MODULE TransactionAmountsProofs ----------------------
(***************************************************************************)
(* What a transaction's events and amounts keep true, for any references,  *)
(* amounts, workers and number of calls.                                   *)
(*                                                                         *)
(* The invariant has six parts: Tables says how events are keyed and what  *)
(* workers have in hand; Alone, that without a race at most one worker is  *)
(* busy; Once, that what it is about to store has not been stored before;  *)
(* Settled, what it relies on so that the amounts are right when it has    *)
(* finished; Ints, that amounts are integers; and Aimed, that              *)
(* transactionUpdate is on its way to its target.  Once and Settled need   *)
(* of the sums only what they are over; Ints and Aimed need their values.  *)
(***************************************************************************)
EXTENDS TransactionAmounts, QuantitiesProofs

Results == {"request", "success", "failure", "adjustment", "back", "reverse"}

\* Nothing is said of the amount of an event.
IsRow(e) ==
  e \in [action : Actions, result : Results, ref : Refs \cup {NoRef},
         amount : {e.amount}, pk : Nat, at : Nat, counted : BOOLEAN]

\* The rows in S have the keys from 1 to n, each of them once, and the times
\* that go with them.
KeyedUpTo(S, n) ==
  /\ \A e \in S : IsRow(e) /\ e.pk \in 1 .. n /\ e.at <= 2 * n
  /\ \A e, f \in S : e.pk = f.pk => e = f
  /\ \A i \in 1 .. n : \E e \in S : e.pk = i

\* There are as many rows as keys.
LEMMA KeysCount ==
  ASSUME NEW S, NEW n \in Nat, KeyedUpTo(S, n)
  PROVE  IsFiniteSet(S) /\ Cardinality(S) = n
<1> DEFINE key == [e \in S |-> e.pk]
           keys == 1 .. n
<1>1. key \in Injection(S, keys)
  BY DEF Injection, IsInjective, KeyedUpTo
<1>2. key \in Surjection(S, keys)
  BY DEF Surjection, KeyedUpTo
<1>3. IsFiniteSet(keys) /\ Cardinality(keys) = n
  BY FS_Interval
<1> HIDE DEF key, keys
<1> QED
  BY <1>1, <1>2, <1>3, FS_Injection

\* Some event of a table is the newest.
LEMMA NewestExists ==
  ASSUME NEW S, NEW n \in Nat, KeyedUpTo(S, n), NEW T \in SUBSET S, T # {}
  PROVE  Newest(T) # {}
<1> DEFINE ages == {2 * n - e.at : e \in T}
<1>0. \A e \in T : e.at \in Nat /\ e.at <= 2 * n
  BY DEF KeyedUpTo, IsRow
<1>1. ages \in SUBSET Nat /\ ages # {}
  BY <1>0
<1>2. PICK x \in ages : \A y \in ages : x <= y
  <2> HIDE DEF ages
  <2> QED BY <1>1, LeastElement
<1>3. PICK e \in T : x = 2 * n - e.at
  BY <1>2
<1>4. ASSUME NEW f \in T PROVE f.at <= e.at
  <2>1. x <= 2 * n - f.at
    BY <1>2
  <2> QED BY <2>1, <1>0, <1>3
<1> QED
  BY <1>4 DEF Newest

\* get_already_existing_event finds an event if there is one.
LEMMA ExistingFound ==
  ASSUME NEW n \in Nat, KeyedUpTo(events, n), NEW e, Existing(e) = {}
  PROVE  \A f \in events : ~(f.action = e.action /\ f.result = e.result /\ f.ref = e.ref)
<1> DEFINE same == {f \in events : /\ f.action = e.action /\ f.result = e.result
                                   /\ f.ref = e.ref}
           keys == {f.pk : f \in same}
<1>1. SUFFICES ASSUME same # {} PROVE FALSE
  OBVIOUS
<1>2. keys \in SUBSET Nat /\ keys # {}
  BY <1>1 DEF KeyedUpTo, IsRow
<1>3. PICK x \in keys : \A y \in keys : x <= y
  <2> HIDE DEF keys
  <2> QED BY <1>2, LeastElement
<1>4. PICK f \in same : x = f.pk
  BY <1>3
<1>5. \A g \in same : f.pk <= g.pk
  BY <1>3, <1>4
<1>6. f \in Existing(e)
  BY <1>4, <1>5 DEF Existing
<1> QED
  BY <1>6

-----------------------------------------------------------------------------
(* What amounts are made of.                                               *)

CountedIn(S) == {e \in S : e.counted}

\* Only events that count make amounts.
LEMMA SameCounted ==
  ASSUME NEW S, NEW T, CountedIn(S) = CountedIn(T)
  PROVE  Recalculated(S) = Recalculated(T)
<1>1. Relevant(S) = Relevant(T)
  BY DEF Relevant, CountedIn
<1> QED
  BY <1>1 DEF Recalculated, Calculated

\* Amounts are the same when each sum is over the same events.
LEMMA SameSums ==
  ASSUME NEW R, NEW Q,
         \A a \in Actions : Pending(R, a) = Pending(Q, a) /\ Done(R, a) = Done(Q, a),
         \A t : t[2] \notin {"request", "failure"} => EachRole(R, t) = EachRole(Q, t),
         \A t : t[2] # "request" /\ t[2] # "failure" => Manual(R, t) = Manual(Q, t)
  PROVE  AmountsOf(R) = AmountsOf(Q)
<1>1. [a \in Actions |-> Sum(Pending(R, a))] = [a \in Actions |-> Sum(Pending(Q, a))]
  OBVIOUS
<1>2. [a \in Actions |-> Sum(Done(R, a))] = [a \in Actions |-> Sum(Done(Q, a))]
  OBVIOUS
<1>3. /\ EachRole(R, <<"authorization", "adjustment">>) = EachRole(Q, <<"authorization", "adjustment">>)
      /\ EachRole(R, <<"charge", "back">>) = EachRole(Q, <<"charge", "back">>)
      /\ EachRole(R, <<"refund", "reverse">>) = EachRole(Q, <<"refund", "reverse">>)
  OBVIOUS
<1>4. /\ Manual(R, <<"authorization", "adjustment">>) = Manual(Q, <<"authorization", "adjustment">>)
      /\ Manual(R, <<"charge", "back">>) = Manual(Q, <<"charge", "back">>)
      /\ Manual(R, <<"refund", "reverse">>) = Manual(Q, <<"refund", "reverse">>)
  OBVIOUS
<1>5. \A a \in Actions : Manual(R, <<a, "success">>) = Manual(Q, <<a, "success">>)
  OBVIOUS
<1>6. /\ Manual(R, <<"authorization", "success">>) = Manual(Q, <<"authorization", "success">>)
      /\ Manual(R, <<"charge", "success">>) = Manual(Q, <<"charge", "success">>)
      /\ Manual(R, <<"refund", "success">>) = Manual(Q, <<"refund", "success">>)
      /\ Manual(R, <<"cancel", "success">>) = Manual(Q, <<"cancel", "success">>)
  BY <1>5 DEF Actions
<1> QED
  BY <1>1, <1>2, <1>3, <1>4, <1>6, Zenon DEF AmountsOf

\* A request whose outcome counts already adds nothing.
LEMMA OutcomeKnown ==
  ASSUME NEW S, NEW n \in Nat, KeyedUpTo(S, n),
         NEW q \in S, q.result = "request", q.action # "authorization",
         NEW e \in S, e.counted, e.result \in {"success", "failure"},
         e.action = q.action, e.ref = q.ref
  PROVE  Recalculated(S \ {q}) = Recalculated(S)
<1> DEFINE R == Relevant(S)
           Q == Relevant(S \ {q})
           type == <<q.action, "request">>
<1>1. Q = R \ {q}
  <2>1. {f \in S \ {q} : f.counted /\ f.result = "adjustment"}
          = {f \in S : f.counted /\ f.result = "adjustment"}
    OBVIOUS
  <2>2. {f \in {g \in S \ {q} : g.counted} : f.result = "adjustment"}
          = {f \in {g \in S : g.counted} : f.result = "adjustment"}
    OBVIOUS
  <2> QED
    BY <2>2 DEF Relevant
<1>2. e \in R /\ R \subseteq S
  BY DEF Relevant
<1> HIDE DEF R, Q
<1>3. \A t, ref : t # type \/ ref # q.ref => Role(Q, t, ref) = Role(R, t, ref)
  <2>1. SUFFICES ASSUME NEW t, NEW ref, t # type \/ ref # q.ref
                 PROVE  Role(Q, t, ref) = Role(R, t, ref)
    OBVIOUS
  <2>2. {f \in Q : <<f.action, f.result>> = t /\ f.ref = ref}
          = {f \in R : <<f.action, f.result>> = t /\ f.ref = ref}
    BY <1>1, <2>1
  <2> QED
    BY <2>2 DEF Role
<1>4. \/ Role(R, <<q.action, "success">>, q.ref) # {}
      \/ Role(R, <<q.action, "failure">>, q.ref) # {}
  <2> DEFINE T == {f \in R : <<f.action, f.result>> = <<e.action, e.result>> /\ f.ref = e.ref}
  <2>1. T \in SUBSET S /\ T # {}
    BY <1>2
  <2>2. Newest(T) # {}
    <3> HIDE DEF T
    <3> QED BY <2>1, NewestExists
  <2>3. Role(R, <<e.action, e.result>>, e.ref) # {}
    BY <2>2 DEF Role
  <2> QED
    BY <2>3
<1>5. ASSUME NEW a \in Actions
      PROVE  Pending(R, a) = Pending(Q, a) /\ Done(R, a) = Done(Q, a)
  <2>1. \A ref : /\ Role(Q, <<a, "success">>, ref) = Role(R, <<a, "success">>, ref)
                 /\ Role(Q, <<a, "failure">>, ref) = Role(R, <<a, "failure">>, ref)
    BY <1>3
  <2>2. Done(R, a) = Done(Q, a)
    BY <2>1 DEF Done
  <2> DEFINE open == {r \in Refs : /\ Role(R, <<a, "success">>, r) = {}
                                   /\ Role(R, <<a, "failure">>, r) = {}}
  <2>3. \A ref \in open : Role(Q, <<a, "request">>, ref) = Role(R, <<a, "request">>, ref)
    BY <1>3, <1>4
  <2>4. /\ Pending(R, a) = UNION {Role(R, <<a, "request">>, ref) : ref \in open}
        /\ Pending(Q, a) = UNION {Role(Q, <<a, "request">>, ref) : ref \in open}
    BY <2>1 DEF Pending
  <2>5. Pending(R, a) = Pending(Q, a)
    <3> HIDE DEF open
    <3> QED BY <2>3, <2>4
  <2> QED
    BY <2>2, <2>5
<1>6. ASSUME NEW t, t[2] \notin {"request", "failure"}
      PROVE  EachRole(R, t) = EachRole(Q, t) /\ Manual(R, t) = Manual(Q, t)
  <2>1. t # type
    BY <1>6
  <2>2. \A ref : Role(Q, t, ref) = Role(R, t, ref)
    BY <1>3, <2>1
  <2>3. {f \in Q : <<f.action, f.result>> = t /\ f.ref = NoRef}
          = {f \in R : <<f.action, f.result>> = t /\ f.ref = NoRef}
    BY <1>1, <2>1
  <2> QED
    BY <2>2, <2>3 DEF EachRole, Manual
<1>7. AmountsOf(R) = AmountsOf(Q)
  BY <1>5, <1>6, SameSums
<1> QED
  BY <1>7 DEF Recalculated, Calculated, R, Q

\* Nothing is taken back by the failure of a session that nothing counts of.
LEMMA FailureAlone ==
  ASSUME NEW S, NEW f, f.result = "failure", f.action \in {"authorization", "charge"},
         \A e \in S : ~(Final(e) /\ e.counted)
  PROVE  Recalculated(S \cup {f}) = Recalculated(S)
<1> DEFINE R == Relevant(S)
           Q == Relevant(S \cup {f})
<1>1. R \subseteq Q /\ Q \subseteq R \cup {f}
  <2>1. {e \in {g \in S \cup {f} : g.counted} : e.result = "adjustment"}
          = {e \in {g \in S : g.counted} : e.result = "adjustment"}
    OBVIOUS
  <2> QED
    BY <2>1 DEF Relevant
<1>2. \A e \in R : e \in S /\ e.counted
  BY DEF Relevant
<1> HIDE DEF R, Q
<1>3. \A t, ref : t # <<f.action, "failure">> => Role(Q, t, ref) = Role(R, t, ref)
  <2>1. SUFFICES ASSUME NEW t, NEW ref, t # <<f.action, "failure">>
                 PROVE  Role(Q, t, ref) = Role(R, t, ref)
    OBVIOUS
  <2>2. {e \in Q : <<e.action, e.result>> = t /\ e.ref = ref}
          = {e \in R : <<e.action, e.result>> = t /\ e.ref = ref}
    BY <1>1, <2>1
  <2> QED
    BY <2>2 DEF Role
<1>4. \A ref : Role(R, <<f.action, "success">>, ref) = {} /\ Role(R, <<f.action, "request">>, ref) = {}
  <2>1. \A e \in R : <<e.action, e.result>> \notin {<<f.action, "success">>, <<f.action, "request">>}
    BY <1>2 DEF Final
  <2> QED
    BY <2>1 DEF Role, Newest
<1>5. ASSUME NEW a \in Actions
      PROVE  Pending(R, a) = Pending(Q, a) /\ Done(R, a) = Done(Q, a)
  <2>1. \A ref : /\ Role(Q, <<a, "success">>, ref) = Role(R, <<a, "success">>, ref)
                 /\ Role(Q, <<a, "request">>, ref) = Role(R, <<a, "request">>, ref)
    BY <1>3
  <2>2. CASE a = f.action
    <3>1. Pending(R, a) = {} /\ Pending(Q, a) = {}
      BY <2>1, <2>2, <1>4 DEF Pending
    <3>2. Done(R, a) = {} /\ Done(Q, a) = {}
      BY <2>1, <2>2, <1>4 DEF Done
    <3> QED
      BY <3>1, <3>2
  <2>3. CASE a # f.action
    <3>1. \A ref : Role(Q, <<a, "failure">>, ref) = Role(R, <<a, "failure">>, ref)
      BY <2>3, <1>3
    <3> QED
      BY <2>1, <3>1 DEF Pending, Done
  <2> QED
    BY <2>2, <2>3
<1>6. ASSUME NEW t, t[2] \notin {"request", "failure"}
      PROVE  EachRole(R, t) = EachRole(Q, t) /\ Manual(R, t) = Manual(Q, t)
  <2>1. t # <<f.action, "failure">>
    BY <1>6
  <2>2. \A ref : Role(Q, t, ref) = Role(R, t, ref)
    BY <1>3, <2>1
  <2>3. {e \in Q : <<e.action, e.result>> = t /\ e.ref = NoRef}
          = {e \in R : <<e.action, e.result>> = t /\ e.ref = NoRef}
    BY <1>1, <2>1
  <2> QED
    BY <2>2, <2>3 DEF EachRole, Manual
<1>7. AmountsOf(R) = AmountsOf(Q)
  BY <1>5, <1>6, SameSums
<1> QED
  BY <1>7 DEF Recalculated, Calculated, R, Q

-----------------------------------------------------------------------------
(* How the table of events grows.                                          *)

\* A request stays one, and what does not count did not count before.
Follows(f, e) ==
  /\ f.result = "request" => e.result = "request"
  /\ ~e.counted => ~f.counted /\ e.action = f.action

\* Rows are changed but not removed, and new ones have new keys.
Grown(S, T) ==
  LET n == Cardinality(S)
      m == Cardinality(T)
  IN  /\ n \in Nat /\ m \in Nat /\ n <= m
      /\ KeyedUpTo(T, m)
      /\ \A e \in T : e.pk <= n => \E f \in S : f.pk = e.pk /\ Follows(f, e)

\* A new row has the next key.
LEMMA GrownByOne ==
  ASSUME NEW S, NEW n \in Nat, KeyedUpTo(S, n),
         NEW x, IsRow(x), x.pk = n + 1, x.at <= 2 * (n + 1)
  PROVE  Grown(S, S \cup {x}) /\ Cardinality(S \cup {x}) = n + 1
<1>1. KeyedUpTo(S \cup {x}, n + 1)
  <2>1. \A e \in S \cup {x} : IsRow(e) /\ e.pk \in 1 .. n + 1 /\ e.at <= 2 * (n + 1)
    <3>1. ASSUME NEW e \in S
          PROVE  IsRow(e) /\ e.pk \in 1 .. n + 1 /\ e.at <= 2 * (n + 1)
      <4>1. IsRow(e) /\ e.pk \in 1 .. n /\ e.at <= 2 * n /\ e.at \in Nat
        BY DEF KeyedUpTo, IsRow
      <4> QED BY <4>1
    <3>2. x.pk \in 1 .. n + 1
      OBVIOUS
    <3> QED
      BY <3>1, <3>2
  <2>2. \A e, f \in S \cup {x} : e.pk = f.pk => e = f
    BY DEF KeyedUpTo
  <2>3. \A i \in 1 .. n + 1 : \E e \in S \cup {x} : e.pk = i
    <3> SUFFICES ASSUME NEW i \in 1 .. n + 1 PROVE \E e \in S \cup {x} : e.pk = i
      OBVIOUS
    <3>1. CASE i = n + 1
      BY <3>1
    <3>2. CASE i \in 1 .. n
      BY <3>2 DEF KeyedUpTo
    <3> QED
      BY <3>1, <3>2
  <2> QED
    BY <2>1, <2>2, <2>3 DEF KeyedUpTo
<1>2. Cardinality(S \cup {x}) = n + 1 /\ Cardinality(S) = n
  BY <1>1, KeysCount
<1>3. \A e \in S \cup {x} : e.pk <= n => \E f \in S : f.pk = e.pk /\ Follows(f, e)
  BY DEF Follows
<1> QED
  BY <1>1, <1>2, <1>3 DEF Grown

\* Rows keep their keys.
LEMMA GrownByChange ==
  ASSUME NEW S, NEW n \in Nat, KeyedUpTo(S, n), NEW T, NEW c,
         T = {c[e] : e \in S},
         \A e \in S : IsRow(c[e]) /\ c[e].pk = e.pk /\ c[e].at <= 2 * n /\ Follows(e, c[e])
  PROVE  Grown(S, T) /\ Cardinality(T) = n /\ KeyedUpTo(T, n)
<1>1. KeyedUpTo(T, n)
  BY DEF KeyedUpTo
<1>2. Cardinality(T) = n /\ Cardinality(S) = n
  BY <1>1, KeysCount
<1> QED
  BY <1>1, <1>2 DEF Grown

\* What grows twice has grown.
LEMMA GrownTwice ==
  ASSUME NEW S, NEW T, NEW U, Grown(S, T), Grown(T, U)
  PROVE  Grown(S, U)
<1>1. ASSUME NEW e \in U, e.pk <= Cardinality(S)
      PROVE  \E f \in S : f.pk = e.pk /\ Follows(f, e)
  <2>1. e.pk \in Nat /\ e.pk <= Cardinality(T)
    BY <1>1 DEF Grown, KeyedUpTo, IsRow
  <2>2. PICK g \in T : g.pk = e.pk /\ Follows(g, e)
    BY <2>1 DEF Grown
  <2>3. PICK f \in S : f.pk = g.pk /\ Follows(f, g)
    BY <2>2, <1>1 DEF Grown
  <2> QED
    BY <2>2, <2>3 DEF Follows
<1> QED
  BY <1>1 DEF Grown

-----------------------------------------------------------------------------
(* What workers have in hand.                                              *)

\* An event that is not stored yet.
IsNew(e) ==
  e \in [action : Actions, result : Results, ref : Refs \cup {NoRef},
         amount : {e.amount}, pk : {0}, at : {0}, counted : {TRUE}]

\* A request that was loaded from a table S; it is one still.
IsRequest(q, S) ==
  /\ IsRow(q) /\ q.result = "request"
  /\ q.pk \in 1 .. Cardinality(S) /\ q.at <= 2 * Cardinality(S)
  /\ \A e \in S : e.pk = q.pk => e.result = "request"

JobOK(job, S) ==
  \/ job = Idle
  \/ job.at \in {"calculating", "saving"}
  \/ /\ job.at = "inserting" /\ job.source \in {"report", "request", "session"}
     /\ IsNew(job.event)
     /\ IF job.source = "session"
        THEN job.event.action \in Sessions /\ \E q : job.request = {q} /\ IsRequest(q, S)
        ELSE job.request = {}
  \/ /\ job.at = "answering"
     /\ IsNew(job.event) /\ job.event.result \in {"success", "failure"}
     /\ \E q : /\ job.request = {q} /\ IsRequest(q, S)
               /\ q.action = job.event.action /\ q.ref = job.event.ref
  \/ job.at = "processing" /\ \E q : job.request = {q} /\ IsRequest(q, S)
  \/ /\ job.at = "adjusting"
     /\ \E n \in Nat : DOMAIN job.adjustments = 1 .. n
     /\ \A i \in DOMAIN job.adjustments :
          LET e == job.adjustments[i]
          IN  IsNew(e) /\ e.ref = NoRef /\ (e.action = "authorization" => i = 1)

Keyed == KeyedUpTo(events, Cardinality(events)) /\ Cardinality(events) \in Nat

Procs == proc = [w \in Workers |-> proc[w]]

Jobs == \A w \in Workers : JobOK(proc[w], events)

\* What is sent to the app are requests of staff.
Sent ==
  /\ sent \subseteq 1 .. Cardinality(events)
  /\ \A e \in events : e.pk \in sent =>
       e.result = "request" /\ (~e.counted => e.action # "authorization")

Flags == raced \in BOOLEAN /\ unsettled \in BOOLEAN

Tables == Keyed /\ Procs /\ Jobs /\ Sent /\ Flags

\* A worker takes on a job, the others go on.
LEMMA Becomes ==
  ASSUME Procs, NEW w \in Workers, NEW job, Become(w, job)
  PROVE  Procs' /\ proc'[w] = job /\ \A v \in Workers \ {w} : proc'[v] = proc[v]
BY DEF Procs, Become

\* A job is no worse for a table that has grown.
LEMMA JobsOutlast ==
  ASSUME Keyed, NEW T, Grown(events, T), NEW job, JobOK(job, events)
  PROVE  JobOK(job, T)
<1>1. ASSUME NEW q, IsRequest(q, events) PROVE IsRequest(q, T)
  <2>1. /\ Cardinality(events) \in Nat /\ Cardinality(T) \in Nat
        /\ Cardinality(events) <= Cardinality(T)
    BY DEF Grown
  <2>2. q.pk \in 1 .. Cardinality(T) /\ q.at <= 2 * Cardinality(T)
    BY <2>1, <1>1 DEF IsRequest, IsRow
  <2>3. ASSUME NEW e \in T, e.pk = q.pk PROVE e.result = "request"
    <3>1. e.pk <= Cardinality(events)
      BY <2>1, <2>3, <1>1 DEF IsRequest
    <3>2. PICK f \in events : f.pk = e.pk /\ Follows(f, e)
      BY <3>1 DEF Grown
    <3> QED
      BY <3>2, <2>3, <1>1 DEF IsRequest, Follows
  <2> QED
    BY <1>1, <2>2, <2>3 DEF IsRequest
<1>2. CASE job.at = "inserting"
  BY <1>1, <1>2 DEF JobOK, Idle
<1>3. CASE job.at = "answering"
  BY <1>1, <1>3 DEF JobOK, Idle
<1>4. CASE job.at = "processing"
  BY <1>1, <1>4 DEF JobOK, Idle
<1>5. CASE job.at = "adjusting"
  BY <1>5 DEF JobOK, Idle
<1> QED
  BY <1>2, <1>3, <1>4, <1>5 DEF JobOK

\* Who was at work with w, and what was sent, follows from how events grow.
LEMMA TablesGrow ==
  ASSUME Tables, Grown(events, events'), Flags'
  PROVE  /\ Keyed'
         /\ sent' \subseteq sent => Sent'
         /\ UNCHANGED proc => Procs' /\ Jobs'
         /\ \A w \in Workers : \A job :
              Become(w, job) /\ JobOK(job, events') => Procs' /\ Jobs'
<1> USE DEF Tables
<1>1. Keyed'
  BY DEF Grown, Keyed
<1>2. ASSUME sent' \subseteq sent PROVE Sent'
  <2>1. sent' \subseteq 1 .. Cardinality(events')
    BY <1>2 DEF Sent, Grown
  <2>2. ASSUME NEW e \in events', e.pk \in sent'
        PROVE  e.result = "request" /\ (~e.counted => e.action # "authorization")
    <3>0. e.pk \in sent /\ e.pk \in 1 .. Cardinality(events)
      BY <1>2, <2>2 DEF Sent
    <3>1. e.pk \in sent /\ e.pk <= Cardinality(events)
      BY <3>0 DEF Keyed
    <3>2. PICK f \in events : f.pk = e.pk /\ Follows(f, e)
      BY <3>1 DEF Grown
    <3> QED
      BY <3>1, <3>2 DEF Sent, Follows
  <2> QED
    BY <2>1, <2>2 DEF Sent
<1>3. \A v \in Workers : JobOK(proc[v], events')
  BY JobsOutlast DEF Jobs
<1>4. UNCHANGED proc => Procs' /\ Jobs'
  BY <1>3 DEF Procs, Jobs
<1>5. ASSUME NEW w \in Workers, NEW job, Become(w, job), JobOK(job, events')
      PROVE  Procs' /\ Jobs'
  <2>1. Procs' /\ proc'[w] = job /\ \A v \in Workers \ {w} : proc'[v] = proc[v]
    BY <1>5, Becomes
  <2> QED
    BY <2>1, <1>3, <1>5 DEF Jobs
<1> QED
  BY <1>1, <1>2, <1>4, <1>5

-----------------------------------------------------------------------------
(* Every action keeps the tables.                                          *)

\* An event that is not stored yet is a row that counts.
LEMMA NewIsRow ==
  ASSUME NEW e, IsNew(e)
  PROVE  IsRow(e) /\ e.counted /\ e.ref \in Refs \cup {NoRef}
<1>1. e.counted = TRUE
  BY DEF IsNew
<1>2. {0} \subseteq Nat /\ {TRUE} \subseteq BOOLEAN
  OBVIOUS
<1>3. e \in [action : Actions, result : Results, ref : Refs \cup {NoRef},
            amount : {e.amount}, pk : Nat, at : Nat, counted : BOOLEAN]
  BY <1>2 DEF IsNew
<1>4. e.ref \in Refs \cup {NoRef}
  BY DEF IsNew
<1> QED
  BY <1>1, <1>3, <1>4 DEF IsRow

\* An event that is stored has the next key.
LEMMA StoredIsRow ==
  ASSUME Keyed, NEW e, IsRow(e), NEW x \in {Stored(e)} \cup StoredLate(e)
  PROVE  /\ IsRow(x) /\ x.pk = Cardinality(events) + 1
         /\ x.at <= 2 * (Cardinality(events) + 1)
         /\ x.action = e.action /\ x.result = e.result /\ x.ref = e.ref
         /\ x.counted = e.counted
<1> DEFINE n == Cardinality(events) + 1
<1>1. n \in Nat
  BY DEF Keyed
<1>2. PICK t \in 1 .. 2 * n : x = [e EXCEPT !.pk = n, !.at = t]
  <2>1. CASE x = Stored(e)
    <3>1. 2 * n \in 1 .. 2 * n
      BY <1>1 DEF Keyed
    <3> QED
      BY <2>1, <3>1 DEF Stored, NextKey
  <2>2. CASE x \in StoredLate(e)
    BY <1>1, <2>2 DEF StoredLate, NextKey
  <2> QED
    BY <2>1, <2>2
<1>3. t \in Nat /\ t <= 2 * n
  BY <1>1, <1>2
<1> HIDE DEF n
<1>4. IsRow(x) /\ x.pk = n /\ x.at = t
  BY <1>1, <1>2, <1>3 DEF IsRow
<1>5. x.action = e.action /\ x.result = e.result /\ x.ref = e.ref /\ x.counted = e.counted
  BY <1>2 DEF IsRow
<1> QED
  BY <1>3, <1>4, <1>5 DEF n

\* A row is stored.
LEMMA StoredGrows ==
  ASSUME Keyed, NEW e, IsRow(e), NEW x \in {Stored(e)} \cup StoredLate(e)
  PROVE  Grown(events, events \cup {x}) /\ Cardinality(events \cup {x}) = Cardinality(events) + 1
<1>1. /\ IsRow(x) /\ x.pk = Cardinality(events) + 1
      /\ x.at <= 2 * (Cardinality(events) + 1)
  BY StoredIsRow
<1> QED
  BY <1>1, GrownByOne DEF Keyed

\* A record of a failure is stored.
LEMMA RefuseGrows ==
  ASSUME Keyed, NEW e, IsRow(e), Refuse(e)
  PROVE  /\ Grown(events, events')
         /\ \E x : events' = events \cup {x} /\ x.result = "failure" /\ ~x.counted
<1> DEFINE r == [e EXCEPT !.result = "failure", !.counted = FALSE]
<1>2. IsRow(r) /\ r.result = "failure" /\ ~r.counted
  BY DEF IsRow, Results
<1>3. events' = events \cup {Stored(r)}
  BY DEF Refuse
<1> HIDE DEF r
<1> QED
  BY <1>2, <1>3, StoredGrows, StoredIsRow

\* Requests are given a reference.
LEMMA ReferringGrows ==
  ASSUME Keyed, NEW qs, NEW ref \in Refs \cup {NoRef}
  PROVE  /\ Grown(events, Referring(qs, ref))
         /\ KeyedUpTo(Referring(qs, ref), Cardinality(events))
         /\ Cardinality(Referring(qs, ref)) = Cardinality(events)
<1> DEFINE c == [e \in events |-> IF \E q \in qs : q.pk = e.pk THEN [e EXCEPT !.ref = ref] ELSE e]
<1>1. Referring(qs, ref) = {c[e] : e \in events}
  BY DEF Referring
<1>2. ASSUME NEW e \in events
      PROVE  /\ IsRow(c[e]) /\ c[e].pk = e.pk /\ c[e].at <= 2 * Cardinality(events)
             /\ Follows(e, c[e])
  <2>1. IsRow(e) /\ e.at <= 2 * Cardinality(events)
    BY DEF Keyed, KeyedUpTo
  <2>2. CASE c[e] = e
    BY <2>1, <2>2 DEF Follows
  <2>3. CASE c[e] = [e EXCEPT !.ref = ref]
    <3> HIDE DEF c
    <3> QED
      BY <2>1, <2>3 DEF IsRow, Follows
  <2> QED
    BY <2>2, <2>3
<1> HIDE DEF c
<1> QED
  BY <1>1, <1>2, GrownByChange DEF Keyed

\* A table that does not change has grown by nothing.
LEMMA GrownByNothing ==
  ASSUME Keyed
  PROVE  Grown(events, events)
BY DEF Keyed, Grown, Follows, KeyedUpTo

\* transactionEventReport keeps the tables.
LEMMA TablesReport ==
  ASSUME Tables, NEW w \in Workers, NEW e, IsNew(e), Report(w, e), UNCHANGED unsettled
  PROVE  Tables'
<1> USE DEF Tables
<1>1. Flags' /\ UNCHANGED sent /\ IsRow(e)
  BY NewIsRow DEF Report, Begin, Flags
<1>2. CASE UNCHANGED <<events, proc>>
  <2>1. Grown(events, events')
    BY <1>2, GrownByNothing
  <2> QED BY <1>1, <1>2, <2>1, TablesGrow
<1>3. CASE Refuse(e) /\ UNCHANGED proc
  BY <1>1, <1>3, RefuseGrows, TablesGrow
<1>4. CASE UNCHANGED events /\ Become(w, [at |-> "inserting", event |-> e,
                                          source |-> "report", request |-> {}])
  <2>1. Grown(events, events')
    BY <1>4, GrownByNothing
  <2>2. JobOK([at |-> "inserting", event |-> e, source |-> "report", request |-> {}], events')
    BY DEF JobOK
  <2> QED
    BY <1>1, <1>4, <2>1, <2>2, TablesGrow
<1> QED
  BY <1>2, <1>3, <1>4 DEF Report

\* Storing an event, with the reference of its session, keeps the tables.
LEMMA TablesInsertEvent ==
  ASSUME Tables, NEW w \in Workers, InsertEvent(w), Flags'
  PROVE  Tables'
<1> USE DEF Tables
<1> DEFINE job == proc[w]
           T == Referring(job.request, job.event.ref)
<1>1. job.at = "inserting" /\ IsNew(job.event) /\ job.event.ref \in Refs \cup {NoRef}
  <2>1. job.at = "inserting"
    BY DEF InsertEvent
  <2>2. JobOK(job, events)
    BY DEF Jobs
  <2>3. IsNew(job.event)
    BY <2>1, <2>2 DEF JobOK, Idle
  <2> QED
    BY <2>1, <2>3, NewIsRow
<1>2. Grown(events, T) /\ KeyedUpTo(T, Cardinality(events)) /\ Cardinality(T) = Cardinality(events)
  BY <1>1, ReferringGrows
<1>3. PICK x \in {Stored(job.event)} \cup StoredLate(job.event) : events' = T \cup {x}
  BY DEF InsertEvent
<1>4. /\ IsRow(x) /\ x.pk = Cardinality(events) + 1
      /\ x.at <= 2 * (Cardinality(events) + 1)
  BY <1>1, NewIsRow, StoredIsRow
<1>5. Grown(T, events')
  BY <1>2, <1>3, <1>4, GrownByOne DEF Keyed
<1>6. Grown(events, events')
  BY <1>2, <1>5, GrownTwice
<1>7. \E new : Become(w, new) /\ JobOK(new, events')
  BY DEF InsertEvent, JobOK, Calculate
<1> QED
  BY <1>6, <1>7, TablesGrow DEF InsertEvent

\* Reading and saving keep the tables.
LEMMA TablesAmounts ==
  ASSUME Tables, NEW w \in Workers, ReadEvents(w) \/ SaveAmounts(w), Flags'
  PROVE  Tables'
<1> USE DEF Tables
<1>1. Grown(events, events') /\ UNCHANGED sent
  BY GrownByNothing DEF ReadEvents, SaveAmounts
<1>2. \E new : Become(w, new) /\ JobOK(new, events')
  BY DEF ReadEvents, SaveAmounts, JobOK
<1> QED
  BY <1>1, <1>2, TablesGrow

\* A request of staff keeps the tables.
LEMMA TablesRequestAction ==
  ASSUME Tables, NEW action \in {"charge", "refund", "cancel"}, NEW n, RequestAction(action, n), Flags'
  PROVE  /\ Tables'
         /\ \E x : events' = events \cup {x} /\ x.result = "request" /\ ~x.counted
<1> USE DEF Tables
<1>1. PICK amount : LET r == [Event(action, "request", NoRef, amount) EXCEPT !.counted = FALSE]
                    IN  /\ events' = events \cup {Stored(r)}
                        /\ sent' = sent \cup {Stored(r).pk}
  BY DEF RequestAction
<1> DEFINE e0 == Event(action, "request", NoRef, amount)
           r == [e0 EXCEPT !.counted = FALSE]
           x == Stored(r)
           n0 == Cardinality(events)
<1>2. IsRow(e0) /\ e0.action = action /\ e0.result = "request"
  BY DEF Event, IsRow, Actions, Results
<1>3. IsRow(r) /\ r.action = action /\ r.result = "request" /\ r.counted = FALSE
  <2> HIDE DEF e0
  <2> QED BY <1>2 DEF IsRow
<1>4. events' = events \cup {x} /\ sent' = sent \cup {x.pk}
  BY <1>1
<1> HIDE DEF r
<1>5. /\ IsRow(x) /\ x.pk = n0 + 1
      /\ x.action = action /\ x.result = "request" /\ x.counted = FALSE
  BY <1>3, StoredIsRow
<1> HIDE DEF x
<1>6. Grown(events, events') /\ Cardinality(events') = n0 + 1
  BY <1>3, <1>4, StoredGrows DEF x
<1>7. Keyed' /\ Procs' /\ Jobs'
  <2>1. UNCHANGED proc
    BY DEF RequestAction
  <2> QED
    BY <1>6, <2>1, TablesGrow
<1>8. Sent'
  <2>1. n0 \in Nat
    BY DEF Keyed
  <2>2. sent' \subseteq 1 .. n0 + 1
    <3>1. \A i \in sent : i \in 1 .. n0
      BY DEF Sent
    <3>2. n0 + 1 \in 1 .. n0 + 1 /\ \A i \in 1 .. n0 : i \in 1 .. n0 + 1
      BY <2>1
    <3> HIDE DEF n0
    <3> QED
      BY <1>4, <1>5, <3>1, <3>2
  <2>3. ASSUME NEW e \in events', e.pk \in sent'
        PROVE  e.result = "request" /\ (~e.counted => e.action # "authorization")
    <3>1. CASE e \in events
      <4>1. e.pk \in 1 .. n0
        BY <3>1 DEF Keyed, KeyedUpTo
      <4>2. e.pk \in sent
        BY <1>4, <1>5, <2>3, <4>1, <2>1
      <4> QED
        BY <3>1, <4>2 DEF Sent
    <3>2. CASE e = x
      BY <3>2, <1>5
    <3> QED
      BY <1>4, <3>1, <3>2
  <2> QED
    BY <1>6, <2>2, <2>3 DEF Sent
<1> QED
  BY <1>4, <1>5, <1>7, <1>8

\* An answer that is lost keeps the tables.
LEMMA TablesAnswerLost ==
  ASSUME Tables, NEW q \in events, AnswerLost(q), Flags'
  PROVE  /\ Tables'
         /\ \E x : events' = events \cup {x} /\ x.result = "failure" /\ ~x.counted
<1> USE DEF Tables
<1>1. IsRow(q)
  BY DEF Keyed, KeyedUpTo
<1>2. Refuse(q) /\ sent' \subseteq sent /\ UNCHANGED proc
  BY DEF AnswerLost
<1> QED
  BY <1>1, <1>2, RefuseGrows, TablesGrow

\* A request that the app takes over is a row still.
LEMMA TakenOver ==
  ASSUME NEW q, IsRow(q), NEW ref \in Refs \cup {NoRef}
  PROVE  LET r == [q EXCEPT !.ref = ref]
             c == [q EXCEPT !.ref = ref, !.counted = TRUE]
         IN  /\ IsRow(r) /\ r.pk = q.pk /\ r.at = q.at /\ r.result = q.result
             /\ r.action = q.action /\ r.ref = ref /\ r.counted = q.counted
             /\ IsRow(c) /\ c.pk = q.pk /\ c.at = q.at /\ c.result = q.result
             /\ c.action = q.action /\ c.ref = ref /\ c.counted = TRUE
             /\ [r EXCEPT !.counted = TRUE] = c
BY DEF IsRow

\* So does an answer.
LEMMA TablesAnswerRequest ==
  ASSUME Tables, NEW w \in Workers, NEW q \in events, q.pk \in sent,
         NEW ref \in Refs \cup {NoRef}, NEW result \in {"none", "success", "failure"}, NEW n,
         AnswerRequest(w, q, ref, result, n), UNCHANGED unsettled
  PROVE  Tables'
<1> USE DEF Tables
<1> DEFINE r == [q EXCEPT !.ref = ref]
           d == [q EXCEPT !.ref = ref, !.counted = TRUE]
           c == [e \in events |-> IF e = q THEN d ELSE e]
           N == Cardinality(events)
<1>1. IsRow(q) /\ q.pk \in 1 .. N /\ q.at <= 2 * N
  BY DEF Keyed, KeyedUpTo
<1>2. /\ IsRow(r) /\ r.pk = q.pk /\ r.at = q.at /\ r.result = q.result
      /\ r.action = q.action /\ r.ref = ref
      /\ IsRow(d) /\ d.pk = q.pk /\ d.at = q.at /\ d.result = q.result
      /\ d.action = q.action /\ d.counted = TRUE
  BY <1>1, TakenOver
<1>3. events' = {c[e] : e \in events}
  BY DEF AnswerRequest
<1>4. q.result = "request"
  BY DEF Sent
<1> HIDE DEF r, d
<1>5. ASSUME NEW e \in events
      PROVE  IsRow(c[e]) /\ c[e].pk = e.pk /\ c[e].at <= 2 * N /\ Follows(e, c[e])
  BY <1>1, <1>2 DEF Keyed, KeyedUpTo, Follows
<1>6. Grown(events, events') /\ Cardinality(events') = N
  <2> HIDE DEF c
  <2> QED
    BY <1>3, <1>5, GrownByChange DEF Keyed
<1>7. sent' \subseteq sent /\ Flags'
  BY DEF AnswerRequest, Begin, Flags
<1>8. CASE result = "none"
  <2>1. Become(w, Calculate(NoTarget)) /\ JobOK(Calculate(NoTarget), events')
    BY <1>8 DEF AnswerRequest, JobOK, Calculate
  <2> QED
    BY <1>6, <1>7, <2>1, TablesGrow
<1>9. CASE result # "none"
  <2> DEFINE event == Event(q.action, result, ref, n)
             job == [at |-> "answering", event |-> event, request |-> {r}]
  <2>1. Become(w, job)
    BY <1>9 DEF AnswerRequest, r
  <2>2. IsNew(event) /\ event.result = result /\ event.action = q.action /\ event.ref = ref
    <3>1. q.action \in Actions /\ result \in Results
      BY <1>1, <1>9 DEF IsRow, Results
    <3>2. event = [action |-> q.action, result |-> result, ref |-> ref, amount |-> n,
                   pk |-> 0, at |-> 0, counted |-> TRUE]
      BY DEF Event
    <3> QED
      BY <3>1, <3>2 DEF IsNew
  <2>3. IsRequest(r, events')
    <3>1. ASSUME NEW e \in events', e.pk = r.pk PROVE e.result = "request"
      <4>1. PICK f \in events : e = c[f]
        BY <1>3
      <4>2. f.pk = q.pk
        BY <4>1, <3>1, <1>2, <1>5
      <4>3. f = q
        BY <4>2 DEF Keyed, KeyedUpTo
      <4> QED
        BY <4>1, <4>3, <1>2, <1>4
    <3> QED
      BY <1>1, <1>2, <1>4, <1>6, <3>1 DEF IsRequest
  <2> HIDE DEF event
  <2>4. JobOK(job, events')
    BY <2>2, <2>3, <1>2, <1>9 DEF JobOK
  <2> QED
    BY <1>6, <1>7, <2>1, <2>4, TablesGrow
<1> QED
  BY <1>8, <1>9

\* Looking up the event of an answer keeps the tables.
LEMMA TablesLookUpAnswer ==
  ASSUME Tables, NEW w \in Workers, LookUpAnswer(w), Flags'
  PROVE  Tables'
<1> USE DEF Tables
<1> DEFINE job == proc[w]
<1>1. job.at = "answering" /\ UNCHANGED sent
  BY DEF LookUpAnswer
<1>2. JobOK(job, events)
  BY DEF Jobs
<1>3. IsNew(job.event) /\ \E q : job.request = {q} /\ IsRequest(q, events)
  BY <1>1, <1>2 DEF JobOK, Idle
<1>4. CASE UNCHANGED events
  <2>1. Grown(events, events')
    BY <1>4, GrownByNothing
  <2>2. JobOK(Calculate(NoTarget), events') /\ JobOK(Idle, events')
        /\ JobOK([at |-> "inserting", event |-> job.event, source |-> "request",
                  request |-> {}], events')
    BY <1>3 DEF JobOK, Calculate
  <2>3. \/ Become(w, Calculate(NoTarget))
        \/ Become(w, Idle)
        \/ Become(w, [at |-> "inserting", event |-> job.event, source |-> "request",
                      request |-> {}])
    BY DEF LookUpAnswer
  <2> QED
    BY <1>1, <2>1, <2>2, <2>3, TablesGrow
<1>5. CASE Become(w, Idle) /\ \E q \in job.request : Refuse(q)
  <2>1. Grown(events, events')
    BY <1>3, <1>5, RefuseGrows DEF IsRequest
  <2>2. JobOK(Idle, events')
    BY DEF JobOK
  <2> QED
    BY <1>1, <1>5, <2>1, <2>2, TablesGrow
<1> QED
  BY <1>4, <1>5 DEF LookUpAnswer

\* A session begins with a request that is stored.
LEMMA TablesProcessSession ==
  ASSUME Tables, NEW w \in Workers, ProcessSession(w), UNCHANGED unsettled
  PROVE  Tables'
<1> USE DEF Tables
<1>1. PICK q \in events : /\ q.result = "request"
                          /\ Become(w, [at |-> "processing", request |-> {q}])
  BY DEF ProcessSession
<1>2. IsRequest(q, events)
  <2>1. IsRow(q) /\ q.pk \in 1 .. Cardinality(events) /\ q.at <= 2 * Cardinality(events)
    BY DEF Keyed, KeyedUpTo
  <2>2. \A e \in events : e.pk = q.pk => e = q
    BY DEF Keyed, KeyedUpTo
  <2> QED
    BY <1>1, <2>1, <2>2 DEF IsRequest
<1>3. UNCHANGED <<events, sent>> /\ Flags' /\ Grown(events, events')
  BY GrownByNothing DEF ProcessSession, Begin, Flags
<1>4. JobOK([at |-> "processing", request |-> {q}], events')
  BY <1>2, <1>3 DEF JobOK
<1> QED
  BY <1>1, <1>3, <1>4, TablesGrow

\* The request of a session that is under way.
LEMMA SessionRequest ==
  ASSUME Tables, NEW w \in Workers, proc[w].at = "processing"
  PROVE  \E q : proc[w].request = {q} /\ IsRequest(q, events)
<1>1. JobOK(proc[w], events)
  BY DEF Tables, Jobs
<1> QED
  BY <1>1 DEF JobOK, Idle

\* A session that is not answered keeps the tables.
LEMMA TablesSessionUnanswered ==
  ASSUME Tables, NEW w \in Workers, SessionUnanswered(w), Flags'
  PROVE  Tables'
<1> USE DEF Tables
<1>1. PICK q : proc[w].request = {q} /\ IsRequest(q, events)
  BY SessionRequest DEF SessionUnanswered
<1>2. Refuse(q) /\ Become(w, Idle) /\ UNCHANGED sent /\ IsRow(q)
  BY <1>1 DEF SessionUnanswered, IsRequest
<1>3. JobOK(Idle, events')
  BY DEF JobOK
<1> QED
  BY <1>2, <1>3, RefuseGrows, TablesGrow

\* A session whose app asked for the money keeps the tables.
LEMMA TablesSessionPending ==
  ASSUME Tables, NEW w \in Workers, NEW action \in Sessions, NEW ref \in Refs \cup {NoRef},
         NEW n, SessionPending(w, action, ref, n), Flags'
  PROVE  Tables'
<1> USE DEF Tables
<1>1. PICK q : proc[w].request = {q} /\ IsRequest(q, events)
  BY SessionRequest DEF SessionPending
<1> DEFINE e0 == Event(action, "request", ref, n)
           d == [e0 EXCEPT !.pk = q.pk, !.at = q.at]
           c == [e \in events |-> IF e.pk = q.pk THEN d ELSE e]
           N == Cardinality(events)
<1>2. events' = {e \in events : e.pk # q.pk} \cup {d}
  BY <1>1 DEF SessionPending
<1>3. IsRow(e0) /\ e0.result = "request" /\ e0.counted = TRUE
  <2>1. action \in Actions
    BY TransactionAssumption DEF Actions
  <2> QED
    BY <2>1 DEF Event, IsRow, Results
<1>4. IsRow(d) /\ d.result = "request" /\ d.counted = TRUE /\ d.pk = q.pk /\ d.at = q.at
  <2> HIDE DEF e0
  <2> QED BY <1>1, <1>3 DEF IsRow, IsRequest
<1> HIDE DEF d
<1>5. events' = {c[e] : e \in events}
  <2>1. \E e \in events : e.pk = q.pk
    BY <1>1 DEF IsRequest, Keyed, KeyedUpTo
  <2> QED
    BY <1>2, <2>1
<1>6. ASSUME NEW e \in events
      PROVE  IsRow(c[e]) /\ c[e].pk = e.pk /\ c[e].at <= 2 * N /\ Follows(e, c[e])
  BY <1>1, <1>4 DEF Keyed, KeyedUpTo, Follows, IsRequest
<1>7. Grown(events, events')
  <2> HIDE DEF c
  <2> QED
    BY <1>5, <1>6, GrownByChange DEF Keyed
<1>8. Become(w, Calculate(NoTarget)) /\ JobOK(Calculate(NoTarget), events') /\ UNCHANGED sent
  BY DEF SessionPending, JobOK, Calculate
<1> QED
  BY <1>7, <1>8, TablesGrow

\* So does a session that is answered.
LEMMA TablesSessionAnswered ==
  ASSUME Tables, NEW w \in Workers, NEW action \in Sessions, NEW ref \in Refs \cup {NoRef},
         NEW n, NEW result \in {"success", "failure"},
         SessionAnswered(w, action, result, ref, n), Flags'
  PROVE  Tables'
<1> USE DEF Tables
<1> DEFINE e == Event(action, result, ref, n)
<1>1. PICK q : proc[w].request = {q} /\ IsRequest(q, events)
  BY SessionRequest DEF SessionAnswered
<1>2. UNCHANGED sent
  BY DEF SessionAnswered
<1>3. IsNew(e) /\ e.action \in Sessions
  <2>1. action \in Actions /\ result \in Results
    BY TransactionAssumption DEF Actions, Results
  <2> QED
    BY <2>1 DEF Event, IsNew
<1>4. CASE Become(w, Idle) /\ \E r \in proc[w].request : Refuse(r)
  <2>1. Refuse(q) /\ IsRow(q)
    BY <1>1, <1>4 DEF IsRequest
  <2>2. JobOK(Idle, events')
    BY DEF JobOK
  <2> QED
    BY <1>2, <1>4, <2>1, <2>2, RefuseGrows, TablesGrow
<1>5. CASE /\ events' = Referring(proc[w].request, ref)
           /\ Become(w, IF result = "failure" THEN Idle ELSE Calculate(NoTarget))
  <2>1. Grown(events, events')
    BY <1>5, ReferringGrows
  <2>2. JobOK(Idle, events') /\ JobOK(Calculate(NoTarget), events')
    BY DEF JobOK, Calculate
  <2>3. Become(w, Idle) \/ Become(w, Calculate(NoTarget))
    BY <1>5
  <2> QED
    BY <1>2, <2>1, <2>2, <2>3, TablesGrow
<1> DEFINE job == [at |-> "inserting", event |-> e, source |-> "session",
                   request |-> proc[w].request]
<1>6. CASE UNCHANGED events /\ Become(w, job)
  <2>1. Grown(events, events')
    BY <1>6, GrownByNothing
  <2> HIDE DEF e
  <2>2. JobOK(job, events')
    BY <1>1, <1>3, <1>6 DEF JobOK
  <2> QED
    BY <1>2, <1>6, <2>1, <2>2, TablesGrow
<1> QED
  BY <1>4, <1>5, <1>6 DEF SessionAnswered

\* Only the first event of a sequence is one of X; the others are of Y.
LEMMA FirstOfSequence ==
  ASSUME NEW X, NEW Y \in SUBSET X, NEW s \in Seq(X), NEW t \in Seq(Y),
         \A i \in 1 .. Len(s) : s[i] \in Y \/ i = 1
  PROVE  /\ s \o t \in Seq(X)
         /\ \A i \in 1 .. Len(s \o t) : (s \o t)[i] \in Y \/ i = 1
<1>1. s \o t \in Seq(X) /\ Len(s \o t) = Len(s) + Len(t)
  <2>1. t \in Seq(X)
    OBVIOUS
  <2> QED
    BY <2>1
<1>2. ASSUME NEW i \in 1 .. Len(s \o t) PROVE (s \o t)[i] \in Y \/ i = 1
  <2>1. CASE i \in 1 .. Len(s)
    BY <2>1
  <2>2. CASE i \notin 1 .. Len(s)
    <3>1. i - Len(s) \in 1 .. Len(t)
      BY <1>1, <2>2
    <3>2. (s \o t)[i] = t[i - Len(s)]
      BY <1>1, <2>2
    <3> QED
      BY <3>1, <3>2
  <2> QED
    BY <2>1, <2>2
<1> QED
  BY <1>1, <1>2

\* What transactionUpdate is about to store: at most one authorization, first.
LEMMA AdjustmentsMade ==
  ASSUME NEW w \in Workers, NEW target, UpdateTransaction(w, target), DOMAIN target \subseteq Actions
  PROVE  \E adjustments :
           /\ Become(w, [at |-> "adjusting", target |-> target, adjustments |-> adjustments])
           /\ \E n \in Nat : DOMAIN adjustments = 1 .. n
           /\ \A i \in DOMAIN adjustments :
                LET e == adjustments[i]
                IN  /\ IsNew(e) /\ e.ref = NoRef /\ (e.action = "authorization" => i = 1)
                    /\ e.result \in {"success", "adjustment"}
                    /\ e.action = "authorization" /\ AuthorizationExists => e.result # "success"
<1> DEFINE current == Calculated(events).done
           For(a) == IF a \in DOMAIN target THEN Adjustment(a, target[a], current[a]) ELSE <<>>
           M == UNION {{target[a], target[a] - current[a]} : a \in DOMAIN target}
           Y == {Event(a, "success", NoRef, m) : a \in Actions \ {"authorization"}, m \in M}
           Z == {Event("authorization", IF AuthorizationExists THEN "adjustment" ELSE "success",
                       NoRef, m) : m \in M}
           X == Y \cup Z
           s1 == For("authorization")
           s2 == s1 \o For("charge")
           s3 == s2 \o For("refund")
           s4 == s3 \o For("cancel")
<1>1. Become(w, [at |-> "adjusting", target |-> target, adjustments |-> s4])
  BY DEF UpdateTransaction
<1>2. \A a \in Actions \ {"authorization"} : For(a) \in Seq(Y)
  <2> SUFFICES ASSUME NEW a \in Actions \ {"authorization"} PROVE For(a) \in Seq(Y)
    OBVIOUS
  <2>1. For(a) = <<>> \/ \E y \in Y : For(a) = <<y>>
    <3>1. CASE a \notin DOMAIN target \/ target[a] = current[a]
      BY <3>1 DEF Adjustment
    <3>2. CASE a \in DOMAIN target /\ target[a] # current[a]
      <4>1. For(a) = <<Event(a, "success", NoRef, target[a] - current[a])>>
        BY <3>2 DEF Adjustment
      <4>2. target[a] - current[a] \in M
        BY <3>2
      <4> HIDE DEF For, M
      <4> QED
        BY <4>1, <4>2
    <3> QED
      BY <3>1, <3>2
  <2> HIDE DEF For, Y
  <2>2. CASE For(a) = <<>>
    BY <2>2
  <2>3. CASE \E y \in Y : For(a) = <<y>>
    <3>1. PICK y \in Y : For(a) = <<y>>
      BY <2>3
    <3>2. <<y>> \in Seq(Y)
      OBVIOUS
    <3> QED
      BY <3>1, <3>2
  <2> QED
    BY <2>1, <2>2, <2>3
<1>3. s1 = <<>> \/ \E z \in Z : s1 = <<z>>
  <2> DEFINE a == "authorization"
  <2>1. CASE a \notin DOMAIN target \/ target[a] = current[a]
    BY <2>1 DEF Adjustment
  <2>2. CASE a \in DOMAIN target /\ target[a] # current[a]
    <3>1. target[a] \in M /\ target[a] - current[a] \in M
      BY <2>2
    <3> HIDE DEF M, current
    <3>2. CASE AuthorizationExists
      <4>1. s1 = <<Event(a, "adjustment", NoRef, target[a])>>
        BY <2>2, <3>2 DEF Adjustment
      <4> HIDE DEF s1
      <4> QED
        BY <4>1, <3>1, <3>2
    <3>3. CASE ~AuthorizationExists
      <4>1. s1 = <<Event(a, "success", NoRef, target[a] - current[a])>>
        BY <2>2, <3>3 DEF Adjustment
      <4> HIDE DEF s1
      <4> QED
        BY <4>1, <3>1, <3>3
    <3> QED
      BY <3>2, <3>3
  <2> QED
    BY <2>1, <2>2
<1>4. Y \in SUBSET X /\ {"charge", "refund", "cancel"} \subseteq Actions \ {"authorization"}
  BY DEF Actions
<1>5. For("charge") \in Seq(Y) /\ For("refund") \in Seq(Y) /\ For("cancel") \in Seq(Y)
  BY <1>2, <1>4
<1>6. \A y \in Y : /\ IsNew(y) /\ y.ref = NoRef /\ y.action # "authorization"
                   /\ y.result = "success"
  <2> SUFFICES ASSUME NEW y \in Y
               PROVE  /\ IsNew(y) /\ y.ref = NoRef /\ y.action # "authorization"
                      /\ y.result = "success"
    OBVIOUS
  <2>1. PICK a \in Actions \ {"authorization"}, m \in M : y = Event(a, "success", NoRef, m)
    OBVIOUS
  <2>2. "success" \in Results /\ NoRef \in Refs \cup {NoRef}
    BY DEF Results
  <2> HIDE DEF M, Y, Z, X, For, current
  <2> QED
    BY <2>1, <2>2 DEF Event, IsNew
<1>7. \A z \in Z : /\ IsNew(z) /\ z.ref = NoRef /\ z.action = "authorization"
                   /\ z.result = IF AuthorizationExists THEN "adjustment" ELSE "success"
  <2> DEFINE result == IF AuthorizationExists THEN "adjustment" ELSE "success"
  <2> SUFFICES ASSUME NEW z \in Z
               PROVE  /\ IsNew(z) /\ z.ref = NoRef /\ z.action = "authorization"
                      /\ z.result = result
    OBVIOUS
  <2>1. PICK m \in M : z = Event("authorization", result, NoRef, m)
    OBVIOUS
  <2>2. result \in Results /\ "authorization" \in Actions /\ NoRef \in Refs \cup {NoRef}
    BY DEF Results, Actions
  <2> HIDE DEF M, Y, Z, X, For, current, result
  <2> QED
    BY <2>1, <2>2 DEF Event, IsNew
<1>8. s1 \in Seq(X) /\ \A i \in 1 .. Len(s1) : s1[i] \in Y \/ i = 1
  <2>1. Z \subseteq X
    OBVIOUS
  <2> HIDE DEF s1, X, Y, Z
  <2>2. CASE s1 = <<>>
    BY <2>2
  <2>3. CASE \E z \in Z : s1 = <<z>>
    <3>1. PICK z \in Z : s1 = <<z>>
      BY <2>3
    <3>2. <<z>> \in Seq(X) /\ Len(<<z>>) = 1
      BY <2>1
    <3> QED
      BY <3>1, <3>2
  <2> QED
    BY <1>3, <2>2, <2>3
<1> DEFINE t2 == For("charge")  t3 == For("refund")  t4 == For("cancel")
<1>9. s4 \in Seq(X) /\ \A i \in 1 .. Len(s4) : s4[i] \in Y \/ i = 1
  <2>0. t2 \in Seq(Y) /\ t3 \in Seq(Y) /\ t4 \in Seq(Y) /\ s2 = s1 \o t2 /\ s3 = s2 \o t3 /\ s4 = s3 \o t4
    BY <1>5
  <2> HIDE DEF For, s1, X, Y, Z, t2, t3, t4, s2, s3, s4
  <2>1. s2 \in Seq(X) /\ \A i \in 1 .. Len(s2) : s2[i] \in Y \/ i = 1
    BY <1>4, <2>0, <1>8, FirstOfSequence
  <2>2. s3 \in Seq(X) /\ \A i \in 1 .. Len(s3) : s3[i] \in Y \/ i = 1
    BY <1>4, <2>0, <2>1, FirstOfSequence
  <2> QED
    BY <1>4, <2>0, <2>2, FirstOfSequence
<1>10. Len(s4) \in Nat /\ DOMAIN s4 = 1 .. Len(s4)
  <2> HIDE DEF s4, X
  <2> QED BY <1>9
<1>11. ASSUME NEW i \in DOMAIN s4
       PROVE  LET e == s4[i]
              IN  /\ IsNew(e) /\ e.ref = NoRef /\ (e.action = "authorization" => i = 1)
                  /\ e.result \in {"success", "adjustment"}
                  /\ e.action = "authorization" /\ AuthorizationExists => e.result # "success"
  <2>1. s4[i] \in X /\ (s4[i] \in Y \/ i = 1)
    <3> HIDE DEF s4, X, Y
    <3> QED BY <1>9, <1>10, <1>11
  <2>2. s4[i] \in Y \/ (s4[i] \in Z /\ i = 1)
    <3> HIDE DEF s4, Y, Z
    <3> QED BY <2>1 DEF X
  <2> HIDE DEF s4, X, Y, Z
  <2>3. CASE s4[i] \in Y
    BY <2>3, <1>6
  <2>4. CASE s4[i] \in Z /\ i = 1
    BY <2>4, <1>7
  <2> QED
    BY <2>2, <2>3, <2>4
<1> HIDE DEF s4
<1> QED
  BY <1>1, <1>10, <1>11

\* Making adjustments keeps the tables.
LEMMA TablesUpdateTransaction ==
  ASSUME Tables, NEW w \in Workers, NEW target, UpdateTransaction(w, target),
         DOMAIN target \subseteq Actions, UNCHANGED unsettled
  PROVE  Tables'
<1> USE DEF Tables
<1>1. PICK adjustments :
        LET job == [at |-> "adjusting", target |-> target, adjustments |-> adjustments]
        IN  Become(w, job) /\ JobOK(job, events)
  <2>1. PICK adjustments :
           /\ Become(w, [at |-> "adjusting", target |-> target, adjustments |-> adjustments])
           /\ \E n \in Nat : DOMAIN adjustments = 1 .. n
           /\ \A i \in DOMAIN adjustments :
                LET e == adjustments[i]
                IN  /\ IsNew(e) /\ e.ref = NoRef /\ (e.action = "authorization" => i = 1)
                    /\ e.result \in {"success", "adjustment"}
                    /\ e.action = "authorization" /\ AuthorizationExists => e.result # "success"
    BY AdjustmentsMade
  <2> DEFINE job == [at |-> "adjusting", target |-> target, adjustments |-> adjustments]
  <2>2. job.at = "adjusting" /\ job.adjustments = adjustments /\ Become(w, job)
    BY <2>1
  <2>3. JobOK(job, events)
    <3> HIDE DEF job
    <3> QED BY <2>1, <2>2 DEF JobOK
  <2> QED
    BY <2>2, <2>3
<1>2. UNCHANGED <<events, sent>> /\ Flags' /\ Grown(events, events')
  BY GrownByNothing DEF UpdateTransaction, Begin, Flags
<1> QED
  BY <1>1, <1>2, TablesGrow

\* Rows with the next n keys are stored.
LEMMA GrownByMany ==
  ASSUME NEW S, NEW N \in Nat, KeyedUpTo(S, N), NEW n \in Nat, NEW row,
         \A i \in 1 .. n : IsRow(row[i]) /\ row[i].pk = N + i /\ row[i].at = 2 * (N + i)
  PROVE  Grown(S, S \cup {row[i] : i \in 1 .. n})
<1> DEFINE T == S \cup {row[i] : i \in 1 .. n}
<1>1. ASSUME NEW e \in T
      PROVE  IsRow(e) /\ e.pk \in 1 .. N + n /\ e.at <= 2 * (N + n)
  <2>1. CASE e \in S
    <3>1. IsRow(e) /\ e.pk \in 1 .. N /\ e.at <= 2 * N /\ e.at \in Nat
      BY <2>1 DEF KeyedUpTo, IsRow
    <3> QED BY <3>1
  <2>2. CASE \E i \in 1 .. n : e = row[i]
    BY <2>2
  <2> QED
    BY <2>1, <2>2
<1>2. ASSUME NEW e \in T, NEW f \in T, e.pk = f.pk
      PROVE  e = f
  <2>1. \A g \in S : g.pk \in 1 .. N
    BY DEF KeyedUpTo
  <2>2. \A i \in 1 .. n : row[i].pk = N + i
    OBVIOUS
  <2>3. CASE e \in S /\ f \in S
    BY <2>3, <1>2 DEF KeyedUpTo
  <2>4. CASE e \notin S \/ f \notin S
    <3>1. ASSUME NEW i \in 1 .. n, NEW g \in T, g.pk = N + i PROVE g = row[i]
      BY <3>1, <2>1, <2>2
    <3> QED
      BY <2>4, <3>1, <2>2, <1>2
  <2> QED
    BY <2>3, <2>4
<1>3. ASSUME NEW k \in 1 .. N + n
      PROVE  \E e \in T : e.pk = k
  <2>1. CASE k \in 1 .. N
    BY <2>1 DEF KeyedUpTo
  <2>2. CASE k \notin 1 .. N
    <3>1. k - N \in 1 .. n /\ row[k - N] \in T /\ row[k - N].pk = k
      BY <2>2
    <3> QED BY <3>1
  <2> QED
    BY <2>1, <2>2
<1>4. KeyedUpTo(T, N + n)
  BY <1>1, <1>2, <1>3 DEF KeyedUpTo
<1>5. Cardinality(T) = N + n /\ Cardinality(S) = N
  <2> HIDE DEF T
  <2> QED BY <1>4, KeysCount
<1>6. \A e \in T : e.pk <= N => \E f \in S : f.pk = e.pk /\ Follows(f, e)
  BY DEF Follows
<1> QED
  BY <1>4, <1>5, <1>6 DEF Grown

\* What adjustments become when they are stored.
AdjustedRow(w, i) ==
  [proc[w].adjustments[i] EXCEPT !.pk = Cardinality(events) + i,
                                 !.at = 2 * (Cardinality(events) + i)]

\* The adjustments have the next keys and times, and are what they were.
LEMMA AdjustmentsStored ==
  ASSUME Tables, NEW w \in Workers, InsertAdjustments(w)
  PROVE  \E n \in Nat :
           /\ DOMAIN proc[w].adjustments = 1 .. n
           /\ events' = events \cup {AdjustedRow(w, i) : i \in 1 .. n}
           /\ \A i \in 1 .. n :
                LET e == proc[w].adjustments[i]
                    f == AdjustedRow(w, i)
                IN  /\ IsRow(f) /\ f.pk = Cardinality(events) + i
                    /\ f.at = 2 * (Cardinality(events) + i)
                    /\ f.action = e.action /\ f.result = e.result /\ f.ref = NoRef /\ f.counted
                    /\ f.action = "authorization" => i = 1
<1> USE DEF Tables
<1> DEFINE new == proc[w].adjustments
           N == Cardinality(events)
<1>1. JobOK(proc[w], events) /\ proc[w].at = "adjusting"
  BY DEF Jobs, InsertAdjustments
<1>2. PICK n \in Nat : DOMAIN new = 1 .. n
  BY <1>1 DEF JobOK, Idle
<1>3. \A i \in 1 .. n : IsNew(new[i]) /\ new[i].ref = NoRef
                        /\ (new[i].action = "authorization" => i = 1)
  BY <1>1, <1>2 DEF JobOK, Idle
<1>4. events' = events \cup {AdjustedRow(w, i) : i \in 1 .. n}
  BY <1>2, Zenon DEF InsertAdjustments, AdjustedRow
<1>5. ASSUME NEW i \in 1 .. n
      PROVE  LET f == AdjustedRow(w, i)
             IN  /\ IsRow(f) /\ f.pk = N + i /\ f.at = 2 * (N + i)
                 /\ f.action = new[i].action /\ f.result = new[i].result
                 /\ f.ref = NoRef /\ f.counted
                 /\ f.action = "authorization" => i = 1
  <2> DEFINE e == new[i]
  <2>1. IsRow(e) /\ e.counted /\ e.ref = NoRef /\ (e.action = "authorization" => i = 1)
    BY <1>3, NewIsRow
  <2>2. N + i \in Nat /\ 2 * (N + i) \in Nat
    BY DEF Keyed
  <2>3. AdjustedRow(w, i) = [e EXCEPT !.pk = N + i, !.at = 2 * (N + i)]
    BY DEF AdjustedRow
  <2> HIDE DEF e, N
  <2>4. PICK f : f = AdjustedRow(w, i)
    OBVIOUS
  <2>5. /\ IsRow(f) /\ f.pk = N + i /\ f.at = 2 * (N + i)
        /\ f.action = e.action /\ f.result = e.result /\ f.ref = e.ref /\ f.counted = e.counted
    BY <2>1, <2>2, <2>3, <2>4 DEF IsRow
  <2> QED
    BY <2>1, <2>4, <2>5 DEF e
<1> QED
  BY <1>2, <1>4, <1>5

\* Storing adjustments keeps the tables.
LEMMA TablesInsertAdjustments ==
  ASSUME Tables, NEW w \in Workers, InsertAdjustments(w), Flags'
  PROVE  Tables'
<1> USE DEF Tables
<1>1. PICK n \in Nat :
           /\ DOMAIN proc[w].adjustments = 1 .. n
           /\ events' = events \cup {AdjustedRow(w, i) : i \in 1 .. n}
           /\ \A i \in 1 .. n :
                LET f == AdjustedRow(w, i)
                IN  /\ IsRow(f) /\ f.pk = Cardinality(events) + i
                    /\ f.at = 2 * (Cardinality(events) + i)
  BY AdjustmentsStored
<1> DEFINE row == [i \in 1 .. n |-> AdjustedRow(w, i)]
<1>2. events' = events \cup {row[i] : i \in 1 .. n}
  BY <1>1
<1>3. \A i \in 1 .. n : /\ IsRow(row[i]) /\ row[i].pk = Cardinality(events) + i
                        /\ row[i].at = 2 * (Cardinality(events) + i)
  BY <1>1
<1>4. Grown(events, events')
  <2> HIDE DEF row
  <2> QED
    BY <1>2, <1>3, GrownByMany DEF Keyed
<1>5. UNCHANGED sent /\ Become(w, Calculate(proc[w].target))
  BY DEF InsertAdjustments
<1>6. JobOK(Calculate(proc[w].target), events')
  BY DEF Calculate, JobOK
<1> QED
  BY <1>4, <1>5, <1>6, TablesGrow

\* A transaction that begins has one event at most.
LEMMA InitialEvents ==
  ASSUME Init
  PROVE  \/ events = {}
         \/ \E e : /\ events = {e} /\ IsRow(e) /\ e.pk = 1 /\ e.at = 2
                   /\ e.result = "request" /\ ~e.counted /\ e.action \in Sessions
<1>1. SUFFICES ASSUME events # {}
               PROVE  \E e : /\ events = {e} /\ IsRow(e) /\ e.pk = 1 /\ e.at = 2
                             /\ e.result = "request" /\ ~e.counted /\ e.action \in Sessions
  OBVIOUS
<1>2. PICK a \in Sessions, n \in Amounts : events = {Opened(a, n)}
  BY <1>1 DEF Init
<1> DEFINE e0 == Event(a, "request", NoRef, n)
           e == Opened(a, n)
<1>3. IsRow(e0) /\ e0.result = "request" /\ e0.action = a
  <2>1. a \in Actions /\ "request" \in Results
    BY TransactionAssumption DEF Actions, Results
  <2> QED
    BY <2>1 DEF Event, IsRow
<1>4. e = [e0 EXCEPT !.pk = 1, !.at = 2, !.counted = FALSE]
  BY DEF Opened
<1> HIDE DEF e0, e
<1>5. IsRow(e) /\ e.pk = 1 /\ e.at = 2 /\ e.result = "request" /\ ~e.counted /\ e.action = a
  BY <1>3, <1>4 DEF IsRow
<1> QED
  BY <1>2, <1>5 DEF e

\* A transaction begins with well-kept tables.
LEMMA TablesInit == Init => Tables
<1> SUFFICES ASSUME Init PROVE Tables
  OBVIOUS
<1>1. \E n \in Nat : KeyedUpTo(events, n)
  <2>1. CASE events = {}
    <3>1. KeyedUpTo(events, 0)
      BY <2>1 DEF KeyedUpTo
    <3> QED BY <3>1
  <2>2. CASE \E e : events = {e} /\ IsRow(e) /\ e.pk = 1 /\ e.at = 2
    <3>1. KeyedUpTo(events, 1)
      BY <2>2 DEF KeyedUpTo
    <3> QED BY <3>1
  <2> QED
    BY <2>1, <2>2, InitialEvents
<1>2. Keyed
  BY <1>1, KeysCount DEF Keyed
<1>3. Procs /\ Jobs
  BY DEF Init, Procs, Jobs, JobOK
<1>4. Sent /\ Flags
  BY DEF Init, Sent, Flags
<1> QED
  BY <1>2, <1>3, <1>4 DEF Tables

\* The steps of Next, with what their parameters are.
LEMMA NextCases ==
  ASSUME Next
  PROVE  \/ \E w \in Workers : \E e : /\ IsNew(e) /\ e.ref \in Refs /\ e.amount \in Amounts
                                   /\ Report(w, e) /\ UNCHANGED unsettled
         \/ \E action \in {"charge", "refund", "cancel"} : \E n \in Amounts :
              RequestAction(action, n) /\ UNCHANGED <<known, unsettled>>
         \/ \E q \in events : q.pk \in sent /\ AnswerLost(q) /\ UNCHANGED <<raced, unsettled>>
         \/ \E q \in events, w \in Workers, ref \in Refs \cup {NoRef},
               result \in {"none", "success", "failure"} : \E n \in Amounts :
              q.pk \in sent /\ AnswerRequest(w, q, ref, result, n) /\ UNCHANGED unsettled
         \/ \E w \in Workers : ProcessSession(w) /\ UNCHANGED unsettled
         \/ \E w \in Workers : \E target :
              /\ UpdateTransaction(w, target) /\ DOMAIN target \subseteq Actions
              /\ (\A a \in DOMAIN target : target[a] \in Amounts) /\ UNCHANGED unsettled
         \/ \E w \in Workers : Step(w)
<1>1. CASE ReportCall
  <2>1. PICK w \in Workers, type \in Reports, ref \in Refs, n \in Amounts :
          Report(w, Event(type[1], type[2], ref, n))
    BY <1>1 DEF ReportCall
  <2>2. type[1] \in Actions /\ type[2] \in Results
    BY TransactionAssumption DEF Types, Results, Actions
  <2> DEFINE e == Event(type[1], type[2], ref, n)
  <2>3. IsNew(e) /\ e.ref = ref /\ e.amount = n
    BY <2>2 DEF Event, IsNew
  <2> HIDE DEF e
  <2> QED
    BY <1>1, <2>1, <2>3 DEF ReportCall, e
<1>2. CASE RequestCall
  BY <1>2, TransactionAssumption DEF RequestCall
<1>3. CASE AnswerCall
  <2>1. PICK q \in events : /\ q.pk \in sent
          /\ \/ AnswerLost(q)
             \/ \E w \in Workers, ref \in Refs \cup {NoRef},
                   result \in {"none", "success", "failure"}, n \in Amounts :
                  AnswerRequest(w, q, ref, result, n)
    BY <1>3 DEF AnswerCall
  <2>2. UNCHANGED unsettled
    BY <1>3 DEF AnswerCall
  <2>3. CASE AnswerLost(q)
    <3>1. UNCHANGED raced
      BY <2>3 DEF AnswerLost
    <3> QED BY <2>1, <2>2, <2>3, <3>1
  <2> QED
    BY <2>1, <2>2, <2>3
<1>4. CASE SessionCall
  BY <1>4 DEF SessionCall
<1>5. CASE UpdateCall
  <2>1. PICK w \in Workers, which \in SUBSET Updates \ {{}} :
          \E target \in [which -> Amounts] : UpdateTransaction(w, target)
    BY <1>5 DEF UpdateCall
  <2>2. PICK target \in [which -> Amounts] : UpdateTransaction(w, target)
    BY <2>1
  <2>3. DOMAIN target \subseteq Actions /\ \A a \in DOMAIN target : target[a] \in Amounts
    BY TransactionAssumption
  <2> QED
    BY <1>5, <2>2, <2>3 DEF UpdateCall
<1>6. CASE \E w \in Workers : Step(w)
  BY <1>6
<1> QED
  BY <1>1, <1>2, <1>3, <1>4, <1>5, <1>6 DEF Next

\* Every step keeps the tables.
LEMMA TablesKept == Tables /\ [Next]_vars => Tables'
<1> SUFFICES ASSUME Tables, [Next]_vars PROVE Tables'
  OBVIOUS
<1>1. CASE UNCHANGED vars
  BY <1>1 DEF vars, Tables, Keyed, Procs, Jobs, Sent, Flags
<1>2. CASE Next
  <2>1. ASSUME NEW w \in Workers, NEW e, IsNew(e), Report(w, e), UNCHANGED unsettled
        PROVE  Tables'
    BY <2>1, TablesReport
  <2>2. ASSUME NEW action \in {"charge", "refund", "cancel"}, NEW n, RequestAction(action, n),
               UNCHANGED <<known, unsettled>>
        PROVE  Tables'
    <3>1. Flags'
      BY <2>2 DEF RequestAction, Tables, Flags
    <3> QED
      BY <2>2, <3>1, TablesRequestAction
  <2>3. ASSUME NEW q \in events, AnswerLost(q), UNCHANGED <<raced, unsettled>> PROVE Tables'
    <3>1. Flags'
      BY <2>3 DEF Tables, Flags
    <3> QED
      BY <2>3, <3>1, TablesAnswerLost
  <2>4. ASSUME NEW q \in events, NEW w \in Workers, NEW ref \in Refs \cup {NoRef},
               NEW result \in {"none", "success", "failure"}, NEW n, q.pk \in sent,
               AnswerRequest(w, q, ref, result, n), UNCHANGED unsettled
        PROVE  Tables'
    BY <2>4, TablesAnswerRequest
  <2>5. ASSUME NEW w \in Workers, ProcessSession(w), UNCHANGED unsettled PROVE Tables'
    BY <2>5, TablesProcessSession
  <2>6. ASSUME NEW w \in Workers, NEW target, UpdateTransaction(w, target),
               DOMAIN target \subseteq Actions, UNCHANGED unsettled
        PROVE  Tables'
    BY <2>6, TablesUpdateTransaction
  <2>7. ASSUME NEW w \in Workers, Step(w) PROVE Tables'
    <3>1. Flags'
      BY <2>7 DEF Step, Tables, Flags
    <3>2. CASE InsertEvent(w)
      BY <3>1, <3>2, TablesInsertEvent
    <3>3. CASE ReadEvents(w) \/ SaveAmounts(w)
      BY <3>1, <3>3, TablesAmounts
    <3>4. CASE LookUpAnswer(w)
      BY <3>1, <3>4, TablesLookUpAnswer
    <3>5. CASE SessionStep(w)
      BY <3>1, <3>5, TablesSessionUnanswered, TablesSessionPending, TablesSessionAnswered
         DEF SessionStep
    <3>6. CASE InsertAdjustments(w)
      BY <3>1, <3>6, TablesInsertAdjustments
    <3> QED
      BY <2>7, <3>2, <3>3, <3>4, <3>5, <3>6 DEF Step
  <2> QED
    BY <1>2, <2>1, <2>2, <2>3, <2>4, <2>5, <2>6, <2>7, NextCases
<1> QED
  BY <1>1, <1>2

-----------------------------------------------------------------------------
(* Workers that have the transaction to themselves.                        *)

Busy(w) == proc[w] # Idle

Only(w) == \A v \in Workers \ {w} : ~Busy(v)

Alone == ~raced => \A v, w \in Workers : Busy(v) /\ Busy(w) => v = w

\* Who begins a call without a race was the first to work.
LEMMA BeginsAlone ==
  ASSUME NEW w \in Workers, Begin(w), ~raced'
  PROVE  ~raced /\ Only(w) /\ ~Busy(w)
BY DEF Begin, Only, Busy

\* Who takes a step is at work, and races do not begin or end.
LEMMA StepsAlone ==
  ASSUME Alone, NEW w \in Workers, Step(w), ~raced'
  PROVE  ~raced /\ Only(w) /\ Busy(w)
<1>1. UNCHANGED raced
  BY DEF Step
<1>2. Busy(w)
  <2>1. proc[w].at # "idle"
    BY ZenonT(40) DEF Step, InsertEvent, ReadEvents, SaveAmounts, LookUpAnswer, SessionStep,
           SessionUnanswered, SessionPending, SessionAnswered, InsertAdjustments
  <2> QED
    BY <2>1 DEF Busy, Idle
<1> QED
  BY <1>1, <1>2 DEF Alone, Only

\* When only w was at work, only w is after it has done something.
LEMMA AloneAfter ==
  ASSUME Procs, NEW w \in Workers, Only(w), UNCHANGED proc \/ \E job : Become(w, job)
  PROVE  Only(w)' /\ Alone'
<1>1. CASE UNCHANGED proc
  BY <1>1 DEF Only, Alone, Busy
<1>2. CASE \E job : Become(w, job)
  BY <1>2, Becomes DEF Only, Alone, Busy
<1> QED
  BY <1>1, <1>2

\* What each step does with the jobs.
LEMMA JobsChange ==
  ASSUME NEW w \in Workers, Step(w)
  PROVE  \E job : Become(w, job)
<1>1. InsertEvent(w) => \E job : Become(w, job)
  BY DEF InsertEvent
<1>2. ReadEvents(w) \/ SaveAmounts(w) \/ InsertAdjustments(w) => \E job : Become(w, job)
  BY DEF ReadEvents, SaveAmounts, InsertAdjustments
<1>3. LookUpAnswer(w) => \E job : Become(w, job)
  BY DEF LookUpAnswer
<1>4. SessionUnanswered(w) => \E job : Become(w, job)
  BY DEF SessionUnanswered
<1>5. ASSUME NEW action, NEW ref, NEW n, SessionPending(w, action, ref, n)
      PROVE  \E job : Become(w, job)
  BY <1>5 DEF SessionPending
<1>6. ASSUME NEW action, NEW ref, NEW n, NEW result, SessionAnswered(w, action, result, ref, n)
      PROVE  \E job : Become(w, job)
  BY <1>6 DEF SessionAnswered
<1> QED
  BY <1>1, <1>2, <1>3, <1>4, <1>5, <1>6 DEF Step, SessionStep

\* A worker that comes second has raced.
LEMMA AloneKept == Tables /\ Alone /\ [Next]_vars => Alone'
<1> SUFFICES ASSUME Tables, Alone, [Next]_vars, ~raced' PROVE Alone'
  BY DEF Alone
<1>0. Procs
  BY DEF Tables
<1>1. CASE UNCHANGED vars
  BY <1>1 DEF vars, Alone, Busy
<1>2. CASE Next
  <2>1. ASSUME NEW w \in Workers, NEW e, Report(w, e) PROVE Alone'
    BY <1>0, <2>1, BeginsAlone, AloneAfter DEF Report
  <2>2. ASSUME UNCHANGED proc, UNCHANGED raced PROVE Alone'
    BY <2>2 DEF Alone, Busy
  <2>3. ASSUME NEW q, NEW w \in Workers, NEW ref, NEW result, NEW n,
               AnswerRequest(w, q, ref, result, n)
        PROVE  Alone'
    <3>1. \E job : Become(w, job)
      BY <2>3 DEF AnswerRequest
    <3>2. Begin(w)
      BY <2>3 DEF AnswerRequest
    <3> QED
      BY <1>0, <3>1, <3>2, BeginsAlone, AloneAfter
  <2>4. ASSUME NEW w \in Workers, ProcessSession(w) PROVE Alone'
    <3>1. Begin(w) /\ \E job : Become(w, job)
      BY <2>4 DEF ProcessSession
    <3> QED
      BY <1>0, <3>1, BeginsAlone, AloneAfter
  <2>5. ASSUME NEW w \in Workers, NEW target, UpdateTransaction(w, target) PROVE Alone'
    <3>1. Begin(w) /\ \E job : Become(w, job)
      BY <2>5 DEF UpdateTransaction
    <3> QED
      BY <1>0, <3>1, BeginsAlone, AloneAfter
  <2>6. ASSUME NEW w \in Workers, Step(w) PROVE Alone'
    BY <1>0, <2>6, JobsChange, StepsAlone, AloneAfter
  <2>7. ASSUME NEW action, NEW n, RequestAction(action, n) PROVE Alone'
    BY <2>2, <2>7 DEF RequestAction
  <2>8. ASSUME NEW q, AnswerLost(q) PROVE Alone'
    BY <2>2, <2>8 DEF AnswerLost
  <2> QED
    BY <1>2, <2>1, <2>3, <2>4, <2>5, <2>6, <2>7, <2>8, NextCases
<1> QED
  BY <1>1, <1>2

-----------------------------------------------------------------------------
(* An action is reported once.                                             *)

\* One of the events e and f is one too many.
Clash(e, f) ==
  \/ /\ Reported(e) /\ Reported(f)
     /\ e.action = f.action /\ e.result = f.result /\ e.ref = f.ref
  \/ /\ e.action = "authorization" /\ f.action = "authorization"
     /\ e.result = "success" /\ f.result = "success"

Distinct(S) == \A e, f \in S : Clash(e, f) => e = f

Clear(e, S) == \A f \in S : ~Clash(e, f)

\* What is about to be stored has not been stored before.
UnseenJob(job, S) ==
  /\ job.at = "inserting" => Clear(job.event, S)
  /\ job.at = "adjusting" =>
       \A i \in DOMAIN job.adjustments : Clear(job.adjustments[i], S)

Once == ~raced => Distinct(events) /\ \A w \in Workers : UnseenJob(proc[w], events)

\* The events that may clash with others.
MarkedIn(S) ==
  {e \in S : Reported(e) \/ (e.action = "authorization" /\ e.result = "success")}

\* Events that cannot clash make no difference.
LEMMA OnlyMarked ==
  ASSUME NEW S, NEW T, MarkedIn(T) \subseteq MarkedIn(S)
  PROVE  /\ Distinct(S) => Distinct(T)
         /\ \A e : Clear(e, S) => Clear(e, T)
         /\ \A job : UnseenJob(job, S) => UnseenJob(job, T)
<1>1. \A e, f : Clash(e, f) /\ e \in T => e \in S
  BY DEF Clash, MarkedIn
<1>2. \A e, f : Clash(e, f) /\ f \in T => f \in S
  BY DEF Clash, MarkedIn
<1>3. Distinct(S) => Distinct(T)
  BY <1>1, <1>2 DEF Distinct
<1>4. \A e : Clear(e, S) => Clear(e, T)
  BY <1>2 DEF Clear
<1>5. \A job : UnseenJob(job, S) => UnseenJob(job, T)
  BY <1>4 DEF UnseenJob
<1> QED
  BY <1>3, <1>4, <1>5

\* A step that stores nothing that may clash.
LEMMA OnceAfter ==
  ASSUME Procs, Once, ~raced, MarkedIn(events') \subseteq MarkedIn(events),
         \/ UNCHANGED proc
         \/ \E w \in Workers : \E job : Become(w, job) /\ UnseenJob(job, events')
  PROVE  Once'
<1>1. Distinct(events') /\ \A w \in Workers : UnseenJob(proc[w], events')
  BY OnlyMarked DEF Once
<1>2. CASE UNCHANGED proc
  BY <1>1, <1>2 DEF Once
<1>3. ASSUME NEW w \in Workers, NEW job, Become(w, job), UnseenJob(job, events')
      PROVE  Once'
  <2>1. proc'[w] = job /\ \A v \in Workers \ {w} : proc'[v] = proc[v]
    BY <1>3, Becomes
  <2>2. \A v \in Workers : UnseenJob(proc'[v], events')
    BY <2>1, <1>1, <1>3
  <2> QED
    BY <1>1, <2>2 DEF Once
<1> QED
  BY <1>2, <1>3

\* Most jobs store nothing.
LEMMA NothingToStore ==
  ASSUME NEW job, job.at \notin {"inserting", "adjusting"}, NEW S
  PROVE  UnseenJob(job, S)
BY DEF UnseenJob

\* An event that is neither known nor refused has not been stored before.
LEMMA LookedUp ==
  ASSUME Keyed, NEW e, ~Repeated(e), ~Rejected(e)
  PROVE  Clear(e, events)
<1>1. Existing(e) = {}
  BY DEF Rejected
<1>2. \A f \in events : ~(f.action = e.action /\ f.result = e.result /\ f.ref = e.ref)
  BY <1>1, ExistingFound DEF Keyed
<1>3. e.action = "authorization" /\ e.result = "success" => ~AuthorizationExists
  BY <1>1 DEF Rejected
<1> QED
  BY <1>2, <1>3 DEF Clear, Clash, AuthorizationExists

\* Records of failures and requests cannot clash.
LEMMA UnmarkedAdded ==
  ASSUME NEW S, NEW x, x.result = "request" \/ (x.result = "failure" /\ ~x.counted)
  PROVE  MarkedIn(S \cup {x}) \subseteq MarkedIn(S)
BY DEF MarkedIn, Reported

\* Giving requests a reference does not matter either.
LEMMA UnmarkedReferring ==
  ASSUME Keyed, NEW qs, NEW ref,
         \A q \in qs : IsRequest(q, events)
  PROVE  MarkedIn(Referring(qs, ref)) \subseteq MarkedIn(events)
<1> SUFFICES ASSUME NEW f \in Referring(qs, ref), f \notin MarkedIn(events)
             PROVE  f \notin MarkedIn(Referring(qs, ref))
  BY DEF MarkedIn
<1>1. PICK e \in events : f = IF \E q \in qs : q.pk = e.pk THEN [e EXCEPT !.ref = ref] ELSE e
  BY DEF Referring
<1>2. CASE \E q \in qs : q.pk = e.pk
  <2>1. e.result = "request" /\ IsRow(e)
    BY <1>2 DEF IsRequest, Keyed, KeyedUpTo
  <2>2. f.result = "request"
    BY <1>1, <1>2, <2>1 DEF IsRow
  <2> QED
    BY <2>2 DEF MarkedIn, Reported
<1>3. CASE ~\E q \in qs : q.pk = e.pk
  BY <1>1, <1>3 DEF MarkedIn
<1> QED
  BY <1>2, <1>3

\* A report is looked up before it is to be stored.
LEMMA OnceReport ==
  ASSUME Tables, Once, NEW w \in Workers, NEW e, IsNew(e), Report(w, e), ~raced'
  PROVE  Once'
<1> USE DEF Tables
<1>1. ~raced
  BY BeginsAlone DEF Report
<1>2. CASE UNCHANGED <<events, proc>>
  BY <1>1, <1>2, OnceAfter
<1>3. CASE Refuse(e) /\ UNCHANGED proc
  BY <1>1, <1>3, NewIsRow, RefuseGrows, UnmarkedAdded, OnceAfter
<1>4. CASE /\ ~Repeated(e) /\ ~Rejected(e) /\ UNCHANGED events
           /\ Become(w, [at |-> "inserting", event |-> e, source |-> "report", request |-> {}])
  <2>1. Clear(e, events)
    BY <1>4, LookedUp
  <2>2. UnseenJob([at |-> "inserting", event |-> e, source |-> "report", request |-> {}], events')
    BY <2>1, <1>4 DEF UnseenJob
  <2> QED
    BY <1>1, <1>4, <2>2, OnceAfter
<1> QED
  BY <1>2, <1>3, <1>4 DEF Report

\* Requests of staff, and answers that are lost, leave every job alone.
LEMMA OnceAside ==
  ASSUME Tables, Once, UNCHANGED <<proc, raced>>, ~raced',
         NEW x, events' = events \cup {x},
         x.result = "request" \/ (x.result = "failure" /\ ~x.counted)
  PROVE  Once'
BY UnmarkedAdded, OnceAfter DEF Tables

\* A request that is taken over is no outcome.
LEMMA OnceAnswerRequest ==
  ASSUME Tables, Once, NEW w \in Workers, NEW q \in events, q.pk \in sent, NEW ref, NEW result, NEW n,
         AnswerRequest(w, q, ref, result, n), ~raced'
  PROVE  Once'
<1> USE DEF Tables
<1>1. ~raced
  BY BeginsAlone DEF AnswerRequest
<1> DEFINE c == [q EXCEPT !.ref = ref, !.counted = TRUE]
<1>2. c.result = "request"
  BY DEF Sent, Keyed, KeyedUpTo, IsRow
<1>3. events' = (events \ {q}) \cup {c}
  BY DEF AnswerRequest
<1>4. MarkedIn(events') \subseteq MarkedIn(events)
  BY <1>2, <1>3 DEF MarkedIn, Reported
<1>5. PICK job : Become(w, job) /\ job.at \notin {"inserting", "adjusting"}
  BY DEF AnswerRequest, Calculate
<1> QED
  BY <1>1, <1>4, <1>5, NothingToStore, OnceAfter

\* A session that begins stores nothing.
LEMMA OnceProcessSession ==
  ASSUME Tables, Once, NEW w \in Workers, ProcessSession(w), ~raced'
  PROVE  Once'
<1>1. ~raced
  BY BeginsAlone DEF ProcessSession
<1>2. PICK job : Become(w, job) /\ job.at \notin {"inserting", "adjusting"}
  BY DEF ProcessSession
<1> QED
  BY <1>1, <1>2, NothingToStore, OnceAfter DEF ProcessSession, Tables

\* A transaction that has been authorized is adjusted instead.
LEMMA OnceUpdateTransaction ==
  ASSUME Tables, Once, NEW w \in Workers, NEW target, UpdateTransaction(w, target),
         DOMAIN target \subseteq Actions, ~raced'
  PROVE  Once'
<1>1. ~raced /\ UNCHANGED events
  BY BeginsAlone DEF UpdateTransaction
<1>2. PICK adjustments :
         /\ Become(w, [at |-> "adjusting", target |-> target, adjustments |-> adjustments])
         /\ \A i \in DOMAIN adjustments :
              LET e == adjustments[i]
              IN  /\ IsNew(e) /\ e.ref = NoRef /\ (e.action = "authorization" => i = 1)
                  /\ e.result \in {"success", "adjustment"}
                  /\ e.action = "authorization" /\ AuthorizationExists => e.result # "success"
  BY AdjustmentsMade
<1>3. ASSUME NEW i \in DOMAIN adjustments PROVE Clear(adjustments[i], events)
  <2>1. adjustments[i].ref = NoRef
    BY <1>2
  <2>2. adjustments[i].action = "authorization" /\ AuthorizationExists =>
          adjustments[i].result # "success"
    BY <1>2
  <2> QED
    BY <2>1, <2>2 DEF Clear, Clash, Reported, AuthorizationExists
<1> DEFINE job == [at |-> "adjusting", target |-> target, adjustments |-> adjustments]
<1>4. UnseenJob(job, events')
  BY <1>1, <1>3 DEF UnseenJob
<1> QED
  BY <1>1, <1>2, <1>4, OnceAfter DEF Tables

\* The event that is stored has not been stored before.
LEMMA OnceInsertEvent ==
  ASSUME Tables, Once, NEW w \in Workers, InsertEvent(w), ~raced, Only(w)
  PROVE  Once'
<1> USE DEF Tables
<1> DEFINE job == proc[w]
           T == Referring(job.request, job.event.ref)
<1>1. job.at = "inserting" /\ IsNew(job.event) /\ \A q \in job.request : IsRequest(q, events)
  <2>1. job.at = "inserting"
    BY DEF InsertEvent
  <2>2. JobOK(job, events)
    BY DEF Jobs
  <2> QED
    BY <2>1, <2>2 DEF JobOK, Idle
<1>2. PICK x \in {Stored(job.event)} \cup StoredLate(job.event) : events' = T \cup {x}
  BY DEF InsertEvent
<1>3. /\ x.action = job.event.action /\ x.result = job.event.result
      /\ x.ref = job.event.ref /\ x.counted = job.event.counted
  BY <1>1, NewIsRow, StoredIsRow
<1>4. MarkedIn(T) \subseteq MarkedIn(events)
  BY <1>1, UnmarkedReferring
<1>5. Distinct(T) /\ Clear(job.event, T)
  <2>1. Distinct(events) /\ Clear(job.event, events)
    BY <1>1 DEF Once, UnseenJob
  <2> QED
    BY <1>4, <2>1, OnlyMarked
<1>6. Clear(x, T)
  BY <1>3, <1>5 DEF Clear, Clash, Reported
<1>7. Distinct(events')
  <2>1. \A e, f : Clash(e, f) = Clash(f, e)
    BY DEF Clash
  <2> QED
    BY <1>2, <1>5, <1>6, <2>1 DEF Distinct, Clear
<1>8. PICK new : Become(w, new) /\ new.at \notin {"inserting", "adjusting"}
  BY DEF InsertEvent, Calculate, Idle
<1>9. ASSUME NEW v \in Workers PROVE UnseenJob(proc'[v], events')
  <2>1. CASE v = w
    BY <2>1, <1>8, Becomes, NothingToStore
  <2>2. CASE v # w /\ Only(w)
    BY <2>2, <1>8, Becomes, NothingToStore DEF Only, Busy, Idle
  <2> QED
    BY <2>1, <2>2
<1> QED
  BY <1>7, <1>9 DEF Once

\* transactionUpdate stores one authorization at most, if there was none.
LEMMA OnceInsertAdjustments ==
  ASSUME Tables, Once, NEW w \in Workers, InsertAdjustments(w), ~raced, Only(w)
  PROVE  Once'
<1> USE DEF Tables
<1> DEFINE new == proc[w].adjustments
<1>1. PICK n \in Nat :
           /\ DOMAIN new = 1 .. n
           /\ events' = events \cup {AdjustedRow(w, i) : i \in 1 .. n}
           /\ \A i \in 1 .. n :
                LET e == new[i]
                    f == AdjustedRow(w, i)
                IN  /\ IsRow(f) /\ f.pk = Cardinality(events) + i
                    /\ f.at = 2 * (Cardinality(events) + i)
                    /\ f.action = e.action /\ f.result = e.result /\ f.ref = NoRef /\ f.counted
                    /\ f.action = "authorization" => i = 1
  BY AdjustmentsStored
<1>2. Distinct(events) /\ \A i \in 1 .. n : Clear(new[i], events)
  BY <1>1 DEF Once, UnseenJob, InsertAdjustments
<1>3. ASSUME NEW i \in 1 .. n PROVE Clear(AdjustedRow(w, i), events)
  <2>1. /\ AdjustedRow(w, i).action = new[i].action
        /\ AdjustedRow(w, i).result = new[i].result
        /\ AdjustedRow(w, i).ref = NoRef
    BY <1>1
  <2> QED
    BY <1>2, <2>1 DEF Clear, Clash, Reported
<1>4. ASSUME NEW i \in 1 .. n, NEW j \in 1 .. n, Clash(AdjustedRow(w, i), AdjustedRow(w, j))
      PROVE  AdjustedRow(w, i) = AdjustedRow(w, j)
  <2>1. AdjustedRow(w, i).ref = NoRef
    BY <1>1
  <2>2. AdjustedRow(w, i).action = "authorization" /\ AdjustedRow(w, j).action = "authorization"
    BY <1>4, <2>1 DEF Clash, Reported
  <2>3. i = 1 /\ j = 1
    BY <1>1, <2>2
  <2> QED
    BY <2>3
<1>5. Distinct(events')
  <2>1. \A e, f : Clash(e, f) = Clash(f, e)
    BY DEF Clash
  <2> SUFFICES ASSUME NEW e \in events', NEW f \in events', Clash(e, f) PROVE e = f
    BY DEF Distinct
  <2>2. CASE e \in events /\ f \in events
    BY <1>2, <2>2 DEF Distinct
  <2>3. CASE e \in events /\ \E i \in 1 .. n : f = AdjustedRow(w, i)
    BY <1>3, <2>1, <2>3 DEF Clear
  <2>4. CASE f \in events /\ \E i \in 1 .. n : e = AdjustedRow(w, i)
    BY <1>3, <2>4 DEF Clear
  <2>5. CASE (\E i \in 1 .. n : e = AdjustedRow(w, i)) /\ (\E i \in 1 .. n : f = AdjustedRow(w, i))
    BY <1>4, <2>5
  <2> QED
    BY <1>1, <2>2, <2>3, <2>4, <2>5
<1>6. Become(w, Calculate(proc[w].target))
  BY DEF InsertAdjustments
<1>7. ASSUME NEW v \in Workers PROVE UnseenJob(proc'[v], events')
  <2>1. CASE v = w
    BY <2>1, <1>6, Becomes, NothingToStore DEF Calculate
  <2>2. CASE v # w
    BY <2>2, <1>6, Becomes, NothingToStore DEF Only, Busy, Idle
  <2> QED
    BY <2>1, <2>2
<1> QED
  BY <1>5, <1>7 DEF Once

\* An answer is looked up before it is to be stored.
LEMMA OnceLookUpAnswer ==
  ASSUME Tables, Once, NEW w \in Workers, LookUpAnswer(w), ~raced
  PROVE  Once'
<1> USE DEF Tables
<1> DEFINE job == proc[w]
           e == job.event
<1>1. CASE Become(w, Calculate(NoTarget)) /\ UNCHANGED events
  BY <1>1, NothingToStore, OnceAfter DEF Calculate
<1>2. CASE Become(w, Idle) /\ \E q \in job.request : Refuse(q)
  <2>1. JobOK(job, events) /\ job.at = "answering"
    BY DEF Jobs, LookUpAnswer
  <2>2. PICK q : IsRow(q) /\ Refuse(q)
    BY <1>2, <2>1 DEF JobOK, Idle, IsRequest
  <2>3. MarkedIn(events') \subseteq MarkedIn(events)
    BY <2>2, RefuseGrows, UnmarkedAdded
  <2>4. UnseenJob(Idle, events')
    BY NothingToStore DEF Idle
  <2> QED
    BY <1>2, <2>3, <2>4, OnceAfter
<1> DEFINE new == [at |-> "inserting", event |-> e, source |-> "request", request |-> {}]
<1>3. CASE ~Repeated(e) /\ ~Rejected(e) /\ Become(w, new) /\ UNCHANGED events
  <2>1. Clear(e, events)
    BY <1>3, LookedUp
  <2>2. UnseenJob(new, events')
    BY <2>1, <1>3 DEF UnseenJob
  <2> QED
    BY <1>3, <2>2, OnceAfter
<1> QED
  BY <1>1, <1>2, <1>3 DEF LookUpAnswer

\* The record of a session that failed does not clash.
LEMMA OnceSessionUnanswered ==
  ASSUME Tables, Once, NEW w \in Workers, SessionUnanswered(w), ~raced
  PROVE  Once'
<1> USE DEF Tables
<1>1. PICK q : proc[w].request = {q} /\ IsRequest(q, events)
  BY SessionRequest DEF SessionUnanswered
<1>2. Refuse(q) /\ Become(w, Idle) /\ IsRow(q)
  BY <1>1 DEF SessionUnanswered, IsRequest
<1>3. MarkedIn(events') \subseteq MarkedIn(events)
  BY <1>2, RefuseGrows, UnmarkedAdded
<1>4. UnseenJob(Idle, events')
  BY NothingToStore DEF Idle
<1> QED
  BY <1>2, <1>3, <1>4, OnceAfter

\* Nor does the request of one that is pending.
LEMMA OnceSessionPending ==
  ASSUME Tables, Once, NEW w \in Workers, NEW action, NEW ref, NEW n,
         SessionPending(w, action, ref, n), ~raced
  PROVE  Once'
<1> USE DEF Tables
<1>1. PICK q : events' = {e \in events : e.pk # q.pk}
         \cup {[Event(action, "request", ref, n) EXCEPT !.pk = q.pk, !.at = q.at]}
  BY DEF SessionPending
<1> DEFINE d == [Event(action, "request", ref, n) EXCEPT !.pk = q.pk, !.at = q.at]
<1>2. d.result = "request"
  BY DEF Event
<1>3. MarkedIn(events') \subseteq MarkedIn(events)
  <2> HIDE DEF d
  <2> QED
    BY <1>1, <1>2 DEF MarkedIn, Reported, d
<1>4. Become(w, Calculate(NoTarget)) /\ UnseenJob(Calculate(NoTarget), events')
  BY NothingToStore DEF SessionPending, Calculate
<1> QED
  BY <1>3, <1>4, OnceAfter

\* The outcome of a session is looked up before it is to be stored.
LEMMA OnceSessionAnswered ==
  ASSUME Tables, Once, NEW w \in Workers, NEW action, NEW ref, NEW n, NEW result,
         SessionAnswered(w, action, result, ref, n), ~raced
  PROVE  Once'
<1> USE DEF Tables
<1> DEFINE e == Event(action, result, ref, n)
<1>1. PICK q : proc[w].request = {q} /\ IsRequest(q, events)
  BY SessionRequest DEF SessionAnswered
<1>2. CASE Become(w, Idle) /\ \E r \in proc[w].request : Refuse(r)
  <2>1. Refuse(q) /\ IsRow(q)
    BY <1>1, <1>2 DEF IsRequest
  <2>2. MarkedIn(events') \subseteq MarkedIn(events)
    BY <2>1, RefuseGrows, UnmarkedAdded
  <2>3. UnseenJob(Idle, events')
    BY NothingToStore DEF Idle
  <2> QED
    BY <1>2, <2>2, <2>3, OnceAfter
<1>3. CASE /\ events' = Referring(proc[w].request, ref)
           /\ Become(w, IF result = "failure" THEN Idle ELSE Calculate(NoTarget))
  <2>1. MarkedIn(events') \subseteq MarkedIn(events)
    BY <1>1, <1>3, UnmarkedReferring
  <2>2. UnseenJob(Idle, events') /\ UnseenJob(Calculate(NoTarget), events')
    BY NothingToStore DEF Idle, Calculate
  <2>3. Become(w, Idle) \/ Become(w, Calculate(NoTarget))
    BY <1>3
  <2> QED
    BY <2>1, <2>2, <2>3, OnceAfter
<1> DEFINE job == [at |-> "inserting", event |-> e, source |-> "session",
                   request |-> proc[w].request]
<1>4. CASE ~Repeated(e) /\ ~Rejected(e) /\ UNCHANGED events /\ Become(w, job)
  <2> HIDE DEF e
  <2>1. Clear(e, events)
    BY <1>4, LookedUp
  <2>2. UnseenJob(job, events')
    BY <2>1, <1>4 DEF UnseenJob
  <2> QED
    BY <1>4, <2>2, OnceAfter
<1> QED
  BY <1>2, <1>3, <1>4 DEF SessionAnswered

\* Every step of somebody who is alone keeps events apart.
LEMMA OnceKept == Tables /\ Alone /\ Once /\ [Next]_vars => Once'
<1> SUFFICES ASSUME Tables, Alone, Once, [Next]_vars, ~raced' PROVE Once'
  BY DEF Once
<1>1. CASE UNCHANGED vars
  BY <1>1 DEF vars, Once
<1>2. CASE Next
  <2>1. ASSUME NEW w \in Workers, NEW e, IsNew(e), Report(w, e) PROVE Once'
    BY <2>1, OnceReport
  <2>2. ASSUME NEW action \in {"charge", "refund", "cancel"}, NEW n, RequestAction(action, n),
               UNCHANGED unsettled
        PROVE  Once'
    <3>1. Flags' /\ UNCHANGED <<proc, raced>>
      BY <2>2 DEF RequestAction, Tables, Flags
    <3> QED
      BY <2>2, <3>1, TablesRequestAction, OnceAside
  <2>3. ASSUME NEW q \in events, AnswerLost(q), UNCHANGED <<raced, unsettled>> PROVE Once'
    <3>1. Flags' /\ UNCHANGED <<proc, raced>>
      BY <2>3 DEF AnswerLost, Tables, Flags
    <3> QED
      BY <2>3, <3>1, TablesAnswerLost, OnceAside
  <2>4. ASSUME NEW q \in events, NEW w \in Workers, NEW ref, NEW result, NEW n, q.pk \in sent,
               AnswerRequest(w, q, ref, result, n)
        PROVE  Once'
    BY <2>4, OnceAnswerRequest
  <2>5. ASSUME NEW w \in Workers, ProcessSession(w) PROVE Once'
    BY <2>5, OnceProcessSession
  <2>6. ASSUME NEW w \in Workers, NEW target, UpdateTransaction(w, target),
               DOMAIN target \subseteq Actions
        PROVE  Once'
    BY <2>6, OnceUpdateTransaction
  <2>7. ASSUME NEW w \in Workers, Step(w) PROVE Once'
    <3>1. ~raced /\ Only(w)
      BY <2>7, StepsAlone
    <3>2. CASE InsertEvent(w)
      BY <3>1, <3>2, OnceInsertEvent
    <3>3. CASE ReadEvents(w) \/ SaveAmounts(w)
      <4>1. PICK job : Become(w, job) /\ job.at \in {"saving", "idle"}
        BY <3>3 DEF ReadEvents, SaveAmounts, Idle
      <4>2. UNCHANGED events /\ UnseenJob(job, events')
        BY <3>3, <4>1, NothingToStore DEF ReadEvents, SaveAmounts
      <4> QED
        BY <3>1, <4>1, <4>2, OnceAfter DEF Tables
    <3>4. CASE LookUpAnswer(w)
      BY <3>1, <3>4, OnceLookUpAnswer
    <3>5. CASE SessionStep(w)
      BY <3>1, <3>5, OnceSessionUnanswered, OnceSessionPending, OnceSessionAnswered
         DEF SessionStep
    <3>6. CASE InsertAdjustments(w)
      BY <3>1, <3>6, OnceInsertAdjustments
    <3> QED
      BY <2>7, <3>2, <3>3, <3>4, <3>5, <3>6 DEF Step
  <2> QED
    BY <1>2, <2>1, <2>2, <2>3, <2>4, <2>5, <2>6, <2>7, NextCases
<1> QED
  BY <1>1, <1>2

\* Nobody works on a transaction that begins.
LEMMA AloneInit == Init => Alone
BY DEF Init, Alone, Busy

\* It has one event at most.
LEMMA OnceInit == Init => Once
<1> SUFFICES ASSUME Init PROVE Once
  OBVIOUS
<1>1. Distinct(events)
  BY InitialEvents DEF Distinct
<1>2. \A w \in Workers : UnseenJob(proc[w], events)
  BY NothingToStore DEF Init, Idle
<1> QED
  BY <1>1, <1>2 DEF Once

\* ReportedOnceAlone follows.
LEMMA OnceIsReportedOnce == Once => ReportedOnceAlone
BY DEF Once, ReportedOnceAlone, SingleEvent, Distinct, Clash

\* transactionEventReport and deduplicate_event: as long as no two workers
\* have the transaction at a time, one event is stored for an action with a
\* reference, and one authorization.
THEOREM ReportedOnceAlways == Spec => []ReportedOnceAlone
<1> DEFINE Safe == Tables /\ Alone /\ Once
<1>1. Init => Safe
  BY TablesInit, AloneInit, OnceInit
<1>2. Safe /\ [Next]_vars => Safe'
  BY TablesKept, AloneKept, OnceKept
<1>3. Safe => ReportedOnceAlone
  BY OnceIsReportedOnce
<1> QED
  BY <1>1, <1>2, <1>3, PTL DEF Spec

-----------------------------------------------------------------------------
(* Amounts follow events.                                                  *)

\* The amounts am are those of the events S, unless an answer was refused.
Right(S, am, un) == ~un => am = Recalculated(S)

Undecided(S) == \A e \in S : ~(Final(e) /\ e.counted)

\* What a job relies on.
SettledJob(job, S, am, un) ==
  /\ job.at = "saving" => job.amounts = Recalculated(S)
  /\ job.at = "processing" \/ (job.at = "inserting" /\ job.source = "session") =>
       /\ Undecided(S) /\ Right(S, am, un)
       /\ \A q \in job.request : q \in S /\ ~q.counted
  /\ job.at = "answering" =>
       \A q \in job.request : ~q.counted =>
         LET c == [q EXCEPT !.counted = TRUE]
         IN  c \in S /\ q.action # "authorization" /\ Right(S \ {c}, am, un)

Settled ==
  ~raced =>
    /\ \A w \in Workers : SettledJob(proc[w], events, amounts, unsettled)
    /\ (\A w \in Workers : ~Busy(w)) => Right(events, amounts, unsettled)

\* Who is idle relies on nothing, nor who calculates.
LEMMA ReliesOnNothing ==
  ASSUME NEW job, job.at \in {"idle", "calculating", "adjusting"}
         \/ (job.at = "inserting" /\ job.source # "session"),
         NEW S, NEW am, NEW un
  PROVE  SettledJob(job, S, am, un)
BY DEF SettledJob

\* What is left when the only worker has done something.
LEMMA SettledAfter ==
  ASSUME Procs, NEW w \in Workers, Only(w), NEW job, Become(w, job),
         SettledJob(job, events', amounts', unsettled'),
         job = Idle => Right(events', amounts', unsettled')
  PROVE  Settled'
<1>1. proc'[w] = job /\ \A v \in Workers \ {w} : proc'[v] = Idle
  BY Becomes DEF Only, Busy
<1>2. SettledJob(Idle, events', amounts', unsettled')
  BY ReliesOnNothing DEF Idle
<1>3. \A v \in Workers : SettledJob(proc'[v], events', amounts', unsettled')
  BY <1>1, <1>2
<1> QED
  BY <1>1, <1>3 DEF Settled, Busy

\* Nothing that counts is stored or changed.
LEMMA SettledAside ==
  ASSUME Jobs, Settled, ~raced, UNCHANGED <<proc, amounts, unsettled>>,
         NEW x, ~x.counted, events' = events \cup {x}
  PROVE  Settled'
<1>1. ASSUME NEW am, NEW un PROVE Right(events, am, un) = Right(events', am, un)
  <2>1. CountedIn(events') = CountedIn(events)
    BY DEF CountedIn
  <2> QED
    BY <2>1, SameCounted DEF Right
<1>2. ASSUME NEW c, c.counted, NEW am, NEW un
      PROVE  Right(events \ {c}, am, un) = Right(events' \ {c}, am, un)
  <2>1. CountedIn(events' \ {c}) = CountedIn(events \ {c})
    BY DEF CountedIn
  <2> QED
    BY <2>1, SameCounted DEF Right
<1>3. Undecided(events) => Undecided(events')
  BY DEF Undecided
<1>4. ASSUME NEW w \in Workers, SettledJob(proc[w], events, amounts, unsettled)
      PROVE  SettledJob(proc[w], events', amounts, unsettled)
  <2> DEFINE job == proc[w]
  <2>1. CASE job.at = "saving"
    <3>1. CountedIn(events') = CountedIn(events)
      BY DEF CountedIn
    <3> QED
      BY <1>4, <2>1, <3>1, SameCounted DEF SettledJob
  <2>2. CASE job.at = "processing" \/ (job.at = "inserting" /\ job.source = "session")
    BY <1>1, <1>3, <1>4, <2>2 DEF SettledJob
  <2>3. CASE job.at = "answering"
    <3>1. ASSUME NEW q \in job.request, ~q.counted
          PROVE  LET c == [q EXCEPT !.counted = TRUE]
                 IN  /\ c \in events' /\ q.action # "authorization"
                     /\ Right(events' \ {c}, amounts, unsettled)
      <4> DEFINE c == [q EXCEPT !.counted = TRUE]
      <4>1. c \in events /\ q.action # "authorization" /\ Right(events \ {c}, amounts, unsettled)
        BY <1>4, <2>3, <3>1 DEF SettledJob
      <4>2. c.counted
        <5>1. JobOK(job, events)
          BY DEF Jobs
        <5>2. IsRow(q)
          BY <2>3, <3>1, <5>1 DEF JobOK, Idle, IsRequest
        <5> QED
          BY <5>2 DEF IsRow
      <4> HIDE DEF c
      <4>3. Right(events' \ {c}, amounts, unsettled)
        BY <1>2, <4>1, <4>2
      <4> QED
        BY <4>1, <4>3 DEF c
    <3> QED
      BY <2>3, <3>1 DEF SettledJob
  <2> QED
    BY <2>1, <2>2, <2>3 DEF SettledJob
<1> QED
  BY <1>1, <1>4 DEF Settled, Busy

\* A record of a failure does not count.
LEMMA RefuseSame ==
  ASSUME Keyed, NEW e, IsRow(e), Refuse(e)
  PROVE  CountedIn(events') = CountedIn(events) /\ events \subseteq events'
BY RefuseGrows DEF CountedIn

\* A request that does not count may be given a reference.
LEMMA ReferringSame ==
  ASSUME Keyed, NEW qs, NEW ref, \A q \in qs : q \in events /\ ~q.counted
  PROVE  CountedIn(Referring(qs, ref)) = CountedIn(events)
<1>1. ASSUME NEW e \in events, \E q \in qs : q.pk = e.pk
      PROVE  ~e.counted /\ ~[e EXCEPT !.ref = ref].counted
  <2>1. e \in qs /\ IsRow(e)
    BY <1>1 DEF Keyed, KeyedUpTo
  <2> QED
    BY <2>1 DEF IsRow
<1>2. ASSUME NEW f \in CountedIn(Referring(qs, ref)) PROVE f \in CountedIn(events)
  <2>1. PICK e \in events : f = IF \E q \in qs : q.pk = e.pk THEN [e EXCEPT !.ref = ref] ELSE e
    BY DEF Referring, CountedIn
  <2> QED
    BY <1>1, <2>1 DEF CountedIn
<1>3. ASSUME NEW e \in CountedIn(events) PROVE e \in CountedIn(Referring(qs, ref))
  <2>1. ~\E q \in qs : q.pk = e.pk
    BY <1>1 DEF CountedIn
  <2> QED
    BY <2>1 DEF Referring, CountedIn
<1> QED
  BY <1>2, <1>3

\* Who begins without a race finds the amounts right.
LEMMA BeginsRight ==
  ASSUME Settled, NEW w \in Workers, Begin(w), ~raced'
  PROVE  Only(w) /\ Right(events, amounts, unsettled)
BY BeginsAlone DEF Settled, Only

\* A report that is refused changes no amounts; another one is to be stored.
LEMMA SettledReport ==
  ASSUME Tables, Settled, NEW w \in Workers, NEW e, IsNew(e), Report(w, e), UNCHANGED unsettled,
         ~raced'
  PROVE  Settled'
<1> USE DEF Tables
<1>1. ~raced /\ Only(w) /\ UNCHANGED amounts
  BY BeginsAlone DEF Report
<1>2. CASE UNCHANGED <<events, proc>>
  BY <1>1, <1>2 DEF Settled, Busy
<1>3. CASE Refuse(e) /\ UNCHANGED proc
  <2>1. \E x : events' = events \cup {x} /\ ~x.counted
    BY <1>3, NewIsRow, RefuseGrows
  <2> QED
    BY <1>1, <1>3, <2>1, SettledAside
<1> DEFINE job == [at |-> "inserting", event |-> e, source |-> "report", request |-> {}]
<1>4. CASE Become(w, job)
  <2>1. SettledJob(job, events', amounts', unsettled') /\ job # Idle
    BY ReliesOnNothing DEF Idle
  <2> QED
    BY <1>1, <1>4, <2>1, SettledAfter
<1> QED
  BY <1>2, <1>3, <1>4 DEF Report

\* The request begins to count; its outcome may make no difference to that.
LEMMA SettledAnswerRequest ==
  ASSUME Tables, Settled, NEW w \in Workers, NEW q \in events, q.pk \in sent,
         NEW ref \in Refs \cup {NoRef}, NEW result, NEW n,
         AnswerRequest(w, q, ref, result, n), UNCHANGED unsettled, ~raced'
  PROVE  Settled'
<1> USE DEF Tables
<1>1. ~raced /\ Only(w) /\ UNCHANGED amounts /\ Right(events, amounts, unsettled)
  BY BeginsAlone, BeginsRight DEF AnswerRequest
<1>2. CASE Become(w, Calculate(NoTarget))
  <2>1. SettledJob(Calculate(NoTarget), events', amounts', unsettled') /\ Calculate(NoTarget) # Idle
    BY ReliesOnNothing DEF Calculate, Idle
  <2> QED
    BY <1>1, <1>2, <2>1, SettledAfter
<1> DEFINE r == [q EXCEPT !.ref = ref]
           c == [q EXCEPT !.ref = ref, !.counted = TRUE]
           event == Event(q.action, result, ref, n)
           job == [at |-> "answering", event |-> event, request |-> {r}]
<1>3. CASE Become(w, job)
  <2>1. /\ IsRow(r) /\ r.action = q.action /\ r.counted = q.counted
        /\ c.pk = q.pk /\ c.counted = TRUE /\ [r EXCEPT !.counted = TRUE] = c
    <3>1. IsRow(q)
      BY DEF Keyed, KeyedUpTo
    <3> QED
      BY <3>1, TakenOver
  <2>2. events' = (events \ {q}) \cup {c}
    BY DEF AnswerRequest
  <2> HIDE DEF c, r, event
  <2>3. ASSUME ~q.counted
        PROVE  /\ c \in events' /\ r.action # "authorization"
               /\ Right(events' \ {c}, amounts', unsettled')
    <3>1. q.action # "authorization"
      BY <2>3 DEF Sent
    <3>2. CountedIn(events' \ {c}) = CountedIn(events)
      <4>1. c \notin events
        BY <2>1, <2>3 DEF Keyed, KeyedUpTo
      <4> QED
        BY <2>2, <2>3, <4>1 DEF CountedIn
    <3>3. Recalculated(events' \ {c}) = Recalculated(events)
      BY <3>2, SameCounted
    <3> QED
      BY <1>1, <2>1, <2>2, <3>1, <3>3 DEF Right
  <2>4. SettledJob(job, events', amounts', unsettled')
    <3>1. job.at = "answering" /\ job.request = {r}
      OBVIOUS
    <3> HIDE DEF job
    <3> QED
      BY <2>1, <2>3, <3>1 DEF SettledJob
  <2>5. job # Idle
    BY DEF Idle
  <2> QED
    BY <1>1, <1>3, <2>4, <2>5, SettledAfter
<1> QED
  BY <1>2, <1>3 DEF AnswerRequest

\* A session begins when no outcome counts.
LEMMA SettledProcessSession ==
  ASSUME Tables, Settled, NEW w \in Workers, ProcessSession(w), UNCHANGED unsettled, ~raced'
  PROVE  Settled'
<1>1. ~raced /\ Only(w) /\ Right(events, amounts, unsettled)
  BY BeginsAlone, BeginsRight DEF ProcessSession
<1>2. PICK q \in events : ~q.counted /\ Become(w, [at |-> "processing", request |-> {q}])
  BY DEF ProcessSession
<1> DEFINE job == [at |-> "processing", request |-> {q}]
<1>3. Undecided(events) /\ UNCHANGED <<events, amounts>>
  BY DEF ProcessSession, Undecided
<1>4. SettledJob(job, events', amounts', unsettled') /\ job # Idle
  BY <1>1, <1>2, <1>3 DEF SettledJob, Idle
<1> QED
  BY <1>1, <1>2, <1>4, SettledAfter DEF Tables

\* transactionUpdate has stored nothing yet.
LEMMA SettledUpdateTransaction ==
  ASSUME Tables, Settled, NEW w \in Workers, NEW target, UpdateTransaction(w, target),
         UNCHANGED unsettled, ~raced'
  PROVE  Settled'
<1>1. Only(w)
  BY BeginsAlone DEF UpdateTransaction
<1>2. PICK job : Become(w, job) /\ job.at = "adjusting"
  BY DEF UpdateTransaction
<1>3. SettledJob(job, events', amounts', unsettled') /\ job # Idle
  BY <1>2, ReliesOnNothing DEF Idle
<1> QED
  BY <1>1, <1>2, <1>3, SettledAfter DEF Tables

\* The amounts are read and saved.
LEMMA SettledAmounts ==
  ASSUME Tables, Settled, NEW w \in Workers, Only(w), ~raced, ReadEvents(w) \/ SaveAmounts(w)
  PROVE  Settled'
<1>1. CASE ReadEvents(w)
  <2> DEFINE job == [at |-> "saving", amounts |-> Recalculated(events),
                     target |-> proc[w].target]
  <2>1. Become(w, job) /\ UNCHANGED events
    BY <1>1 DEF ReadEvents
  <2>2. SettledJob(job, events', amounts', unsettled') /\ job # Idle
    BY <2>1 DEF SettledJob, Idle
  <2> QED
    BY <2>1, <2>2, SettledAfter DEF Tables
<1>2. CASE SaveAmounts(w)
  <2>1. amounts' = Recalculated(events) /\ UNCHANGED events /\ Become(w, Idle)
    BY <1>2 DEF SaveAmounts, Settled, SettledJob
  <2>2. SettledJob(Idle, events', amounts', unsettled') /\ Right(events', amounts', unsettled')
    BY <2>1, ReliesOnNothing DEF Idle, Right
  <2> QED
    BY <2>1, <2>2, SettledAfter DEF Tables
<1> QED
  BY <1>1, <1>2

\* After the adjustments a calculation follows.
LEMMA SettledInsertAdjustments ==
  ASSUME Tables, NEW w \in Workers, Only(w), InsertAdjustments(w)
  PROVE  Settled'
<1>1. Become(w, Calculate(proc[w].target))
  BY DEF InsertAdjustments
<1>2. /\ SettledJob(Calculate(proc[w].target), events', amounts', unsettled')
      /\ Calculate(proc[w].target) # Idle
  BY ReliesOnNothing DEF Calculate, Idle
<1> QED
  BY <1>1, <1>2, SettledAfter DEF Tables

\* A calculation follows the event, but not when a session failed: then
\* nothing that counts is about the outcome.
LEMMA SettledInsertEvent ==
  ASSUME Tables, Settled, NEW w \in Workers, Only(w), ~raced, InsertEvent(w), unsettled' = unsettled
  PROVE  Settled'
<1> USE DEF Tables
<1> DEFINE job == proc[w]
           T == Referring(job.request, job.event.ref)
<1>1. job.at = "inserting" /\ UNCHANGED amounts
  BY DEF InsertEvent
<1>2. CASE Become(w, Calculate(NoTarget))
  <2>1. SettledJob(Calculate(NoTarget), events', amounts', unsettled') /\ Calculate(NoTarget) # Idle
    BY ReliesOnNothing DEF Calculate, Idle
  <2> QED
    BY <1>2, <2>1, SettledAfter
<1>3. CASE Become(w, Idle) /\ job.source = "session" /\ job.event.result = "failure"
  <2>1. /\ Undecided(events) /\ Right(events, amounts, unsettled)
        /\ \A q \in job.request : q \in events /\ ~q.counted
    BY <1>1, <1>3 DEF Settled, SettledJob
  <2>2. IsNew(job.event) /\ job.event.action \in {"authorization", "charge"}
    <3>1. JobOK(job, events)
      BY DEF Jobs
    <3>2. job.at # "idle"
      BY <1>1
    <3>3. IsNew(job.event) /\ job.event.action \in Sessions
      <4> HIDE DEF job
      <4> QED
        BY <1>1, <1>3, <3>1, <3>2 DEF JobOK, Idle
    <3> QED
      BY <3>3, TransactionAssumption
  <2>3. PICK x \in {Stored(job.event)} \cup StoredLate(job.event) : events' = T \cup {x}
    BY DEF InsertEvent
  <2>4. x.action = job.event.action /\ x.result = "failure"
    BY <1>3, <2>2, NewIsRow, StoredIsRow
  <2>5. CountedIn(T) = CountedIn(events)
    BY <2>1, ReferringSame
  <2>6. Recalculated(T) = Recalculated(events)
    BY <2>5, SameCounted
  <2>7. \A e \in T : ~(Final(e) /\ e.counted)
    BY <2>1, <2>5 DEF CountedIn, Undecided
  <2>8. Recalculated(events') = Recalculated(T)
    <3> HIDE DEF T, job
    <3> QED
      BY <2>2, <2>3, <2>4, <2>7, FailureAlone
  <2>9. Right(events', amounts', unsettled')
    BY <1>1, <2>1, <2>6, <2>8 DEF Right
  <2>10. SettledJob(Idle, events', amounts', unsettled')
    BY ReliesOnNothing DEF Idle
  <2> QED
    BY <1>3, <2>9, <2>10, SettledAfter
<1> QED
  BY <1>2, <1>3 DEF InsertEvent

\* A refusal leaves the amounts right, or unsettled.
LEMMA SettledLookUpAnswer ==
  ASSUME Tables, Settled, NEW w \in Workers, Only(w), ~raced, LookUpAnswer(w),
         ~unsettled' => ~unsettled /\ ~LeavesUnsettled(w)
  PROVE  Settled'
<1> USE DEF Tables
<1> DEFINE job == proc[w]
           e == job.event
<1>1. CASE Become(w, Calculate(NoTarget))
  <2>1. SettledJob(Calculate(NoTarget), events', amounts', unsettled') /\ Calculate(NoTarget) # Idle
    BY ReliesOnNothing DEF Calculate, Idle
  <2> QED
    BY <1>1, <2>1, SettledAfter
<1> DEFINE new == [at |-> "inserting", event |-> e, source |-> "request", request |-> {}]
<1>2. CASE Become(w, new)
  <2>1. SettledJob(new, events', amounts', unsettled') /\ new # Idle
    BY ReliesOnNothing DEF Idle
  <2> QED
    BY <1>2, <2>1, SettledAfter
<1>3. CASE Rejected(e) /\ Become(w, Idle) /\ \E q \in job.request : Refuse(q)
  <2>1. JobOK(job, events) /\ job.at = "answering"
    BY DEF Jobs, LookUpAnswer
  <2>2. PICK q : /\ job.request = {q} /\ IsRequest(q, events)
                 /\ q.action = e.action /\ q.ref = e.ref
                 /\ e.result \in {"success", "failure"}
    BY <2>1 DEF JobOK, Idle
  <2>3. Refuse(q) /\ IsRow(q)
    BY <1>3, <2>2 DEF IsRequest
  <2>4. CountedIn(events') = CountedIn(events)
    BY <2>3, RefuseSame
  <2>5. ASSUME ~unsettled' PROVE amounts' = Recalculated(events')
    <3> DEFINE c == [q EXCEPT !.counted = TRUE]
    <3>1. ~unsettled /\ ~q.counted /\ \E f \in Existing(e) : f.counted
      BY <1>3, <2>1, <2>2, <2>5 DEF LeavesUnsettled
    <3>2. c \in events /\ q.action # "authorization" /\ amounts = Recalculated(events \ {c})
      BY <2>1, <2>2, <3>1 DEF Settled, SettledJob, Right
    <3>3. c.result = "request" /\ c.action = q.action /\ c.ref = q.ref
      BY <2>2 DEF IsRequest, IsRow
    <3>4. PICK f \in events : /\ f.counted /\ f.action = e.action /\ f.result = e.result
                              /\ f.ref = e.ref
      BY <3>1 DEF Existing
    <3>5. Recalculated(events \ {c}) = Recalculated(events)
      <4> HIDE DEF c, e
      <4> QED
        BY <2>2, <3>2, <3>3, <3>4, OutcomeKnown DEF Keyed
    <3>6. Recalculated(events') = Recalculated(events)
      BY <2>4, SameCounted
    <3> QED
      BY <3>2, <3>5, <3>6 DEF LookUpAnswer
  <2>6. Right(events', amounts', unsettled') /\ SettledJob(Idle, events', amounts', unsettled')
    BY <2>5, ReliesOnNothing DEF Right, Idle
  <2> QED
    BY <1>3, <2>6, SettledAfter
<1> QED
  BY <1>1, <1>2, <1>3 DEF LookUpAnswer

\* What a session under way relies on.
LEMMA SessionRelies ==
  ASSUME Settled, NEW w \in Workers, ~raced, proc[w].at = "processing"
  PROVE  /\ Undecided(events) /\ Right(events, amounts, unsettled)
         /\ \A q \in proc[w].request : q \in events /\ ~q.counted
BY DEF Settled, SettledJob

\* The record of a session that was not answered does not count.
LEMMA SettledSessionUnanswered ==
  ASSUME Tables, Settled, NEW w \in Workers, Only(w), ~raced, SessionUnanswered(w),
         unsettled' = unsettled
  PROVE  Settled'
<1> USE DEF Tables
<1>1. PICK q : proc[w].request = {q} /\ IsRequest(q, events)
  BY SessionRequest DEF SessionUnanswered
<1>2. Refuse(q) /\ Become(w, Idle) /\ IsRow(q) /\ UNCHANGED amounts
  BY <1>1 DEF SessionUnanswered, IsRequest
<1>3. Recalculated(events') = Recalculated(events)
  BY <1>2, RefuseSame, SameCounted
<1>4. Right(events', amounts', unsettled')
  BY <1>2, <1>3, SessionRelies DEF Right, SessionUnanswered
<1>5. SettledJob(Idle, events', amounts', unsettled')
  BY ReliesOnNothing DEF Idle
<1> QED
  BY <1>2, <1>4, <1>5, SettledAfter

\* A calculation follows the request that counts from now on.
LEMMA SettledSessionPending ==
  ASSUME Tables, NEW w \in Workers, Only(w), NEW action, NEW ref, NEW n,
         SessionPending(w, action, ref, n)
  PROVE  Settled'
<1>1. Become(w, Calculate(NoTarget))
  BY DEF SessionPending
<1>2. SettledJob(Calculate(NoTarget), events', amounts', unsettled') /\ Calculate(NoTarget) # Idle
  BY ReliesOnNothing DEF Calculate, Idle
<1> QED
  BY <1>1, <1>2, SettledAfter DEF Tables

\* A session that fails or is refused leaves what counts as it is.
LEMMA SettledSessionAnswered ==
  ASSUME Tables, Settled, NEW w \in Workers, Only(w), ~raced, NEW action, NEW ref, NEW n,
         NEW result, SessionAnswered(w, action, result, ref, n), unsettled' = unsettled
  PROVE  Settled'
<1> USE DEF Tables
<1> DEFINE e == Event(action, result, ref, n)
<1>1. PICK q : proc[w].request = {q} /\ IsRequest(q, events)
  BY SessionRequest DEF SessionAnswered
<1>2. /\ Undecided(events) /\ Right(events, amounts, unsettled)
      /\ \A r \in proc[w].request : r \in events /\ ~r.counted
  BY SessionRelies DEF SessionAnswered
<1>3. UNCHANGED amounts
  BY DEF SessionAnswered
<1>4. SettledJob(Idle, events', amounts', unsettled')
  BY ReliesOnNothing DEF Idle
<1>5. CASE Become(w, Idle) /\ \E r \in proc[w].request : Refuse(r)
  <2>1. Refuse(q) /\ IsRow(q)
    BY <1>1, <1>5 DEF IsRequest
  <2>2. Recalculated(events') = Recalculated(events)
    BY <2>1, RefuseSame, SameCounted
  <2> QED
    BY <1>2, <1>3, <1>4, <1>5, <2>2, SettledAfter DEF Right
<1>6. CASE /\ events' = Referring(proc[w].request, ref)
           /\ Become(w, IF result = "failure" THEN Idle ELSE Calculate(NoTarget))
  <2>1. CountedIn(events') = CountedIn(events)
    BY <1>2, <1>6, ReferringSame
  <2>2. Right(events', amounts', unsettled')
    BY <1>2, <1>3, <2>1, SameCounted DEF Right
  <2>3. SettledJob(Calculate(NoTarget), events', amounts', unsettled')
    BY ReliesOnNothing DEF Calculate
  <2>4. Become(w, Idle) \/ Become(w, Calculate(NoTarget))
    BY <1>6
  <2> QED
    BY <1>4, <2>2, <2>3, <2>4, SettledAfter
<1> DEFINE job == [at |-> "inserting", event |-> e, source |-> "session",
                   request |-> proc[w].request]
<1>7. CASE UNCHANGED events /\ Become(w, job)
  <2> HIDE DEF e
  <2>1. SettledJob(job, events', amounts', unsettled') /\ job # Idle
    BY <1>2, <1>3, <1>7 DEF SettledJob, Idle
  <2> QED
    BY <1>7, <2>1, SettledAfter
<1> QED
  BY <1>5, <1>6, <1>7 DEF SessionAnswered

\* Nothing sums up to zero.
LEMMA SumOfNone == Sum({}) = 0
<1> DEFINE Fold(g) ==
      g = [s \in SUBSET {} |->
             IF s = {} THEN 0
             ELSE (CHOOSE x \in s : TRUE).amount + g[s \ {CHOOSE x \in s : TRUE}]]
           h == CHOOSE g : Fold(g)
<1>1. Sum({}) = h[{}]
  BY DEF Sum, MapThenSumSet, MapThenFoldSet
<1>2. Fold([s \in SUBSET {} |-> 0])
  OBVIOUS
<1>3. Fold(h)
  <2> HIDE DEF Fold
  <2> QED
    BY <1>2, Zenon
<1>4. h[{}] = 0
  <2> HIDE DEF h
  <2> QED
    BY <1>3
<1> QED
  BY <1>1, <1>4

\* The amounts of no events.
LEMMA AmountsOfNone == Recalculated({}) = Zero
<1>1. Relevant({}) = {}
  BY DEF Relevant
<1>2. \A type, ref : Role({}, type, ref) = {}
  BY DEF Role, Newest
<1>3. \A type : EachRole({}, type) = {} /\ Manual({}, type) = 0
  <2>1. \A type : EachRole({}, type) = {}
    BY <1>2 DEF EachRole
  <2>2. \A type : {e \in {} : <<e.action, e.result>> = type /\ e.ref = NoRef} = {}
    OBVIOUS
  <2>3. \A type : Manual({}, type) = 0
    BY <2>2, SumOfNone DEF Manual
  <2> QED
    BY <2>1, <2>3
<1>4. \A a : Pending({}, a) = {} /\ Done({}, a) = {}
  BY <1>2 DEF Pending, Done
<1> DEFINE z == [a \in Actions |-> 0]
           adjusted == EachRole({}, <<"authorization", "adjustment">>)
           opening == IF adjusted # {} THEN Sum(adjusted)
                      ELSE Manual({}, <<"authorization", "adjustment">>)
                           + Manual({}, <<"authorization", "success">>)
           pending == [a \in Actions |-> Sum(Pending({}, a))]
           done == [a \in Actions |-> Sum(Done({}, a))]
           backs == Sum(EachRole({}, <<"charge", "back">>))
           reverses == Sum(EachRole({}, <<"refund", "reverse">>))
           left(a) == pending[a] + done[a]
           all == [done EXCEPT
             !["authorization"] = @ + opening - left("charge") - left("cancel"),
             !["charge"] = @ + Manual({}, <<"charge", "success">>)
                             - Manual({}, <<"charge", "back">>)
                             + Manual({}, <<"refund", "reverse">>)
                             - backs + reverses - left("refund"),
             !["refund"] = @ + Manual({}, <<"refund", "success">>) - reverses,
             !["cancel"] = @ + Manual({}, <<"cancel", "success">>)]
<1>5. AmountsOf({}) = [pending |-> pending, done |-> all]
  BY DEF AmountsOf
<1>6. pending = z /\ done = z
  BY <1>4, SumOfNone
<1>7. opening = 0 /\ backs = 0 /\ reverses = 0
  BY <1>3, SumOfNone
<1>8. /\ Manual({}, <<"charge", "success">>) = 0 /\ Manual({}, <<"charge", "back">>) = 0
      /\ Manual({}, <<"refund", "reverse">>) = 0 /\ Manual({}, <<"refund", "success">>) = 0
      /\ Manual({}, <<"cancel", "success">>) = 0
  BY <1>3
<1>9. all = z
  <2> HIDE DEF pending, done, opening, backs, reverses
  <2>1. left("charge") = 0 /\ left("cancel") = 0 /\ left("refund") = 0
    BY <1>6 DEF Actions
  <2> HIDE DEF left
  <2> QED
    BY <1>6, <1>7, <1>8, <2>1 DEF Actions
<1>10. Calculated({}) = [pending |-> z, done |-> z]
  BY <1>1, <1>5, <1>6, <1>9 DEF Calculated
<1>11. [z EXCEPT !["authorization"] = Positive(@)] = z
  BY DEF Positive
<1> QED
  BY <1>10, <1>11 DEF Recalculated, Zero

\* A transaction begins with no amounts, and nothing that counts.
LEMMA SettledInit == Init => Settled
<1> SUFFICES ASSUME Init PROVE Settled
  OBVIOUS
<1>1. \A w \in Workers : SettledJob(proc[w], events, amounts, unsettled)
  BY ReliesOnNothing DEF Init, Idle
<1>2. CountedIn(events) = CountedIn({})
  BY InitialEvents DEF CountedIn
<1>3. Recalculated(events) = Recalculated({})
  BY <1>2, SameCounted
<1> QED
  BY <1>1, <1>3, AmountsOfNone DEF Settled, Right, Init

\* Every step of somebody who is alone leaves the amounts right, or to be saved.
LEMMA SettledKept == Tables /\ Alone /\ Settled /\ [Next]_vars => Settled'
<1> SUFFICES ASSUME Tables, Alone, Settled, [Next]_vars, ~raced' PROVE Settled'
  BY DEF Settled
<1>1. CASE UNCHANGED vars
  BY <1>1 DEF vars, Settled, Busy
<1>2. CASE Next
  <2>1. ASSUME NEW w \in Workers, NEW e, IsNew(e), Report(w, e), UNCHANGED unsettled PROVE Settled'
    BY <2>1, SettledReport
  <2>2. ASSUME NEW action \in {"charge", "refund", "cancel"}, NEW n, RequestAction(action, n),
               UNCHANGED unsettled
        PROVE  Settled'
    <3>1. Flags' /\ ~raced /\ UNCHANGED <<proc, amounts, unsettled>>
      BY <2>2 DEF RequestAction, Tables, Flags
    <3> QED
      BY <2>2, <3>1, TablesRequestAction, SettledAside DEF Tables
  <2>3. ASSUME NEW q \in events, AnswerLost(q), UNCHANGED <<raced, unsettled>> PROVE Settled'
    <3>1. Flags' /\ ~raced /\ UNCHANGED <<proc, amounts, unsettled>>
      BY <2>3 DEF AnswerLost, Tables, Flags
    <3> QED
      BY <2>3, <3>1, TablesAnswerLost, SettledAside DEF Tables
  <2>4. ASSUME NEW q \in events, NEW w \in Workers, NEW ref \in Refs \cup {NoRef}, NEW result,
               NEW n, q.pk \in sent, AnswerRequest(w, q, ref, result, n), UNCHANGED unsettled
        PROVE  Settled'
    BY <2>4, SettledAnswerRequest
  <2>5. ASSUME NEW w \in Workers, ProcessSession(w), UNCHANGED unsettled PROVE Settled'
    BY <2>5, SettledProcessSession
  <2>6. ASSUME NEW w \in Workers, NEW target, UpdateTransaction(w, target), UNCHANGED unsettled
        PROVE  Settled'
    BY <2>6, SettledUpdateTransaction
  <2>7. ASSUME NEW w \in Workers, Step(w) PROVE Settled'
    <3>1. ~raced /\ Only(w)
      BY <2>7, StepsAlone
    <3>2. unsettled' = (proc[w].at # "saving" /\ (unsettled \/ LeavesUnsettled(w)))
      BY <2>7 DEF Step
    <3>3. proc[w].at \notin {"saving", "answering"} => unsettled' = unsettled
      BY <3>2 DEF LeavesUnsettled, Tables, Flags
    <3>4. CASE InsertEvent(w)
      <4>1. unsettled' = unsettled
        BY <3>3, <3>4 DEF InsertEvent
      <4> QED
        BY <3>1, <3>4, <4>1, SettledInsertEvent
    <3>5. CASE ReadEvents(w) \/ SaveAmounts(w)
      BY <3>1, <3>5, SettledAmounts
    <3>6. CASE LookUpAnswer(w)
      <4>1. ~unsettled' => ~unsettled /\ ~LeavesUnsettled(w)
        BY <3>2, <3>6 DEF LookUpAnswer
      <4> QED
        BY <3>1, <3>6, <4>1, SettledLookUpAnswer
    <3>7. CASE SessionStep(w)
      <4>1. CASE SessionUnanswered(w)
        <5>1. unsettled' = unsettled
          BY <3>3, <4>1 DEF SessionUnanswered
        <5> QED
          BY <3>1, <4>1, <5>1, SettledSessionUnanswered
      <4>2. ASSUME NEW action, NEW ref, NEW n, SessionPending(w, action, ref, n) PROVE Settled'
        BY <3>1, <4>2, SettledSessionPending
      <4>3. ASSUME NEW action, NEW ref, NEW n, NEW result, SessionAnswered(w, action, result, ref, n)
            PROVE  Settled'
        <5>1. unsettled' = unsettled
          BY <3>3, <4>3 DEF SessionAnswered
        <5> QED
          BY <3>1, <4>3, <5>1, SettledSessionAnswered
      <4> QED
        BY <3>7, <4>1, <4>2, <4>3 DEF SessionStep
    <3>8. CASE InsertAdjustments(w)
      BY <3>1, <3>8, SettledInsertAdjustments
    <3> QED
      BY <2>7, <3>4, <3>5, <3>6, <3>7, <3>8 DEF Step
  <2> QED
    BY <1>2, <2>1, <2>2, <2>3, <2>4, <2>5, <2>6, <2>7, NextCases
<1> QED
  BY <1>1, <1>2

\* AmountsFollowEventsAlone is the case of nobody at work.
LEMMA SettledIsRight == Settled => AmountsFollowEventsAlone
BY DEF Settled, AmountsFollowEventsAlone, Quiet, Right, Busy

-----------------------------------------------------------------------------
(* What is pending is open.                                                *)

\* A reference plays a role if any event of the type has it.
LEMMA RolePlayed ==
  ASSUME NEW S, NEW n \in Nat, KeyedUpTo(S, n), NEW R \in SUBSET S, NEW type, NEW ref,
         Role(R, type, ref) = {}
  PROVE  \A e \in R : ~(<<e.action, e.result>> = type /\ e.ref = ref)
<1> DEFINE T == {e \in R : <<e.action, e.result>> = type /\ e.ref = ref}
<1>1. Newest(T) = {} /\ T \in SUBSET S
  BY DEF Role
<1>2. T = {}
  <2> HIDE DEF T
  <2> QED
    BY <1>1, NewestExists
<1> QED
  BY <1>2

\* If the amounts are right, PendingIsOpen says what is summed up as pending.
LEMMA RightIsOpen == Tables /\ AmountsFollowEventsAlone => PendingIsOpen
<1> SUFFICES ASSUME Tables, amounts = Recalculated(events), NEW a \in Actions,
                    amounts.pending[a] > 0
             PROVE  \E q \in events :
                      /\ q.action = a /\ q.result = "request" /\ q.counted
                      /\ \A e \in Relevant(events) : e.action = a /\ e.ref = q.ref =>
                           e.result \notin {"success", "failure"}
  BY DEF AmountsFollowEventsAlone, PendingIsOpen
<1> DEFINE R == Relevant(events)
<1>1. R \in SUBSET events /\ \A e \in R : e.counted
  BY DEF Relevant
<1>2. Pending(R, a) # {}
  <2>1. SUFFICES ASSUME Pending(R, a) = {} PROVE FALSE
    OBVIOUS
  <2> DEFINE p == [x \in Actions |-> Sum(Pending(R, x))]
  <2>2. p[a] = 0
    BY <2>1, SumOfNone
  <2>3. amounts.pending = [p EXCEPT !["authorization"] = Positive(@)]
    BY DEF Recalculated, Calculated, AmountsOf
  <2> HIDE DEF p
  <2>4. amounts.pending[a] \in {p[a], Positive(p[a])}
    BY <2>3
  <2> QED
    BY <2>2, <2>4 DEF Positive
<1>3. PICK ref \in Refs, q \in R :
        /\ q \in Role(R, <<a, "request">>, ref)
        /\ Role(R, <<a, "success">>, ref) = {} /\ Role(R, <<a, "failure">>, ref) = {}
  BY <1>2 DEF Pending, Role, Newest
<1>4. q \in R /\ q.action = a /\ q.result = "request" /\ q.ref = ref
  BY <1>3 DEF Role, Newest
<1>5. \A e \in R : e.action = a /\ e.ref = ref => e.result \notin {"success", "failure"}
  <2> HIDE DEF R
  <2> QED
    BY <1>1, <1>3, RolePlayed DEF Tables, Keyed
<1> QED
  BY <1>1, <1>4, <1>5

\* recalculate_transaction_amounts, and the returns before it: when nobody
\* works on a transaction on which no two workers ever were at a time, its
\* amounts are those of its events, also after refused reports, sessions that
\* failed and repeated answers.
THEOREM AmountsFollowAlways == Spec => []AmountsFollowEventsAlone
<1> DEFINE Safe == Tables /\ Alone /\ Settled
<1>1. Init => Safe
  BY TablesInit, AloneInit, SettledInit
<1>2. Safe /\ [Next]_vars => Safe'
  BY TablesKept, AloneKept, SettledKept
<1>3. Safe => AmountsFollowEventsAlone
  BY SettledIsRight
<1> QED
  BY <1>1, <1>2, <1>3, PTL DEF Spec

\* An amount is pending only while the app owes an outcome.
THEOREM PendingIsOpenAlways == Spec => []PendingIsOpen
<1> DEFINE Safe == Tables /\ Alone /\ Settled
<1>1. Init => Safe
  BY TablesInit, AloneInit, SettledInit
<1>2. Safe /\ [Next]_vars => Safe'
  BY TablesKept, AloneKept, SettledKept
<1>3. Safe => PendingIsOpen
  BY SettledIsRight, RightIsOpen
<1> QED
  BY <1>1, <1>2, <1>3, PTL DEF Spec

-----------------------------------------------------------------------------
(* Amounts are integers.                                                   *)

IntsIn(S) == \A e \in S : e.amount \in Int

CutColumns ==
  {c \in AmountColumns : c.done["authorization"] >= 0 /\ c.pending["authorization"] >= 0}

\* The sum that MapThenSumSet computes.
LEMMA SumIsOf ==
  ASSUME NEW T, IsFiniteSet(T), IntsIn(T)
  PROVE  Sum(T) = SumOf([e \in T |-> e.amount], T) /\ Sum(T) \in Int
<1> DEFINE Any(U) == CHOOSE x \in U : TRUE
           f == [e \in T |-> e.amount]
           Fold(g) == g = [U \in SUBSET T |-> IF U = {} THEN 0
                                              ELSE Any(U).amount + g[U \ {Any(U)}]]
           h == CHOOSE g : Fold(g)
<1>1. Sum(T) = h[T]
  BY DEF Sum, MapThenSumSet, MapThenFoldSet
<1>2. ASSUME NEW g
      PROVE  Fold(g) <=> IsFold(g, f, T)
  <2>1. \A U \in SUBSET T : U # {} => f[Any(U)] = Any(U).amount
    OBVIOUS
  <2> HIDE DEF f
  <2> QED
    BY <2>1 DEF IsFold
<1>3. \A e \in T : f[e] \in Int
  BY DEF IntsIn
<1> HIDE DEF Fold, f
<1>4. /\ \E g : IsFold(g, f, T)
      /\ \A g : IsFold(g, f, T) => g[T] = SumOf(f, T)
  BY <1>3, FoldIsSum
<1>5. Fold(h)
  BY <1>2, <1>4
<1>6. SumOf(f, T) \in Int
  BY <1>3, SumSplit
<1> QED
  BY <1>1, <1>2, <1>4, <1>5, <1>6 DEF f

\* One event more.
LEMMA SumAdds ==
  ASSUME NEW T, IsFiniteSet(T), IntsIn(T), NEW x, x \notin T, x.amount \in Int
  PROVE  Sum(T \cup {x}) = Sum(T) + x.amount
<1> DEFINE U == T \cup {x}
           f(S) == [e \in S |-> e.amount]
<1>1. IsFiniteSet(U) /\ IntsIn(U)
  BY FS_AddElement DEF IntsIn
<1>2. Sum(U) = SumOf(f(U), U) /\ Sum(T) = SumOf(f(T), T) /\ Sum(T) \in Int
  <2> HIDE DEF U
  <2> QED
    BY <1>1, SumIsOf
<1>3. SumOf(f(U), U) = f(U)[x] + SumOf(f(U), U \ {x})
  <2>1. x \in U /\ \A e \in U : f(U)[e] \in Int
    BY <1>1 DEF IntsIn
  <2> HIDE DEF U, f
  <2> QED
    BY <1>1, <2>1, SumSplit
<1>4. U \ {x} = T /\ f(U)[x] = x.amount
  OBVIOUS
<1>5. SumOf(f(U), T) = SumOf(f(T), T)
  <2>1. \A e \in T : f(U)[e] = f(T)[e]
    OBVIOUS
  <2> HIDE DEF f
  <2>2. /\ [e \in T |-> Positive(f(U)[e])] = [e \in T |-> Positive(f(T)[e])]
        /\ [e \in T |-> Positive(-f(U)[e])] = [e \in T |-> Positive(-f(T)[e])]
    BY <2>1
  <2> QED
    BY <2>2 DEF SumOf
<1> HIDE DEF f, U
<1>6. Sum(U) = x.amount + Sum(T)
  BY <1>2, <1>3, <1>4, <1>5
<1> QED
  BY <1>2, <1>6 DEF U

\* What is summed up are events of the transaction.
LEMMA PartsOf ==
  ASSUME NEW S
  PROVE  /\ Relevant(S) \subseteq S
         /\ \A type, ref : Role(S, type, ref) \subseteq S
         /\ \A type : EachRole(S, type) \subseteq S
         /\ \A a : Pending(S, a) \subseteq S /\ Done(S, a) \subseteq S
<1>1. Relevant(S) \subseteq S
  BY DEF Relevant
<1>2. \A type, ref : Role(S, type, ref) \subseteq S
  BY DEF Role, Newest
<1> QED
  BY <1>1, <1>2 DEF EachRole, Pending, Done

\* Amounts of integers are integers.
LEMMA AmountsType ==
  ASSUME NEW S, IsFiniteSet(S), IntsIn(S)
  PROVE  Calculated(S) \in AmountColumns /\ Recalculated(S) \in CutColumns
<1> DEFINE R == Relevant(S)
<1>1. ASSUME NEW T \in SUBSET R
      PROVE  Sum(T) \in Int
  <2>1. T \in SUBSET S
    BY PartsOf
  <2> QED
    BY <2>1, FS_Subset, SumIsOf DEF IntsIn
<1> HIDE DEF R
<1> DEFINE adjusted == EachRole(R, <<"authorization", "adjustment">>)
           opening == IF adjusted # {} THEN Sum(adjusted)
                      ELSE Manual(R, <<"authorization", "adjustment">>)
                           + Manual(R, <<"authorization", "success">>)
           pending == [a \in Actions |-> Sum(Pending(R, a))]
           done == [a \in Actions |-> Sum(Done(R, a))]
           backs == Sum(EachRole(R, <<"charge", "back">>))
           reverses == Sum(EachRole(R, <<"refund", "reverse">>))
           left(a) == pending[a] + done[a]
           all == [done EXCEPT
             !["authorization"] = @ + opening - left("charge") - left("cancel"),
             !["charge"] = @ + Manual(R, <<"charge", "success">>)
                             - Manual(R, <<"charge", "back">>)
                             + Manual(R, <<"refund", "reverse">>)
                             - backs + reverses - left("refund"),
             !["refund"] = @ + Manual(R, <<"refund", "success">>) - reverses,
             !["cancel"] = @ + Manual(R, <<"cancel", "success">>)]
<1>2. AmountsOf(R) = [pending |-> pending, done |-> all]
  BY DEF AmountsOf
<1>3. pending \in [Actions -> Int] /\ done \in [Actions -> Int]
  BY <1>1, PartsOf
<1>4. \A type : Sum(EachRole(R, type)) \in Int /\ Manual(R, type) \in Int
  <2>1. \A type : {e \in R : <<e.action, e.result>> = type /\ e.ref = NoRef} \in SUBSET R
    OBVIOUS
  <2> QED
    BY <1>1, <2>1, PartsOf DEF Manual
<1>5. opening \in Int /\ backs \in Int /\ reverses \in Int
  BY <1>4
<1>6. all \in [Actions -> Int]
  <2> HIDE DEF pending, done, opening, backs, reverses
  <2>1. left("charge") \in Int /\ left("cancel") \in Int /\ left("refund") \in Int
    BY <1>3 DEF Actions
  <2> HIDE DEF left
  <2> QED
    BY <1>3, <1>4, <1>5, <2>1 DEF Actions
<1> HIDE DEF pending, all
<1>7. Calculated(S) = [pending |-> pending, done |-> all]
  BY <1>2 DEF Calculated, R
<1>8. Calculated(S) \in AmountColumns
  BY <1>3, <1>6, <1>7 DEF AmountColumns
<1>9. "authorization" \in Actions
  BY DEF Actions
<1>10. /\ [pending EXCEPT !["authorization"] = Positive(@)] \in [Actions -> Int]
       /\ [all EXCEPT !["authorization"] = Positive(@)] \in [Actions -> Int]
       /\ [pending EXCEPT !["authorization"] = Positive(@)]["authorization"] >= 0
       /\ [all EXCEPT !["authorization"] = Positive(@)]["authorization"] >= 0
  BY <1>3, <1>6, <1>9 DEF Positive
<1>11. Recalculated(S) =
         [pending |-> [pending EXCEPT !["authorization"] = Positive(@)],
          done |-> [all EXCEPT !["authorization"] = Positive(@)]]
  BY <1>7 DEF Recalculated
<1> QED
  BY <1>8, <1>10, <1>11 DEF CutColumns, AmountColumns

\* What a worker has in hand has amounts that are integers.
IntJob(job) ==
  /\ job.at \in {"inserting", "answering"} => job.event.amount \in Int
  /\ job.at \in {"answering", "processing"} => IntsIn(job.request)
  /\ job.at = "saving" => job.amounts \in CutColumns
  /\ job.at = "adjusting" =>
       \A i \in DOMAIN job.adjustments : job.adjustments[i].amount \in Int

Ints ==
  IntsIn(events) /\ amounts \in CutColumns /\ \A w \in Workers : IntJob(proc[w])

Histories ==
  calls \in Nat /\ known \subseteq {<<t[1], t[2], ref>> : t \in Types, ref \in Refs}

\* Jobs without amounts.
LEMMA NoAmountsInHand ==
  IntJob(Idle) /\ \A target : IntJob(Calculate(target))
BY DEF IntJob, Idle, Calculate

\* A worker takes on a job, or none does.
LEMMA IntsAfter ==
  ASSUME Procs, Ints, IntsIn(events'), amounts' \in CutColumns
  PROVE  /\ UNCHANGED proc => Ints'
         /\ \A w \in Workers : \A job : Become(w, job) /\ IntJob(job) => Ints'
<1>1. UNCHANGED proc => Ints'
  BY DEF Ints
<1>2. ASSUME NEW w \in Workers, NEW job, Become(w, job), IntJob(job)
      PROVE  Ints'
  <2>1. proc'[w] = job /\ \A v \in Workers \ {w} : proc'[v] = proc[v]
    BY <1>2, Becomes
  <2> QED
    BY <2>1, <1>2 DEF Ints
<1> QED
  BY <1>1, <1>2

\* An event that is stored has the amount it had.
LEMMA StoredAmount ==
  ASSUME NEW e, IsRow(e), NEW x \in {Stored(e)} \cup StoredLate(e)
  PROVE  x.amount = e.amount
<1>1. PICK n, t : x = [e EXCEPT !.pk = n, !.at = t]
  BY DEF Stored, StoredLate
<1> QED
  BY <1>1 DEF IsRow

LEMMA IntsAdd ==
  ASSUME IntsIn(events), NEW e, IsRow(e), e.amount \in Int
  PROVE  /\ \A x \in {Stored(e)} \cup StoredLate(e) : x.amount \in Int
         /\ Refuse(e) => IntsIn(events')
<1>1. \A x \in {Stored(e)} \cup StoredLate(e) : x.amount \in Int
  BY StoredAmount
<1>2. ASSUME Refuse(e) PROVE IntsIn(events')
  <2> DEFINE r == [e EXCEPT !.result = "failure", !.counted = FALSE]
  <2>1. IsRow(r) /\ r.amount = e.amount
    BY DEF IsRow, Results
  <2>2. events' = events \cup {Stored(r)}
    BY <1>2 DEF Refuse
  <2> HIDE DEF r
  <2>3. Stored(r).amount \in Int
    BY <2>1, StoredAmount
  <2> QED
    BY <2>2, <2>3 DEF IntsIn
<1> QED
  BY <1>1, <1>2

\* Requests that are given a reference keep their amounts.
LEMMA ReferringAmounts ==
  ASSUME Keyed, IntsIn(events), NEW qs, NEW ref
  PROVE  IntsIn(Referring(qs, ref))
<1>1. ASSUME NEW e \in events
      PROVE  [e EXCEPT !.ref = ref].amount = e.amount
  BY DEF Keyed, KeyedUpTo, IsRow
<1> QED
  BY <1>1 DEF Referring, IntsIn

\* What workers have in hand, by what they are doing.
LEMMA InHand ==
  ASSUME Tables, Ints, NEW w \in Workers
  PROVE  /\ proc[w].at \in {"inserting", "answering"} =>
              IsNew(proc[w].event) /\ IsRow(proc[w].event) /\ proc[w].event.amount \in Int
         /\ proc[w].at \in {"answering", "processing"} =>
              \A q \in proc[w].request : IsRow(q) /\ q.amount \in Int
<1>1. JobOK(proc[w], events) /\ IntJob(proc[w])
  BY DEF Tables, Jobs, Ints
<1>2. ASSUME proc[w].at \in {"inserting", "answering"}
      PROVE  IsNew(proc[w].event) /\ IsRow(proc[w].event) /\ proc[w].event.amount \in Int
  <2>1. IsNew(proc[w].event)
    BY <1>1, <1>2 DEF JobOK, Idle
  <2> QED
    BY <2>1, <1>1, <1>2, NewIsRow DEF IntJob
<1>3. ASSUME proc[w].at \in {"answering", "processing"}
      PROVE  \A q \in proc[w].request : IsRow(q) /\ q.amount \in Int
  BY <1>1, <1>3 DEF JobOK, Idle, IsRequest, IntJob, IntsIn
<1> QED
  BY <1>2, <1>3

LEMMA IntsReport ==
  ASSUME Tables, Ints, NEW w \in Workers, NEW e, IsNew(e), e.amount \in Int, Report(w, e)
  PROVE  Ints'
<1>0. IsRow(e) /\ Procs /\ Keyed
  BY NewIsRow DEF Tables
<1>1. IntsIn(events) /\ amounts' \in CutColumns
  BY DEF Ints, Report
<1> DEFINE job == [at |-> "inserting", event |-> e, source |-> "report", request |-> {}]
<1>2. IntsIn(events')
  BY <1>0, <1>1, IntsAdd DEF Report
<1>3. IntJob(job)
  BY DEF IntJob
<1>4. UNCHANGED proc \/ Become(w, job)
  BY DEF Report
<1> HIDE DEF job
<1> QED
  BY <1>0, <1>1, <1>2, <1>3, <1>4, IntsAfter

LEMMA IntsInsertEvent ==
  ASSUME Tables, Ints, NEW w \in Workers, InsertEvent(w)
  PROVE  Ints'
<1> DEFINE event == proc[w].event
           T == Referring(proc[w].request, event.ref)
<1>1. IsRow(event) /\ event.amount \in Int
  BY InHand DEF InsertEvent
<1>2. IntsIn(T)
  BY ReferringAmounts DEF Tables, Ints
<1>3. PICK x \in {Stored(event)} \cup StoredLate(event) : events' = T \cup {x}
  BY DEF InsertEvent
<1>4. x.amount \in Int
  BY <1>1, StoredAmount
<1>5. IntsIn(events')
  BY <1>2, <1>3, <1>4 DEF IntsIn
<1>6. Become(w, Idle) \/ Become(w, Calculate(NoTarget))
  BY DEF InsertEvent
<1>7. amounts' \in CutColumns /\ Procs
  BY DEF InsertEvent, Ints, Tables
<1> QED
  BY <1>5, <1>6, <1>7, NoAmountsInHand, IntsAfter

LEMMA IntsAmounts ==
  ASSUME Tables, Ints, NEW w \in Workers, ReadEvents(w) \/ SaveAmounts(w)
  PROVE  Ints'
<1>1. Procs /\ IntsIn(events) /\ IntsIn(events') /\ amounts \in CutColumns
  BY DEF Tables, Ints, ReadEvents, SaveAmounts
<1>2. CASE ReadEvents(w)
  <2> DEFINE job == [at |-> "saving", amounts |-> Recalculated(events),
                     target |-> proc[w].target]
  <2>1. IsFiniteSet(events)
    BY KeysCount DEF Tables, Keyed
  <2>2. Recalculated(events) \in CutColumns
    BY <2>1, <1>1, AmountsType
  <2>3. IntJob(job)
    BY <2>2 DEF IntJob
  <2>4. Become(w, job) /\ UNCHANGED amounts
    BY <1>2 DEF ReadEvents
  <2> HIDE DEF job
  <2> QED
    BY <1>1, <2>3, <2>4, IntsAfter
<1>3. CASE SaveAmounts(w)
  <2>1. amounts' \in CutColumns
    BY <1>3 DEF SaveAmounts, Ints, IntJob
  <2> QED
    BY <1>1, <1>3, <2>1, NoAmountsInHand, IntsAfter DEF SaveAmounts
<1> QED
  BY <1>2, <1>3

LEMMA IntsRequestAction ==
  ASSUME Tables, Ints, NEW action \in {"charge", "refund", "cancel"}, NEW n \in Amounts,
         RequestAction(action, n)
  PROVE  Ints'
<1> DEFINE limit == IF action = "charge" THEN amounts.done["authorization"]
                                         ELSE amounts.done["charge"]
           amount == IF action = "cancel" THEN 0
                     ELSE IF n \in 1 .. limit - 1 THEN n ELSE limit
           e0 == Event(action, "request", NoRef, amount)
           r == [e0 EXCEPT !.counted = FALSE]
<1>1. limit \in Int /\ n \in Int
  BY TransactionAssumption DEF Ints, CutColumns, AmountColumns, Actions
<1>2. amount \in Int
  <2> HIDE DEF limit
  <2> QED
    BY <1>1
<1>3. events' = events \cup {Stored(r)}
  BY DEF RequestAction
<1> HIDE DEF amount
<1>4. IsRow(e0) /\ e0.amount = amount
  BY DEF Event, IsRow, Actions, Results
<1> HIDE DEF e0
<1>5. IsRow(r) /\ r.amount = amount
  BY <1>4 DEF IsRow
<1> HIDE DEF r
<1>6. Stored(r).amount \in Int
  BY <1>2, <1>5, StoredAmount
<1>7. IntsIn(events') /\ amounts' \in CutColumns /\ UNCHANGED proc /\ Procs
  BY <1>3, <1>6 DEF IntsIn, Ints, RequestAction, Tables
<1> QED
  BY <1>7, IntsAfter

LEMMA IntsAnswerLost ==
  ASSUME Tables, Ints, NEW q \in events, AnswerLost(q)
  PROVE  Ints'
<1>1. IsRow(q) /\ q.amount \in Int
  BY DEF Tables, Keyed, KeyedUpTo, Ints, IntsIn
<1>2. IntsIn(events')
  BY <1>1, IntsAdd DEF Ints, AnswerLost
<1> QED
  BY <1>2, IntsAfter DEF AnswerLost, Ints, Tables

LEMMA IntsAnswerRequest ==
  ASSUME Tables, Ints, NEW w \in Workers, NEW q \in events, NEW ref, NEW result,
         NEW n \in Amounts, AnswerRequest(w, q, ref, result, n)
  PROVE  Ints'
<1> DEFINE r == [q EXCEPT !.ref = ref]
           c == [q EXCEPT !.ref = ref, !.counted = TRUE]
           event == Event(q.action, result, ref, n)
           job == [at |-> "answering", event |-> event, request |-> {r}]
<1>1. IsRow(q) /\ q.amount \in Int /\ n \in Int
  BY TransactionAssumption DEF Tables, Keyed, KeyedUpTo, Ints, IntsIn
<1>2. r.amount = q.amount /\ c.amount = q.amount /\ event.amount = n
  BY <1>1 DEF IsRow, Event
<1>3. events' = (events \ {q}) \cup {c}
  BY DEF AnswerRequest
<1>4. Become(w, Calculate(NoTarget)) \/ Become(w, job)
  BY DEF AnswerRequest
<1> HIDE DEF r, c, event
<1>5. IntsIn(events')
  BY <1>1, <1>2, <1>3 DEF IntsIn, Ints
<1>6. IntJob(job)
  BY <1>1, <1>2 DEF IntJob, IntsIn
<1> HIDE DEF job
<1> QED
  BY <1>4, <1>5, <1>6, NoAmountsInHand, IntsAfter DEF AnswerRequest, Ints, Tables

LEMMA IntsProcessSession ==
  ASSUME Tables, Ints, NEW w \in Workers, ProcessSession(w)
  PROVE  Ints'
<1>1. PICK q \in events : Become(w, [at |-> "processing", request |-> {q}])
  BY DEF ProcessSession
<1>2. IntJob([at |-> "processing", request |-> {q}])
  BY <1>1 DEF IntJob, IntsIn, Ints
<1> QED
  BY <1>1, <1>2, IntsAfter DEF ProcessSession, Ints, Tables

LEMMA IntsLookUpAnswer ==
  ASSUME Tables, Ints, NEW w \in Workers, LookUpAnswer(w)
  PROVE  Ints'
<1> DEFINE event == proc[w].event
           job == [at |-> "inserting", event |-> event, source |-> "request", request |-> {}]
<1>1. event.amount \in Int /\ \A q \in proc[w].request : IsRow(q) /\ q.amount \in Int
  BY InHand DEF LookUpAnswer
<1>2. IntsIn(events')
  BY <1>1, IntsAdd DEF Ints, LookUpAnswer
<1>3. Become(w, Calculate(NoTarget)) \/ Become(w, Idle) \/ Become(w, job)
  BY DEF LookUpAnswer
<1>4. IntJob(job)
  BY <1>1 DEF IntJob
<1> HIDE DEF job
<1> QED
  BY <1>2, <1>3, <1>4, NoAmountsInHand, IntsAfter DEF LookUpAnswer, Ints, Tables

LEMMA IntsSessionUnanswered ==
  ASSUME Tables, Ints, NEW w \in Workers, SessionUnanswered(w)
  PROVE  Ints'
<1>1. \A q \in proc[w].request : IsRow(q) /\ q.amount \in Int
  BY InHand DEF SessionUnanswered
<1>2. IntsIn(events')
  BY <1>1, IntsAdd DEF Ints, SessionUnanswered
<1> QED
  BY <1>2, NoAmountsInHand, IntsAfter DEF SessionUnanswered, Ints, Tables

LEMMA IntsSessionPending ==
  ASSUME Tables, Ints, NEW w \in Workers, NEW action, NEW ref, NEW n \in Amounts,
         SessionPending(w, action, ref, n)
  PROVE  Ints'
<1>1. PICK q : events' = {e \in events : e.pk # q.pk}
         \cup {[Event(action, "request", ref, n) EXCEPT !.pk = q.pk, !.at = q.at]}
  BY DEF SessionPending
<1>2. [Event(action, "request", ref, n) EXCEPT !.pk = q.pk, !.at = q.at].amount = n
  BY DEF Event
<1>3. n \in Int
  BY TransactionAssumption
<1> DEFINE d == [Event(action, "request", ref, n) EXCEPT !.pk = q.pk, !.at = q.at]
<1> HIDE DEF d
<1>4. IntsIn(events')
  <2>1. events' = {e \in events : e.pk # q.pk} \cup {d} /\ d.amount = n
    BY <1>1, <1>2 DEF d
  <2> QED
    BY <1>3, <2>1 DEF IntsIn, Ints
<1> QED
  BY <1>4, NoAmountsInHand, IntsAfter DEF SessionPending, Ints, Tables

LEMMA IntsSessionAnswered ==
  ASSUME Tables, Ints, NEW w \in Workers, NEW action, NEW ref,
         NEW n \in Amounts, NEW result, SessionAnswered(w, action, result, ref, n)
  PROVE  Ints'
<1> DEFINE event == Event(action, result, ref, n)
           job == [at |-> "inserting", event |-> event, source |-> "session",
                   request |-> proc[w].request]
<1>1. \A q \in proc[w].request : IsRow(q) /\ q.amount \in Int
  BY InHand DEF SessionAnswered
<1>2. event.amount \in Int
  BY TransactionAssumption DEF Event
<1>3. /\ \/ \E q \in proc[w].request : Refuse(q)
         \/ events' = Referring(proc[w].request, ref)
         \/ UNCHANGED events
      /\ Become(w, Calculate(NoTarget)) \/ Become(w, Idle) \/ Become(w, job)
  BY DEF SessionAnswered
<1>4. IntsIn(events')
  BY <1>1, <1>3, IntsAdd, ReferringAmounts DEF Ints, Tables
<1>5. IntJob(job)
  BY <1>2 DEF IntJob
<1> HIDE DEF job
<1> QED
  BY <1>3, <1>4, <1>5, NoAmountsInHand, IntsAfter DEF SessionAnswered, Ints, Tables

-----------------------------------------------------------------------------
(* What transactionUpdate stores, to the amount.                           *)

\* The events that take amounts, of which current are the values now, to a
\* target.
Adjusting(target, current) ==
  {e \in [action : DOMAIN target, result : {"success", "adjustment"}, ref : {NoRef},
          amount : Int, pk : {0}, at : {0}, counted : {TRUE}] :
     e.action # "authorization" =>
       e.result = "success" /\ e.amount = target[e.action] - current[e.action]}

\* The events of s take the amounts in A to the target, each of them at once;
\* what the authorization becomes is not said.
Covers(s, A, target, current) ==
  /\ s \in Seq(Adjusting(target, current))
  /\ \A i \in 1 .. Len(s) : s[i].action \in A
  /\ \A i, j \in 1 .. Len(s) : s[i].action = s[j].action => i = j
  /\ \A a \in (A \cap DOMAIN target) \ {"authorization"} :
       target[a] = current[a] \/ \E i \in 1 .. Len(s) : s[i].action = a

\* One event more at the end of a sequence.
LEMMA OneMore ==
  ASSUME NEW X, NEW s \in Seq(X), NEW e \in X
  PROVE  /\ s \o <<e>> \in Seq(X) /\ Len(s \o <<e>>) = Len(s) + 1 /\ Len(s) \in Nat
         /\ (s \o <<e>>)[Len(s) + 1] = e
         /\ \A i \in 1 .. Len(s) : (s \o <<e>>)[i] = s[i]
<1>1. ASSUME NEW u \in Seq(X)
      PROVE  s \o u \in Seq(X) /\ Len(s \o u) = Len(s) + Len(u)
  OBVIOUS
<1>2. ASSUME NEW u \in Seq(X), Len(u) = 1
      PROVE  /\ (s \o u)[Len(s) + 1] = u[1]
             /\ \A i \in 1 .. Len(s) : (s \o u)[i] = s[i]
  <2>1. Len(s) \in Nat
    OBVIOUS
  <2>2. \A i \in 1 .. Len(s) + Len(u) :
          (s \o u)[i] = IF i <= Len(s) THEN s[i] ELSE u[i - Len(s)]
    OBVIOUS
  <2>3. /\ Len(s) + 1 \in 1 .. Len(s) + Len(u) /\ ~(Len(s) + 1 <= Len(s))
        /\ Len(s) + 1 - Len(s) = 1
        /\ \A i \in 1 .. Len(s) : i \in 1 .. Len(s) + Len(u) /\ i <= Len(s)
    BY <1>2, <2>1
  <2>4. (s \o u)[Len(s) + 1] = u[Len(s) + 1 - Len(s)]
    BY <2>2, <2>3
  <2>5. \A i \in 1 .. Len(s) : (s \o u)[i] = s[i]
    BY <2>2, <2>3
  <2> QED
    BY <2>3, <2>4, <2>5
<1>3. <<e>> \in Seq(X) /\ Len(<<e>>) = 1 /\ <<e>>[1] = e /\ Len(s) \in Nat
  OBVIOUS
<1> QED
  BY <1>1, <1>2, <1>3, Zenon

\* One amount more.
LEMMA CoversOneMore ==
  ASSUME NEW target, DOMAIN target \subseteq Actions,
         \A a \in DOMAIN target : target[a] \in Int,
         NEW current \in [Actions -> Int],
         NEW A \in SUBSET Actions, NEW a \in Actions \ A, NEW s, Covers(s, A, target, current),
         NEW t, t = IF a \in DOMAIN target THEN Adjustment(a, target[a], current[a]) ELSE <<>>
  PROVE  Covers(s \o t, A \cup {a}, target, current)
<1> DEFINE X == Adjusting(target, current)
<1>1. CASE t = <<>>
  <2>1. s \o t = s
    BY <1>1 DEF Covers
  <2>2. a \in DOMAIN target => target[a] = current[a]
    <3>1. Adjustment(a, target[a], current[a]) = <<>> => target[a] = current[a]
      BY DEF Adjustment
    <3> QED
      BY <1>1, <3>1
  <2> QED
    BY ZenonT(40), <2>1, <2>2 DEF Covers
<1>2. CASE t # <<>>
  <2>1. a \in DOMAIN target /\ target[a] \in Int /\ current[a] \in Int
    BY <1>2
  <2>2. PICK e \in X : t = <<e>> /\ e.action = a
    <3>1. PICK result \in {"success", "adjustment"}, m \in Int :
            /\ t = <<Event(a, result, NoRef, m)>>
            /\ a # "authorization" => result = "success" /\ m = target[a] - current[a]
      <4>1. target[a] - current[a] \in Int
        BY <2>1
      <4>2. t = Adjustment(a, target[a], current[a])
        BY <2>1
      <4>3. CASE a = "authorization" /\ AuthorizationExists
        <5>1. t = <<Event(a, "adjustment", NoRef, target[a])>>
          BY <1>2, <4>2, <4>3 DEF Adjustment
        <5> QED
          BY <2>1, <4>3, <5>1
      <4>4. CASE ~(a = "authorization" /\ AuthorizationExists)
        <5>1. t = <<Event(a, "success", NoRef, target[a] - current[a])>>
          BY <1>2, <4>2, <4>4 DEF Adjustment
        <5> QED
          BY <4>1, <5>1
      <4> QED
        BY <4>3, <4>4
    <3>2. Event(a, result, NoRef, m) \in X
      <4> DEFINE e == Event(a, result, NoRef, m)
      <4>1. /\ e \in [action : DOMAIN target, result : {"success", "adjustment"}, ref : {NoRef},
                      amount : Int, pk : {0}, at : {0}, counted : {TRUE}]
            /\ e.action = a /\ e.result = result /\ e.amount = m
        BY <2>1 DEF Event
      <4> HIDE DEF e
      <4> QED
        BY <3>1, <4>1 DEF Adjusting, e
    <3>3. Event(a, result, NoRef, m).action = a
      BY DEF Event
    <3> QED
      BY <3>1, <3>2, <3>3
  <2> HIDE DEF X
  <2>3. s \in Seq(X)
    BY DEF Covers, X
  <2>4. /\ s \o t \in Seq(X) /\ Len(s \o t) = Len(s) + 1 /\ Len(s) \in Nat
        /\ (s \o t)[Len(s) + 1] = e
        /\ \A i \in 1 .. Len(s) : (s \o t)[i] = s[i]
    <3>1. /\ s \o <<e>> \in Seq(X) /\ Len(s \o <<e>>) = Len(s) + 1 /\ Len(s) \in Nat
          /\ (s \o <<e>>)[Len(s) + 1] = e
          /\ \A i \in 1 .. Len(s) : (s \o <<e>>)[i] = s[i]
      BY <2>3, OneMore
    <3>2. t = <<e>>
      BY <2>2
    <3> QED
      BY ONLY <3>1, <3>2
  <2>5. \A i \in 1 .. Len(s \o t) : i = Len(s) + 1 \/ i \in 1 .. Len(s)
    BY <2>4
  <2>6. \A i \in 1 .. Len(s) : s[i].action \in A /\ s[i].action # a
    BY DEF Covers
  <2>7. \A i \in 1 .. Len(s \o t) : (s \o t)[i].action \in A \cup {a}
    BY <2>2, <2>4, <2>5, <2>6
  <2>8. \A i, j \in 1 .. Len(s \o t) : (s \o t)[i].action = (s \o t)[j].action => i = j
    BY <2>2, <2>4, <2>5, <2>6 DEF Covers
  <2>9. ASSUME NEW b \in ((A \cup {a}) \cap DOMAIN target) \ {"authorization"}
        PROVE  target[b] = current[b] \/ \E i \in 1 .. Len(s \o t) : (s \o t)[i].action = b
    <3>1. CASE b = a
      <4>1. Len(s) + 1 \in 1 .. Len(s \o t)
        BY <2>4
      <4> QED
        BY <3>1, <4>1, <2>2, <2>4
    <3>2. CASE b \in A
      <4>1. \A i \in 1 .. Len(s) : i \in 1 .. Len(s \o t)
        BY <2>4
      <4> QED
        BY <3>2, <4>1, <2>4 DEF Covers
    <3> QED
      BY <3>1, <3>2
  <2> QED
    BY <2>4, <2>7, <2>8, <2>9 DEF Covers, X
<1> QED
  BY <1>1, <1>2

\* What transactionUpdate has in hand.
LEMMA UpdateCovers ==
  ASSUME Tables, Ints, NEW w \in Workers, NEW target, UpdateTransaction(w, target),
         DOMAIN target \subseteq Actions, \A a \in DOMAIN target : target[a] \in Amounts
  PROVE  \E s : /\ Become(w, [at |-> "adjusting", target |-> target, adjustments |-> s])
                /\ Covers(s, Actions, target, Calculated(events).done)
<1> DEFINE current == Calculated(events).done
           For(a) == IF a \in DOMAIN target THEN Adjustment(a, target[a], current[a]) ELSE <<>>
           s1 == For("authorization")
           s2 == s1 \o For("charge")
           s3 == s2 \o For("refund")
           s4 == s3 \o For("cancel")
<1>1. Become(w, [at |-> "adjusting", target |-> target, adjustments |-> s4])
  BY DEF UpdateTransaction
<1>2. current \in [Actions -> Int]
  <2>1. IsFiniteSet(events)
    BY KeysCount DEF Tables, Keyed
  <2> QED
    BY <2>1, AmountsType DEF Ints, AmountColumns
<1>3. \A a \in DOMAIN target : target[a] \in Int
  <2>1. Amounts \subseteq Int
    BY TransactionAssumption
  <2> HIDE DEF current, For, s1, s2, s3, s4
  <2> QED
    BY <2>1
<1> HIDE DEF current
<1>4. Covers(<<>>, {}, target, current)
  BY DEF Covers
<1>5. <<>> \o s1 = s1
  <2>1. s1 = <<>> \/ \E e : s1 = <<e>>
    BY DEF Adjustment
  <2> HIDE DEF s1
  <2> QED
    BY <2>1
<1> USE <1>2, <1>3
<1>6. Covers(s1, {"authorization"}, target, current)
  <2>1. "authorization" \in Actions \ {} /\ {} \cup {"authorization"} = {"authorization"}
    BY DEF Actions
  <2> DEFINE t == For("authorization")
  <2>2. t = IF "authorization" \in DOMAIN target
            THEN Adjustment("authorization", target["authorization"], current["authorization"])
            ELSE <<>>
    OBVIOUS
  <2>3. Covers(<<>> \o t, {} \cup {"authorization"}, target, current)
    <3> HIDE DEF t, For
    <3> QED
      BY <1>4, <2>1, <2>2, CoversOneMore
  <2> HIDE DEF For
  <2> QED
    BY <2>1, <2>3, <1>5
<1> HIDE DEF s1
<1>7. Covers(s2, {"authorization", "charge"}, target, current)
  <2> DEFINE A == {"authorization"}
  <2>1. "charge" \in Actions \ A /\ A \in SUBSET Actions
        /\ A \cup {"charge"} = {"authorization", "charge"}
    BY DEF Actions
  <2> DEFINE t == For("charge")
  <2>2. t = IF "charge" \in DOMAIN target
            THEN Adjustment("charge", target["charge"], current["charge"]) ELSE <<>>
    OBVIOUS
  <2> HIDE DEF t, For, A
  <2>3. Covers(s1 \o t, A \cup {"charge"}, target, current)
    BY <1>6, <2>1, <2>2, CoversOneMore DEF A
  <2> QED
    BY <2>1, <2>3 DEF t
<1> HIDE DEF s2
<1>8. Covers(s3, {"authorization", "charge", "refund"}, target, current)
  <2> DEFINE A == {"authorization", "charge"}
  <2>1. "refund" \in Actions \ A /\ A \in SUBSET Actions
        /\ A \cup {"refund"} = {"authorization", "charge", "refund"}
    BY DEF Actions
  <2> DEFINE t == For("refund")
  <2>2. t = IF "refund" \in DOMAIN target
            THEN Adjustment("refund", target["refund"], current["refund"]) ELSE <<>>
    OBVIOUS
  <2> HIDE DEF t, For, A
  <2>3. Covers(s2 \o t, A \cup {"refund"}, target, current)
    BY <1>7, <2>1, <2>2, CoversOneMore DEF A
  <2> QED
    BY <2>1, <2>3 DEF t
<1> HIDE DEF s3
<1>9. Covers(s4, Actions, target, current)
  <2> DEFINE A == {"authorization", "charge", "refund"}
  <2>1. "cancel" \in Actions \ A /\ A \in SUBSET Actions /\ A \cup {"cancel"} = Actions
    BY DEF Actions
  <2> DEFINE t == For("cancel")
  <2>2. t = IF "cancel" \in DOMAIN target
            THEN Adjustment("cancel", target["cancel"], current["cancel"]) ELSE <<>>
    OBVIOUS
  <2> HIDE DEF t, For, A
  <2>3. Covers(s3 \o t, A \cup {"cancel"}, target, current)
    BY <1>8, <2>1, <2>2, CoversOneMore DEF A
  <2> QED
    BY <2>1, <2>3 DEF t
<1> HIDE DEF s4
<1> QED
  BY <1>1, <1>9 DEF current

-----------------------------------------------------------------------------
(* What manual events do to the amounts.                                   *)

Charges == {"charge", "refund", "cancel"}

\* The amounts but that of the authorization.
LEMMA DoneOf ==
  ASSUME NEW R
  PROVE  /\ AmountsOf(R).done["charge"] =
              Sum(Done(R, "charge")) + Manual(R, <<"charge", "success">>)
                - Manual(R, <<"charge", "back">>) + Manual(R, <<"refund", "reverse">>)
                - Sum(EachRole(R, <<"charge", "back">>))
                + Sum(EachRole(R, <<"refund", "reverse">>))
                - (Sum(Pending(R, "refund")) + Sum(Done(R, "refund")))
         /\ AmountsOf(R).done["refund"] =
              Sum(Done(R, "refund")) + Manual(R, <<"refund", "success">>)
                - Sum(EachRole(R, <<"refund", "reverse">>))
         /\ AmountsOf(R).done["cancel"] =
              Sum(Done(R, "cancel")) + Manual(R, <<"cancel", "success">>)
BY DEF AmountsOf, Actions

\* The events of a type that have no reference; Manual is their sum.
ManualRows(S, type) == {e \in S : <<e.action, e.result>> = type /\ e.ref = NoRef}

AllManual(N) == \A e \in N : e.ref = NoRef /\ e.counted

\* Of events without a reference that are no authorizations, only the sum of
\* those of the same type takes notice.
LEMMA ManualAside ==
  ASSUME NEW S, NEW N, AllManual(N)
  PROVE  /\ \A type \in Charges \X Results, ref \in Refs :
              Role(Relevant(S \cup N), type, ref) = Role(Relevant(S), type, ref)
         /\ \A type \in Charges \X Results :
              ManualRows(Relevant(S \cup N), type) =
                ManualRows(Relevant(S), type) \cup ManualRows(N, type)
<1>1. \A U, e : e \in Relevant(U) <=>
        /\ e \in U /\ e.counted
        /\ e.action = "authorization" =>
             \A a \in Newest({f \in {g \in U : g.counted} : f.result = "adjustment"}) : e.at >= a.at
  BY DEF Relevant
<1>2. \A U, e : e.action # "authorization" => (e \in Relevant(U) <=> e \in U /\ e.counted)
  BY <1>1
<1>3. ASSUME NEW type \in Charges \X Results, NEW e, <<e.action, e.result>> = type
      PROVE  e.action # "authorization"
  BY <1>3 DEF Charges
<1>4. ASSUME NEW type \in Charges \X Results, NEW ref \in Refs
      PROVE  Role(Relevant(S \cup N), type, ref) = Role(Relevant(S), type, ref)
  <2>1. ref # NoRef
    BY TransactionAssumption
  <2> DEFINE P(e) == <<e.action, e.result>> = type /\ e.ref = ref
  <2>2. \A e : P(e) => (e \in Relevant(S \cup N) <=> e \in Relevant(S))
    BY <1>2, <1>3, <2>1 DEF AllManual
  <2>3. {e \in Relevant(S \cup N) : P(e)} = {e \in Relevant(S) : P(e)}
    BY <2>2
  <2> QED
    BY <2>3 DEF Role
<1>5. ASSUME NEW type \in Charges \X Results
      PROVE  ManualRows(Relevant(S \cup N), type) =
               ManualRows(Relevant(S), type) \cup ManualRows(N, type)
  BY <1>2, <1>3 DEF ManualRows, AllManual
<1> QED
  BY <1>4, <1>5

\* So what was done with references is the same.
LEMMA SameRoles ==
  ASSUME NEW R, NEW Q,
         \A type \in Charges \X Results, ref \in Refs : Role(Q, type, ref) = Role(R, type, ref)
  PROVE  /\ \A a \in Charges : Done(Q, a) = Done(R, a) /\ Pending(Q, a) = Pending(R, a)
         /\ \A type \in Charges \X Results : EachRole(Q, type) = EachRole(R, type)
<1>1. ASSUME NEW a \in Charges, NEW ref \in Refs
      PROVE  /\ Role(Q, <<a, "request">>, ref) = Role(R, <<a, "request">>, ref)
             /\ Role(Q, <<a, "success">>, ref) = Role(R, <<a, "success">>, ref)
             /\ Role(Q, <<a, "failure">>, ref) = Role(R, <<a, "failure">>, ref)
  <2>1. <<a, "request">> \in Charges \X Results /\ <<a, "success">> \in Charges \X Results
        /\ <<a, "failure">> \in Charges \X Results
    BY DEF Results
  <2> QED
    BY <2>1
<1>2. ASSUME NEW a \in Charges
      PROVE  Done(Q, a) = Done(R, a)
  <2> DEFINE D(U, ref) == {s \in Role(U, <<a, "success">>, ref) :
                             \A f \in Role(U, <<a, "failure">>, ref) : s.at > f.at}
  <2>1. \A ref \in Refs : D(Q, ref) = D(R, ref)
    BY <1>1
  <2>2. Done(Q, a) = UNION {D(Q, ref) : ref \in Refs}
        /\ Done(R, a) = UNION {D(R, ref) : ref \in Refs}
    BY DEF Done
  <2> HIDE DEF D
  <2> QED
    BY <2>1, <2>2
<1>3. ASSUME NEW a \in Charges
      PROVE  Pending(Q, a) = Pending(R, a)
  BY <1>1 DEF Pending
<1>4. ASSUME NEW type \in Charges \X Results
      PROVE  EachRole(Q, type) = EachRole(R, type)
  BY DEF EachRole
<1> QED
  BY <1>2, <1>3, <1>4

\* N is no event of an action and d is zero, or one event and d its amount.
Adds(N, a, d) ==
  \/ d = 0 /\ \A e \in N : e.action # a
  \/ \E x \in N : x.action = a /\ d = x.amount /\ \A e \in N : e.action = a => e = x

\* The events of N have no reference, and are no failures or reversals.
ManualSuccesses(N) ==
  \A e \in N : /\ IsRow(e) /\ e.ref = NoRef /\ e.counted /\ e.amount \in Int
               /\ e.action # "authorization" => e.result = "success"

\* What manual events of N add to the amount of an action.
LEMMA ManualAdds ==
  ASSUME NEW S, IsFiniteSet(S), IntsIn(S), NEW N, N \cap S = {}, ManualSuccesses(N),
         NEW a \in Charges, NEW d \in Int, Adds(N, a, d)
  PROVE  /\ Calculated(S).done[a] \in Int
         /\ Calculated(S \cup N).done[a] = Calculated(S).done[a] + d
<1> DEFINE R == Relevant(S)
           Q == Relevant(S \cup N)
<1>1. /\ \A type \in Charges \X Results, ref \in Refs : Role(Q, type, ref) = Role(R, type, ref)
      /\ \A type \in Charges \X Results :
           ManualRows(Q, type) = ManualRows(R, type) \cup ManualRows(N, type)
  <2>1. AllManual(N)
    BY DEF AllManual, ManualSuccesses
  <2> QED
    BY ONLY <2>1, ManualAside
<1>2. \A U, type : Manual(U, type) = Sum(ManualRows(U, type))
  BY DEF Manual, ManualRows
<1>3. R \subseteq S
  BY PartsOf
<1> HIDE DEF R, Q
<1>4. /\ \A b \in Charges : Done(Q, b) = Done(R, b) /\ Pending(Q, b) = Pending(R, b)
      /\ \A type \in Charges \X Results : EachRole(Q, type) = EachRole(R, type)
  BY <1>1, SameRoles
<1>5. \A T \in SUBSET R : IsFiniteSet(T) /\ IntsIn(T) /\ Sum(T) \in Int
  <2> SUFFICES ASSUME NEW T \in SUBSET R
               PROVE  IsFiniteSet(T) /\ IntsIn(T) /\ Sum(T) \in Int
    OBVIOUS
  <2>1. IsFiniteSet(T) /\ IntsIn(T)
    BY <1>3, FS_Subset DEF IntsIn
  <2> QED
    BY <2>1, SumIsOf
<1>6. \A type : ManualRows(R, type) \in SUBSET R
  BY DEF ManualRows
<1>7. \A type \in Charges \X Results :
        (\A e \in N : <<e.action, e.result>> # type) => Manual(Q, type) = Manual(R, type)
  <2>1. \A type \in Charges \X Results :
          (\A e \in N : <<e.action, e.result>> # type) => ManualRows(N, type) = {}
    BY DEF ManualRows
  <2> QED
    BY <1>1, <1>2, <2>1
<1>8. /\ <<"charge", "back">> \in Charges \X Results
      /\ <<"refund", "reverse">> \in Charges \X Results
      /\ \A b \in Charges : <<b, "success">> \in Charges \X Results
      /\ \A e \in N : <<e.action, e.result>> # <<"charge", "back">>
      /\ \A e \in N : <<e.action, e.result>> # <<"refund", "reverse">>
  BY DEF Charges, Results, ManualSuccesses
<1>9. Manual(Q, <<a, "success">>) = Manual(R, <<a, "success">>) + d
  <2>1. CASE d = 0 /\ \A e \in N : e.action # a
    <3>1. \A e \in N : <<e.action, e.result>> # <<a, "success">>
      BY <2>1
    <3>2. Manual(Q, <<a, "success">>) = Manual(R, <<a, "success">>)
      BY <1>7, <1>8, <3>1
    <3>3. Manual(R, <<a, "success">>) \in Int
      BY <1>2, <1>5, <1>6
    <3> QED
      BY <2>1, <3>2, <3>3
  <2>2. CASE \E x \in N : x.action = a /\ d = x.amount /\ \A e \in N : e.action = a => e = x
    <3>1. PICK x \in N : x.action = a /\ d = x.amount /\ \A e \in N : e.action = a => e = x
      BY <2>2
    <3>2. x.result = "success" /\ x \notin S /\ x.ref = NoRef
      BY <3>1 DEF Charges, ManualSuccesses
    <3>3. ManualRows(N, <<a, "success">>) = {x}
      BY <3>1, <3>2 DEF ManualRows, ManualSuccesses
    <3> DEFINE T == ManualRows(R, <<a, "success">>)
    <3>4. ManualRows(Q, <<a, "success">>) = T \cup {x}
      BY <1>1, <1>8, <3>3
    <3>5. T \in SUBSET R /\ x \notin T
      BY <1>3, <1>6, <3>2
    <3> HIDE DEF T
    <3>6. Sum(T \cup {x}) = Sum(T) + x.amount
      BY <1>5, <3>1, <3>5, SumAdds DEF ManualSuccesses
    <3> QED
      BY <1>2, <3>1, <3>4, <3>6 DEF T
  <2> QED
    BY <2>1, <2>2 DEF Adds
<1>10. \A b \in Charges : Sum(Done(R, b)) \in Int /\ Sum(Pending(R, b)) \in Int
  BY <1>5, PartsOf
<1>11. \A type : Sum(EachRole(R, type)) \in Int /\ Manual(R, type) \in Int
  BY <1>2, <1>5, <1>6, PartsOf
<1>12. /\ Manual(Q, <<"charge", "back">>) = Manual(R, <<"charge", "back">>)
       /\ Manual(Q, <<"refund", "reverse">>) = Manual(R, <<"refund", "reverse">>)
       /\ EachRole(Q, <<"charge", "back">>) = EachRole(R, <<"charge", "back">>)
       /\ EachRole(Q, <<"refund", "reverse">>) = EachRole(R, <<"refund", "reverse">>)
  BY <1>4, <1>7, <1>8
<1>13. Calculated(S) = AmountsOf(R) /\ Calculated(S \cup N) = AmountsOf(Q)
  BY DEF Calculated, R, Q
<1>14. CASE a = "charge"
  <2>1. /\ Sum(Done(R, "charge")) \in Int /\ Sum(Done(R, "refund")) \in Int
        /\ Sum(Pending(R, "refund")) \in Int
        /\ Done(Q, "charge") = Done(R, "charge") /\ Done(Q, "refund") = Done(R, "refund")
        /\ Pending(Q, "refund") = Pending(R, "refund")
    BY <1>4, <1>10 DEF Charges
  <2> QED
    BY <1>9, <1>11, <1>12, <1>13, <1>14, <2>1, DoneOf
<1>15. CASE a = "refund"
  <2>1. Sum(Done(R, "refund")) \in Int /\ Done(Q, "refund") = Done(R, "refund")
    BY <1>4, <1>10 DEF Charges
  <2> QED
    BY <1>9, <1>11, <1>12, <1>13, <1>15, <2>1, DoneOf
<1>16. CASE a = "cancel"
  <2>1. Sum(Done(R, "cancel")) \in Int /\ Done(Q, "cancel") = Done(R, "cancel")
    BY <1>4, <1>10 DEF Charges
  <2> QED
    BY <1>9, <1>11, <1>12, <1>13, <1>16, <2>1, DoneOf
<1> QED
  BY <1>14, <1>15, <1>16 DEF Charges

-----------------------------------------------------------------------------
(* transactionUpdate reaches its target.                                   *)

\* What amounts have in common with a target.
Hits(done, target) == \A a \in DOMAIN target \ {"authorization"} : done[a] = target[a]

\* What transactionUpdate is about to store takes the amounts to the target;
\* once it is stored they are there.
AimedJob(job, S) ==
  /\ job.at = "adjusting" =>
       /\ DOMAIN job.target \subseteq Actions /\ \A a \in DOMAIN job.target : job.target[a] \in Int
       /\ Covers(job.adjustments, Actions, job.target, Calculated(S).done)
  /\ job.at = "calculating" =>
       DOMAIN job.target \subseteq Actions /\ Hits(Calculated(S).done, job.target)
  /\ job.at = "saving" => Hits(job.amounts.done, job.target)

Aimed == ~raced => \A w \in Workers : AimedJob(proc[w], events)

\* Who does not serve transactionUpdate has no target.
AimsAtNothing(job) ==
  job = Idle \/ job = Calculate(NoTarget) \/ job.at \in {"inserting", "answering", "processing"}

LEMMA AimedAtNothing ==
  ASSUME NEW job, AimsAtNothing(job), NEW S
  PROVE  AimedJob(job, S)
BY DEF AimsAtNothing, AimedJob, Idle, Calculate, NoTarget, Hits

\* What is left when the only worker has done something.
LEMMA AimedAfter ==
  ASSUME Procs, NEW w \in Workers, Only(w), NEW job, Become(w, job), AimedJob(job, events')
  PROVE  Aimed'
<1>1. proc'[w] = job /\ \A v \in Workers \ {w} : proc'[v] = Idle
  BY Becomes DEF Only, Busy
<1>2. AimedJob(Idle, events')
  BY AimedAtNothing DEF AimsAtNothing
<1>3. \A v \in Workers : AimedJob(proc'[v], events')
  BY <1>1, <1>2
<1> QED
  BY <1>3 DEF Aimed

\* Nobody is at work.
LEMMA AimedIdle ==
  ASSUME NEW w \in Workers, Only(w), ~Busy(w), UNCHANGED proc
  PROVE  Aimed'
<1>1. \A v \in Workers : proc'[v] = Idle
  BY DEF Only, Busy
<1>2. AimedJob(Idle, events')
  BY AimedAtNothing DEF AimsAtNothing
<1> QED
  BY <1>1, <1>2 DEF Aimed

\* Nothing that counts is stored.
LEMMA AimedAside ==
  ASSUME Aimed, ~raced, UNCHANGED proc, NEW x, ~x.counted, events' = events \cup {x}
  PROVE  Aimed'
<1>1. Calculated(events') = Calculated(events)
  <2>1. Relevant(events') = Relevant(events)
    BY DEF Relevant
  <2> QED
    BY <2>1 DEF Calculated
<1>2. \A w \in Workers : AimedJob(proc[w], events')
  BY <1>1 DEF Aimed, AimedJob
<1> QED
  BY <1>2 DEF Aimed

LEMMA AimedUpdateTransaction ==
  ASSUME Tables, Ints, NEW w \in Workers, Only(w), NEW target, UpdateTransaction(w, target),
         DOMAIN target \subseteq Actions, \A a \in DOMAIN target : target[a] \in Amounts
  PROVE  Aimed'
<1>0. \A a \in DOMAIN target : target[a] \in Int
  <2>1. Amounts \subseteq Int
    BY TransactionAssumption
  <2> QED
    BY <2>1
<1>1. PICK s : /\ Become(w, [at |-> "adjusting", target |-> target, adjustments |-> s])
               /\ Covers(s, Actions, target, Calculated(events).done)
  BY UpdateCovers
<1>2. UNCHANGED events
  BY DEF UpdateTransaction
<1>3. AimedJob([at |-> "adjusting", target |-> target, adjustments |-> s], events')
  BY <1>0, <1>1, <1>2 DEF AimedJob
<1> QED
  BY <1>1, <1>3, AimedAfter DEF Tables

\* The adjustments take the amounts to the target.
LEMMA AimedInsertAdjustments ==
  ASSUME Tables, Ints, NEW w \in Workers, Only(w), AimedJob(proc[w], events),
         InsertAdjustments(w)
  PROVE  Aimed'
<1> DEFINE target == proc[w].target
           s == proc[w].adjustments
           current == Calculated(events).done
           M == Cardinality(events)
<1>0. M \in Nat /\ \A e \in events : e.pk \in 1 .. M
  BY DEF Tables, Keyed, KeyedUpTo
<1>1. /\ DOMAIN target \subseteq Actions /\ \A a \in DOMAIN target : target[a] \in Int
      /\ Covers(s, Actions, target, current)
  BY DEF AimedJob, InsertAdjustments
<1>2. PICK n \in Nat :
           /\ DOMAIN s = 1 .. n
           /\ events' = events \cup {AdjustedRow(w, i) : i \in 1 .. n}
           /\ \A i \in 1 .. n :
                LET e == s[i]
                    f == AdjustedRow(w, i)
                IN  /\ IsRow(f) /\ f.pk = M + i
                    /\ f.action = e.action /\ f.result = e.result /\ f.ref = NoRef /\ f.counted
  BY AdjustmentsStored
<1>3. /\ \A i \in 1 .. n : s[i] \in Adjusting(target, current)
      /\ \A i, j \in 1 .. n : s[i].action = s[j].action => i = j
      /\ \A a \in DOMAIN target \ {"authorization"} :
           target[a] = current[a] \/ \E i \in 1 .. n : s[i].action = a
  <2>1. s \in Seq(Adjusting(target, current))
    BY <1>1 DEF Covers
  <2>2. DOMAIN s = 1 .. Len(s) /\ \A i \in 1 .. Len(s) : s[i] \in Adjusting(target, current)
    <3> HIDE DEF s
    <3> QED
      BY <2>1
  <2>3. 1 .. n = 1 .. Len(s)
    BY <1>2, <2>2
  <2> QED
    BY <1>1, <2>2, <2>3 DEF Covers
<1> HIDE DEF target, s, current, M
<1> DEFINE row == [i \in 1 .. n |-> AdjustedRow(w, i)]
           N == {row[i] : i \in 1 .. n}
<1>4. ASSUME NEW i \in 1 .. n
      PROVE  /\ IsRow(row[i]) /\ row[i].pk = M + i /\ row[i].action = s[i].action
             /\ row[i].result = s[i].result /\ row[i].ref = NoRef /\ row[i].counted
             /\ row[i].amount = s[i].amount /\ row[i].amount \in Int
             /\ row[i].action \in DOMAIN target
             /\ row[i].action # "authorization" =>
                  /\ row[i].result = "success"
                  /\ row[i].amount = target[row[i].action] - current[row[i].action]
  <2>1. s[i] \in Adjusting(target, current)
    BY <1>3
  <2>2. row[i] = [s[i] EXCEPT !.pk = M + i, !.at = 2 * (M + i)]
    BY DEF AdjustedRow, s, M
  <2>3. row[i].amount = s[i].amount
    <3> HIDE DEF row
    <3> QED
      BY <2>1, <2>2 DEF Adjusting
  <2>4. /\ IsRow(row[i]) /\ row[i].pk = M + i /\ row[i].action = s[i].action
        /\ row[i].result = s[i].result /\ row[i].ref = NoRef /\ row[i].counted
    BY <1>2
  <2> HIDE DEF row
  <2> QED
    BY <2>1, <2>3, <2>4 DEF Adjusting
<1>5. events' = events \cup N
  BY <1>2
<1> HIDE DEF row
<1>6. N \cap events = {}
  <2>1. ASSUME NEW i \in 1 .. n, row[i] \in events
        PROVE  FALSE
    <3>1. M + i \in 1 .. M
      BY <1>0, <1>4, <2>1 DEF M
    <3> QED
      BY <1>0, <3>1 DEF M
  <2> QED
    BY <2>1
<1>7. ManualSuccesses(N)
  BY <1>4 DEF ManualSuccesses
<1>8. IsFiniteSet(events) /\ IntsIn(events)
  BY KeysCount DEF Tables, Keyed, Ints
<1>9. ASSUME NEW a \in DOMAIN target \ {"authorization"}
      PROVE  Calculated(events').done[a] = target[a]
  <2>1. a \in Charges
    BY <1>1 DEF Charges, Actions, target
  <2>2. target[a] \in Int
    BY <1>1 DEF target
  <2>3. current[a] \in Int
    <3>1. Calculated(events).done \in [Actions -> Int]
      BY <1>8, AmountsType DEF AmountColumns
    <3> QED
      BY <2>1, <3>1 DEF current, Charges, Actions
  <2>0. ASSUME NEW d \in Int, Adds(N, a, d)
        PROVE  Calculated(events \cup N).done[a] = current[a] + d
    <3> HIDE DEF N
    <3> QED
      BY <1>6, <1>7, <1>8, <2>1, <2>0, ManualAdds DEF current
  <2>4. CASE target[a] = current[a] /\ \A e \in N : e.action # a
    <3>1. Adds(N, a, 0)
      BY <2>4 DEF Adds
    <3> HIDE DEF N
    <3>2. Calculated(events \cup N).done[a] = current[a] + 0
      <4>1. 0 \in Int
        OBVIOUS
      <4> QED
        BY <2>0, <3>1, <4>1
    <3> QED
      BY <1>5, <2>3, <2>4, <3>2
  <2>5. CASE \E x \in N : x.action = a
    <3>1. PICK i \in 1 .. n : row[i].action = a
      BY <2>5
    <3> DEFINE x == row[i]
               d == target[a] - current[a]
    <3>2. x \in N /\ x.action = a /\ x.amount = d /\ d \in Int
      BY <1>4, <2>2, <2>3, <3>1
    <3>3. \A e \in N : e.action = a => e = x
      <4>1. ASSUME NEW j \in 1 .. n, row[j].action = a PROVE row[j] = x
        BY <1>3, <1>4, <3>1, <4>1
      <4> QED
        BY <4>1
    <3> HIDE DEF x, d, N
    <3>4. Calculated(events \cup N).done[a] = current[a] + d
      <4>1. Adds(N, a, d)
        BY <3>2, <3>3 DEF Adds
      <4>2. d \in Int
        BY <3>2
      <4> QED
        BY <2>0, <4>1, <4>2
    <3> QED
      BY <1>5, <2>2, <2>3, <3>4 DEF d
  <2>6. target[a] = current[a] \/ \E x \in N : x.action = a
    BY <1>3, <1>4
  <2> QED
    BY <2>4, <2>5, <2>6
<1>10. Become(w, Calculate(target))
  BY DEF InsertAdjustments, target
<1>11. AimedJob(Calculate(target), events')
  BY <1>1, <1>9 DEF AimedJob, Calculate, Hits, target
<1> QED
  BY <1>10, <1>11, AimedAfter DEF Tables

LEMMA AimedAmounts ==
  ASSUME Tables, Ints, NEW w \in Workers, Only(w), AimedJob(proc[w], events),
         ReadEvents(w) \/ SaveAmounts(w)
  PROVE  Aimed'
<1>1. CASE ReadEvents(w)
  <2> DEFINE job == [at |-> "saving", amounts |-> Recalculated(events),
                     target |-> proc[w].target]
  <2>1. DOMAIN proc[w].target \subseteq Actions /\ Hits(Calculated(events).done, proc[w].target)
    BY <1>1 DEF ReadEvents, AimedJob
  <2>2. \A a \in Actions \ {"authorization"} :
          Recalculated(events).done[a] = Calculated(events).done[a]
    <3>1. IsFiniteSet(events) /\ IntsIn(events)
      BY KeysCount DEF Tables, Keyed, Ints
    <3>2. Calculated(events).done \in [Actions -> Int]
      BY <3>1, AmountsType DEF AmountColumns
    <3> QED
      BY <3>2 DEF Recalculated
  <2>3. Hits(Recalculated(events).done, proc[w].target)
    BY <2>1, <2>2 DEF Hits
  <2>4. AimedJob(job, events')
    BY <2>3 DEF AimedJob
  <2>5. Become(w, job)
    BY <1>1 DEF ReadEvents
  <2> HIDE DEF job
  <2> QED
    BY <2>4, <2>5, AimedAfter DEF Tables
<1>2. CASE SaveAmounts(w)
  <2>1. Become(w, Idle) /\ AimedJob(Idle, events')
    BY <1>2, AimedAtNothing DEF SaveAmounts, AimsAtNothing
  <2> QED
    BY <2>1, AimedAfter DEF Tables
<1> QED
  BY <1>1, <1>2

\* The steps of a worker without a target give it none.
LEMMA StepsAside ==
  ASSUME NEW w \in Workers,
         InsertEvent(w) \/ LookUpAnswer(w) \/ SessionStep(w)
  PROVE  \E job : Become(w, job) /\ AimsAtNothing(job)
<1>1. CASE InsertEvent(w)
  BY <1>1 DEF InsertEvent, AimsAtNothing
<1>2. CASE LookUpAnswer(w)
  BY <1>2 DEF LookUpAnswer, AimsAtNothing
<1>3. CASE SessionUnanswered(w)
  BY <1>3 DEF SessionUnanswered, AimsAtNothing
<1>4. ASSUME NEW action, NEW ref, NEW n, SessionPending(w, action, ref, n)
      PROVE  \E job : Become(w, job) /\ AimsAtNothing(job)
  BY <1>4 DEF SessionPending, AimsAtNothing
<1>5. ASSUME NEW action, NEW ref, NEW n, NEW result, SessionAnswered(w, action, result, ref, n)
      PROVE  \E job : Become(w, job) /\ AimsAtNothing(job)
  BY <1>5 DEF SessionAnswered, AimsAtNothing
<1> QED
  BY <1>1, <1>2, <1>3, <1>4, <1>5 DEF SessionStep

\* Without a race, what workers have in hand leads to their targets.
LEMMA AimedKept == Tables /\ Alone /\ Ints /\ Aimed /\ [Next]_vars => Aimed'
<1> SUFFICES ASSUME Tables, Alone, Ints, Aimed, [Next]_vars, ~raced' PROVE Aimed'
  BY DEF Aimed
<1>0. Procs
  BY DEF Tables
<1>1. CASE UNCHANGED vars
  BY <1>1 DEF vars, Aimed
<1>2. CASE Next
  <2>0. ASSUME NEW w \in Workers, Only(w), NEW job, Become(w, job), AimsAtNothing(job)
        PROVE  Aimed'
    BY <1>0, <2>0, AimedAfter, AimedAtNothing
  <2>1. ASSUME NEW w \in Workers, NEW e, Report(w, e) PROVE Aimed'
    <3>1. Only(w) /\ ~Busy(w)
      BY <2>1, BeginsAlone DEF Report
    <3>2. UNCHANGED proc \/ \E job : Become(w, job) /\ AimsAtNothing(job)
      BY <2>1 DEF Report, AimsAtNothing
    <3> QED
      BY <2>0, <3>1, <3>2, AimedIdle
  <2>2. ASSUME NEW action \in {"charge", "refund", "cancel"}, NEW n, RequestAction(action, n),
               UNCHANGED unsettled
        PROVE  Aimed'
    <3>1. UNCHANGED <<proc, raced>>
      BY <2>2 DEF RequestAction
    <3>2. Flags'
      BY <2>2, <3>1 DEF Tables, Flags
    <3>3. \E x : events' = events \cup {x} /\ ~x.counted
      BY <2>2, <3>2, TablesRequestAction
    <3> QED
      BY <3>1, <3>3, AimedAside
  <2>3. ASSUME NEW q \in events, AnswerLost(q), UNCHANGED unsettled PROVE Aimed'
    <3>1. UNCHANGED <<proc, raced>>
      BY <2>3 DEF AnswerLost
    <3>2. Flags'
      BY <2>3, <3>1 DEF Tables, Flags
    <3>3. \E x : events' = events \cup {x} /\ ~x.counted
      BY <2>3, <3>2, TablesAnswerLost
    <3> QED
      BY <3>1, <3>3, AimedAside
  <2>4. ASSUME NEW q, NEW w \in Workers, NEW ref, NEW result, NEW n,
               AnswerRequest(w, q, ref, result, n)
        PROVE  Aimed'
    <3>1. \E job : Become(w, job) /\ AimsAtNothing(job)
      BY <2>4 DEF AnswerRequest, AimsAtNothing
    <3>2. Only(w)
      BY <2>4, BeginsAlone DEF AnswerRequest
    <3> QED
      BY <2>0, <3>1, <3>2
  <2>5. ASSUME NEW w \in Workers, ProcessSession(w) PROVE Aimed'
    <3>1. \E job : Become(w, job) /\ AimsAtNothing(job)
      BY <2>5 DEF ProcessSession, AimsAtNothing
    <3>2. Only(w)
      BY <2>5, BeginsAlone DEF ProcessSession
    <3> QED
      BY <2>0, <3>1, <3>2
  <2>6. ASSUME NEW w \in Workers, NEW target, UpdateTransaction(w, target),
               DOMAIN target \subseteq Actions, \A a \in DOMAIN target : target[a] \in Amounts
        PROVE  Aimed'
    <3>1. Only(w)
      BY <2>6, BeginsAlone DEF UpdateTransaction
    <3> QED
      BY <2>6, <3>1, AimedUpdateTransaction
  <2>7. ASSUME NEW w \in Workers, Step(w) PROVE Aimed'
    <3>1. Only(w) /\ AimedJob(proc[w], events)
      BY <2>7, StepsAlone DEF Aimed
    <3>2. CASE InsertEvent(w) \/ LookUpAnswer(w) \/ SessionStep(w)
      BY <2>0, <3>1, <3>2, StepsAside
    <3>3. CASE ReadEvents(w) \/ SaveAmounts(w)
      BY <3>1, <3>3, AimedAmounts
    <3>4. CASE InsertAdjustments(w)
      BY <3>1, <3>4, AimedInsertAdjustments
    <3> QED
      BY <2>7, <3>2, <3>3, <3>4 DEF Step
  <2> QED
    BY <1>2, <2>1, <2>2, <2>3, <2>4, <2>5, <2>6, <2>7, NextCases
<1> QED
  BY <1>1, <1>2

\* Storing adjustments keeps amounts integers.
LEMMA IntsInsertAdjustments ==
  ASSUME Tables, Ints, NEW w \in Workers, InsertAdjustments(w)
  PROVE  Ints'
<1>1. PICK n \in Nat :
           /\ DOMAIN proc[w].adjustments = 1 .. n
           /\ events' = events \cup {AdjustedRow(w, i) : i \in 1 .. n}
  BY AdjustmentsStored
<1>2. \A i \in 1 .. n : IsNew(proc[w].adjustments[i]) /\ proc[w].adjustments[i].amount \in Int
  <2>1. JobOK(proc[w], events) /\ IntJob(proc[w]) /\ proc[w].at = "adjusting"
    BY DEF Tables, Jobs, Ints, InsertAdjustments
  <2>2. \A i \in DOMAIN proc[w].adjustments : IsNew(proc[w].adjustments[i])
    BY <2>1 DEF JobOK, Idle
  <2>3. \A i \in DOMAIN proc[w].adjustments : proc[w].adjustments[i].amount \in Int
    BY <2>1 DEF IntJob
  <2> QED
    BY <1>1, <2>2, <2>3
<1>3. ASSUME NEW i \in 1 .. n
      PROVE  AdjustedRow(w, i).amount \in Int
  <2>1. PICK e : e = proc[w].adjustments[i]
    OBVIOUS
  <2>2. IsNew(e) /\ e.amount \in Int
    BY <1>2, <2>1
  <2>3. PICK t, k : AdjustedRow(w, i) = [e EXCEPT !.pk = k, !.at = t]
    BY <2>1 DEF AdjustedRow
  <2> QED
    BY <2>2, <2>3 DEF IsNew
<1>4. IntsIn(events')
  BY <1>1, <1>3 DEF IntsIn, Ints
<1>5. Become(w, Calculate(proc[w].target)) /\ UNCHANGED amounts
  BY DEF InsertAdjustments
<1> QED
  BY <1>4, <1>5, NoAmountsInHand, IntsAfter DEF Ints, Tables

LEMMA IntsUpdateTransaction ==
  ASSUME Tables, Ints, NEW w \in Workers, NEW target, UpdateTransaction(w, target),
         DOMAIN target \subseteq Actions, \A a \in DOMAIN target : target[a] \in Amounts
  PROVE  Ints'
<1>1. PICK s : /\ Become(w, [at |-> "adjusting", target |-> target, adjustments |-> s])
               /\ Covers(s, Actions, target, Calculated(events).done)
  BY UpdateCovers
<1>2. s \in Seq(Adjusting(target, Calculated(events).done))
  BY <1>1 DEF Covers
<1>3. \A i \in DOMAIN s : s[i] \in Adjusting(target, Calculated(events).done)
  BY <1>2
<1>4. IntJob([at |-> "adjusting", target |-> target, adjustments |-> s])
  BY <1>3 DEF IntJob, Adjusting
<1> QED
  BY <1>1, <1>4, IntsAfter DEF UpdateTransaction, Ints, Tables

\* Every step keeps amounts integers.
LEMMA IntsKept == Tables /\ Ints /\ [Next]_vars => Ints'
<1> SUFFICES ASSUME Tables, Ints, [Next]_vars PROVE Ints'
  OBVIOUS
<1>1. CASE UNCHANGED vars
  BY <1>1 DEF vars, Ints
<1>2. CASE Next
  <2>0. Amounts \subseteq Int
    BY TransactionAssumption
  <2>1. ASSUME NEW w \in Workers, NEW e, IsNew(e), e.amount \in Amounts, Report(w, e) PROVE Ints'
    BY <2>0, <2>1, IntsReport
  <2>2. ASSUME NEW action \in {"charge", "refund", "cancel"}, NEW n \in Amounts,
               RequestAction(action, n)
        PROVE  Ints'
    BY <2>2, IntsRequestAction
  <2>3. ASSUME NEW q \in events, AnswerLost(q) PROVE Ints'
    BY <2>3, IntsAnswerLost
  <2>4. ASSUME NEW q \in events, NEW w \in Workers, NEW ref, NEW result, NEW n \in Amounts,
               AnswerRequest(w, q, ref, result, n)
        PROVE  Ints'
    BY <2>4, IntsAnswerRequest
  <2>5. ASSUME NEW w \in Workers, ProcessSession(w) PROVE Ints'
    BY <2>5, IntsProcessSession
  <2>6. ASSUME NEW w \in Workers, NEW target, UpdateTransaction(w, target),
               DOMAIN target \subseteq Actions, \A a \in DOMAIN target : target[a] \in Amounts
        PROVE  Ints'
    BY <2>6, IntsUpdateTransaction
  <2>7. ASSUME NEW w \in Workers, Step(w) PROVE Ints'
    <3>1. CASE SessionStep(w)
      BY <3>1, IntsSessionUnanswered, IntsSessionPending, IntsSessionAnswered DEF SessionStep
    <3>2. CASE InsertEvent(w) \/ LookUpAnswer(w)
      BY <3>2, IntsInsertEvent, IntsLookUpAnswer
    <3>3. CASE ReadEvents(w) \/ SaveAmounts(w)
      BY <3>3, IntsAmounts
    <3>4. CASE InsertAdjustments(w)
      BY <3>4, IntsInsertAdjustments
    <3> QED
      BY <2>7, <3>1, <3>2, <3>3, <3>4 DEF Step
  <2> QED
    BY <1>2, <2>1, <2>2, <2>3, <2>4, <2>5, <2>6, <2>7, NextCases
<1> QED
  BY <1>1, <1>2

LEMMA IntsInit == Init => Ints
<1> SUFFICES ASSUME Init PROVE Ints
  OBVIOUS
<1>1. IntsIn(events)
  <2>1. CASE events = {}
    BY <2>1 DEF IntsIn
  <2>2. ASSUME NEW a \in Sessions, NEW n \in Amounts, events = {Opened(a, n)}
        PROVE  IntsIn(events)
    <3>1. Opened(a, n).amount = n /\ n \in Int
      BY TransactionAssumption DEF Opened, Event
    <3> QED
      BY <2>2, <3>1 DEF IntsIn
  <2> QED
    BY <2>1, <2>2 DEF Init
<1>2. amounts \in CutColumns
  BY DEF Init, Zero, CutColumns, AmountColumns, Actions
<1>3. \A w \in Workers : IntJob(proc[w])
  BY NoAmountsInHand DEF Init
<1> QED
  BY <1>1, <1>2, <1>3 DEF Ints

LEMMA AimedInit == Init => Aimed
<1> SUFFICES ASSUME Init PROVE Aimed
  OBVIOUS
<1>1. \A w \in Workers : proc[w] = Idle
  BY DEF Init
<1>2. AimedJob(Idle, events)
  BY AimedAtNothing DEF AimsAtNothing
<1> QED
  BY <1>1, <1>2 DEF Aimed

\* Calls are counted, and what was answered is of a type.
LEMMA HistoriesKept == Histories /\ [Next]_vars => Histories'
<1> SUFFICES ASSUME Histories, [Next]_vars PROVE Histories'
  OBVIOUS
<1> USE DEF Histories
<1>1. CASE UNCHANGED vars
  BY <1>1 DEF vars
<1>2. CASE ReportCall
  <2>1. PICK w \in Workers, type \in Reports, ref \in Refs, n \in Amounts :
          Report(w, Event(type[1], type[2], ref, n))
    BY <1>2 DEF ReportCall
  <2>2. known' = known \/ known' = known \cup {<<type[1], type[2], ref>>}
    <3>1. /\ Event(type[1], type[2], ref, n).action = type[1]
          /\ Event(type[1], type[2], ref, n).result = type[2]
          /\ Event(type[1], type[2], ref, n).ref = ref
      BY DEF Event
    <3> QED
      BY <2>1, <3>1 DEF Report
  <2>3. type \in Types
    BY TransactionAssumption
  <2>4. calls' = calls + 1
    BY <1>2 DEF ReportCall, Call
  <2> QED
    BY <2>2, <2>3, <2>4
<1>3. CASE RequestCall \/ AnswerCall \/ SessionCall \/ UpdateCall
  <2>1. UNCHANGED known /\ calls' = calls + 1
    BY <1>3 DEF RequestCall, AnswerCall, SessionCall, UpdateCall, Call
  <2> QED
    BY <2>1
<1>4. CASE \E w \in Workers : Step(w)
  <2>1. UNCHANGED <<known, calls>>
    BY <1>4 DEF Step
  <2> QED
    BY <2>1
<1> QED
  BY <1>1, <1>2, <1>3, <1>4 DEF Next

\* The parts make up the type.
LEMMA TypeFollows == Tables /\ Ints /\ Histories => TypeOK
<1> SUFFICES ASSUME Tables, Ints, Histories PROVE TypeOK
  OBVIOUS
<1> USE DEF Tables, Keyed, KeyedUpTo
<1>1. events \subseteq Events
  <2>1. ASSUME NEW e \in events PROVE e \in Events
    <3>1. IsRow(e) /\ e.amount \in Int
      BY DEF Ints, IntsIn
    <3> QED
      BY <3>1 DEF IsRow, Events, Results
  <2> QED
    BY <2>1
<1>2. sent \subseteq {e.pk : e \in events}
  <2>1. ASSUME NEW k \in sent PROVE \E e \in events : e.pk = k
    BY DEF Sent
  <2> QED
    BY <2>1
<1>3. amounts \in AmountColumns /\ amounts.done["authorization"] >= 0
      /\ amounts.pending["authorization"] >= 0
  BY DEF Ints, CutColumns
<1> QED
  BY <1>1, <1>2, <1>3 DEF TypeOK, Flags, Histories

\* The table of events and the columns keep their types, the amounts that are
\* cut at zero are never negative, and a primary key names one event.
THEOREM TransactionTypeOKAlways == Spec => []TypeOK
<1> DEFINE Safe == Tables /\ Ints /\ Histories
<1>1. Init => Safe
  BY TablesInit, IntsInit DEF Init, Histories
<1>2. Safe /\ [Next]_vars => Safe'
  BY TablesKept, IntsKept, HistoriesKept
<1>3. Safe => TypeOK
  BY TypeFollows
<1> QED
  BY <1>1, <1>2, <1>3, PTL DEF Spec

\* Who has saved amounts saved those that were read.
LEMMA WhoSaves ==
  ASSUME Tables, Aimed, ~raced, Next, NEW w \in Workers,
         proc[w].at = "saving", proc'[w] = Idle
  PROVE  amounts' = proc[w].amounts
<1>0. Idle.at # "saving" /\ Procs
  BY DEF Idle, Tables
<1>1. ASSUME NEW v \in Workers, v # w, UNCHANGED proc \/ \E job : Become(v, job)
      PROVE  FALSE
  <2>1. proc'[w] = proc[w]
    BY <1>0, <1>1, Becomes
  <2> QED
    BY <1>0, <2>1
<1>2. ASSUME UNCHANGED proc PROVE FALSE
  BY <1>0, <1>2
<1>3. ASSUME NEW v \in Workers, Begin(v) PROVE v # w
  BY <1>0, <1>3 DEF Begin
<1>4. ASSUME NEW v \in Workers, NEW e, Report(v, e) PROVE FALSE
  BY <1>1, <1>3, <1>4 DEF Report
<1>5. ASSUME NEW action, NEW n, RequestAction(action, n) PROVE FALSE
  BY <1>2, <1>5 DEF RequestAction
<1>6. ASSUME NEW q, AnswerLost(q) PROVE FALSE
  BY <1>2, <1>6 DEF AnswerLost
<1>7. ASSUME NEW q, NEW v \in Workers, NEW ref, NEW result, NEW n,
             AnswerRequest(v, q, ref, result, n)
      PROVE  FALSE
  <2>1. Begin(v) /\ \E job : Become(v, job)
    BY <1>7 DEF AnswerRequest
  <2> QED
    BY <1>1, <1>3, <2>1
<1>8. ASSUME NEW v \in Workers, ProcessSession(v) PROVE FALSE
  <2>1. Begin(v) /\ \E job : Become(v, job)
    BY <1>8 DEF ProcessSession
  <2> QED
    BY <1>1, <1>3, <2>1
<1>9. ASSUME NEW v \in Workers, NEW target, UpdateTransaction(v, target) PROVE FALSE
  <2>1. Begin(v) /\ \E job : Become(v, job)
    BY <1>9 DEF UpdateTransaction
  <2> QED
    BY <1>1, <1>3, <2>1
<1>10. ASSUME NEW v \in Workers, Step(v) PROVE amounts' = proc[w].amounts
  <2>1. v = w
    BY <1>1, <1>10, JobsChange
  <2>2. SaveAmounts(w)
    BY ZenonT(40), <1>10, <2>1 DEF Step, InsertEvent, ReadEvents, LookUpAnswer, SessionStep,
           SessionUnanswered, SessionPending, SessionAnswered, InsertAdjustments
  <2> QED
    BY <2>2 DEF SaveAmounts
<1> QED
  BY <1>4, <1>5, <1>6, <1>7, <1>8, <1>9, <1>10, NextCases

\* Without a race transactionUpdate sets the charged, refunded and canceled
\* amounts that it was called with, whatever was reported or requested before.
THEOREM UpdateSetsAmountsAlways == Spec => UpdateSetsAmounts
<1> DEFINE Safe == Tables /\ Alone /\ Ints /\ Aimed
           Sets == \A w \in Workers :
                     proc[w].at = "saving" /\ proc'[w] = Idle /\ ~raced =>
                       \A a \in DOMAIN proc[w].target \ {"authorization"} :
                         amounts'.done[a] = proc[w].target[a]
<1>1. Init => Safe
  BY TablesInit, AloneInit, IntsInit, AimedInit
<1>2. Safe /\ [Next]_vars => Safe'
  BY TablesKept, AloneKept, IntsKept, AimedKept
<1>3. Safe /\ [Next]_vars => [Sets]_vars
  <2> SUFFICES ASSUME Safe, Next, NEW w \in Workers,
                      proc[w].at = "saving", proc'[w] = Idle, ~raced
               PROVE  \A a \in DOMAIN proc[w].target \ {"authorization"} :
                        amounts'.done[a] = proc[w].target[a]
    BY DEF vars
  <2>1. amounts' = proc[w].amounts
    BY WhoSaves
  <2>2. Hits(proc[w].amounts.done, proc[w].target)
    BY DEF Aimed, AimedJob
  <2> QED
    BY <2>1, <2>2 DEF Hits
<1>4. UpdateSetsAmounts <=> [][Sets]_vars
  BY DEF UpdateSetsAmounts
<1> QED
  BY <1>1, <1>2, <1>3, <1>4, PTL DEF Spec
=============================================================================
