--------------------------- MODULE GiftCardsProofs ---------------------------
(***************************************************************************)
(* Safety of gift cards for any cards, checkouts, prices, workers and      *)
(* number of requests: balances stay at or above zero, the events of a     *)
(* card account for its balance, and an order is paid for once.            *)
(***************************************************************************)
EXTENDS GiftCards, QuantitiesProofs

Job == {Idle} \cup Completions \cup Edits

\* The kinds of job are told apart by their field kind.
LEMMA JobKinds ==
  ASSUME NEW p \in Job
  PROVE  /\ p.kind = "completing" <=> p \in Completions
         /\ p.kind \in {"loaded", "saved"} <=> p \in Edits
         /\ p.kind = "idle" <=> p = Idle
         /\ p.kind \in {"idle", "completing", "loaded", "saved"}
BY DEF Job, Idle, Completions, Edits

\* What a completion learns changes nothing else of a job.
LEMMA NotedJob ==
  ASSUME NEW p \in Job, NEW gained, NEW lost
  PROVE  /\ Noted(p, gained, lost) \in Job
         /\ Noted(p, gained, lost).kind = p.kind
         /\ p \notin Completions => Noted(p, gained, lost) = p
         /\ p \in Completions =>
              LET q == Noted(p, gained, lost)
              IN  /\ q \in Completions /\ q.k = p.k /\ q.total = p.total
                  /\ q.priced = p.priced /\ q.checked = p.checked
                  /\ q.flow = p.flow
                  /\ p.rose => q.rose
                  /\ p.fell => q.fell
                  /\ (p.priced \/ p.checked) /\ p.k \in gained => q.rose
                  /\ (p.priced \/ p.checked) /\ p.k \in lost => q.fell
<1>1. CASE p \in Completions
  <2>1. p.kind = "completing"
    BY <1>1 DEF Completions
  <2>2. CASE p.priced \/ p.checked
    <3>1. Noted(p, gained, lost) =
            [p EXCEPT !.rose = @ \/ p.k \in gained, !.fell = @ \/ p.k \in lost]
      BY <2>1, <2>2 DEF Noted
    <3>2. (p.rose \/ p.k \in gained) \in BOOLEAN /\ (p.fell \/ p.k \in lost) \in BOOLEAN
      OBVIOUS
    <3> DEFINE r == p.rose \/ p.k \in gained
               f == p.fell \/ p.k \in lost
               q == [p EXCEPT !.rose = r, !.fell = f]
    <3>3. /\ q \in Completions /\ q.k = p.k /\ q.total = p.total
          /\ q.priced = p.priced /\ q.checked = p.checked
          /\ q.flow = p.flow /\ q.rose = r /\ q.fell = f /\ q.kind = p.kind
      <4> HIDE DEF r, f
      <4>1. r \in BOOLEAN /\ f \in BOOLEAN
        BY DEF r, f
      <4> QED
        BY <4>1, <1>1 DEF Completions
    <3>4. Noted(p, gained, lost) = q
      BY <3>1
    <3> HIDE DEF q
    <3> QED
      BY <3>3, <3>4, <1>1 DEF Job
  <2>3. CASE ~(p.priced \/ p.checked)
    BY <2>3, <1>1 DEF Noted, Job
  <2> QED
    BY <2>2, <2>3
<1>2. CASE p \notin Completions
  BY <1>2, JobKinds DEF Noted
<1> QED
  BY <1>1, <1>2

-----------------------------------------------------------------------------
(* Sums.                                                                   *)

Now(k) == Total([c \in attached[k] |-> balance[c]])
Countable(k) == Total([c \in attached[k] \cap Valid |-> balance[c]])

\* The sums over a checkout's cards are natural numbers.
LEMMA SumsNat ==
  ASSUME TypeOK, NEW k \in Checkouts
  PROVE  /\ Now(k) \in Nat /\ Countable(k) \in Nat
         /\ IsFiniteSet(attached[k]) /\ attached[k] \subseteq Nat
         /\ [c \in attached[k] |-> balance[c]] \in [attached[k] -> Nat]
         /\ Countable(k) <= Now(k)
<1>1. attached[k] \subseteq Cards /\ IsFiniteSet(attached[k])
  BY CardsAssumption, FS_Subset DEF TypeOK
<1>2. attached[k] \cap Valid \subseteq attached[k] /\ IsFiniteSet(attached[k] \cap Valid)
  BY <1>1, FS_Subset
<1>3. [c \in attached[k] |-> balance[c]] \in [attached[k] -> Nat]
  BY <1>1 DEF TypeOK
<1>4. [c \in attached[k] \cap Valid |-> balance[c]] \in [attached[k] \cap Valid -> Nat]
  BY <1>1 DEF TypeOK
<1>5. Now(k) \in Nat /\ Countable(k) \in Nat
  BY <1>1, <1>2, <1>3, <1>4, TotalNat DEF Now, Countable
<1>6. Countable(k) <= Now(k)
  BY <1>1, <1>2, <1>3, <1>4, TotalMonotone DEF Now, Countable
<1> QED
  BY <1>1, <1>3, <1>5, <1>6, CardsAssumption

\* What an order takes from its cards: from each no more than it has, in all
\* what is asked or what there is.
LEMMA SpentSum ==
  ASSUME TypeOK, NEW k \in Checkouts
  PROVE  /\ Spent(k) \in [attached[k] -> Nat]
         /\ \A c \in attached[k] : Spent(k)[c] <= balance[c]
         /\ Total(Spent(k)) = Lesser(Asked(k), Now(k))
         /\ Asked(k) \in Nat /\ Asked(k) <= Price[k] /\ Price[k] \in Nat
         /\ \A c \in attached[k] : Spent(k)[c] > 0 => c \in Reached(k)
<1> DEFINE room == [c \in attached[k] |-> balance[c]]
<1>1. room \in [attached[k] -> Nat] /\ IsFiniteSet(attached[k]) /\ attached[k] \subseteq Nat
  BY SumsNat
<1>2. Asked(k) \in Nat /\ Asked(k) <= Price[k] /\ Price[k] \in Nat
  BY PriceAssumption DEF Asked, Positive
<1>3. Before(k) \in [attached[k] -> SUBSET attached[k]]
  BY DEF Before
<1>4. Spent(k) = Spread(Asked(k), room, Before(k))
  BY DEF Spent
<1>5. \A c \in attached[k] : room[c] = balance[c]
  OBVIOUS
<1>6. Now(k) = Total(room)
  BY DEF Now
<1>7. Before(k) = [x \in attached[k] |-> {y \in attached[k] : y < x}]
  BY DEF Before
<1>8. ASSUME NEW c \in attached[k], Spent(k)[c] > 0
      PROVE  c \in Reached(k)
  <2>1. [d \in Before(k)[c] |-> room[d]] = [d \in Before(k)[c] |-> balance[d]]
    BY <1>3
  <2> DEFINE earlier == Total([d \in Before(k)[c] |-> balance[d]])
  <2>2. Spent(k)[c] = Lesser(room[c], Positive(Asked(k) - earlier))
    BY <1>4, <2>1 DEF Spread
  <2>3. earlier \in Nat
    <3>1. IsFiniteSet(Before(k)[c]) /\ Before(k)[c] \subseteq attached[k]
      BY <1>1, <1>3, FS_Subset
    <3>2. [d \in Before(k)[c] |-> balance[d]] \in [Before(k)[c] -> Nat]
      BY <3>1 DEF TypeOK
    <3> QED
      BY <3>1, <3>2, TotalNat
  <2>4. room[c] \in Nat
    BY <1>1
  <2> HIDE DEF earlier, room
  <2>5. earlier < Asked(k)
    BY <2>2, <2>3, <2>4, <1>2, <1>8 DEF Lesser, Positive
  <2> QED
    BY <2>5 DEF Reached, earlier
<1> HIDE DEF room
<1>9. /\ Spread(Asked(k), room, Before(k)) \in [attached[k] -> Nat]
      /\ \A c \in attached[k] : Spread(Asked(k), room, Before(k))[c] <= room[c]
  BY <1>1, <1>2, <1>3, SpreadBounds
<1>10. Total(Spread(Asked(k), room, Before(k))) = Lesser(Asked(k), Total(room))
  <2>1. attached[k] \in SUBSET Nat
    BY <1>1
  <2> QED
    BY <2>1, <1>1, <1>2, <1>7, SpreadTotal
<1> QED
  BY <1>2, <1>4, <1>5, <1>6, <1>8, <1>9, <1>10

-----------------------------------------------------------------------------
(* Types, and that only issued cards are attached or edited.               *)

Grounded ==
  /\ \A k \in Checkouts : attached[k] \subseteq Issued
  /\ \A w \in Workers : proc[w] \in Edits =>
       /\ proc[w].c \in Issued
       /\ proc[w].kind = "loaded" => proc[w].initial > 0
       /\ proc[w].kind = "saved" => proc[w].reset > 0

TypeInv == TypeOK /\ Grounded

\* The initial state has the types.
LEMMA InitTyped ==
  ASSUME Init
  PROVE  TypeInv
<1>1. initial \in [Cards -> Nat] /\ Issued \subseteq Cards
  <2>1. FaceValues \cup {0} \subseteq Nat /\ initial \in [Cards -> FaceValues \cup {0}]
    BY FaceAssumption DEF Init
  <2>2. \A c \in Cards : initial[c] \in Nat
    BY <2>1
  <2> QED
    BY <2>1, <2>2 DEF Issued
<1>2. history \in [Cards -> Seq(Event)]
  <2>1. \A c \in Cards : <<[old |-> 0, new |-> initial[c]]>> \in Seq(Event)
    BY <1>1 DEF Event
  <2>2. <<>> \in Seq(Event)
    OBVIOUS
  <2> DEFINE first(c) == IF initial[c] > 0 THEN <<[old |-> 0, new |-> initial[c]]>> ELSE <<>>
  <2>3. \A c \in Cards : first(c) \in Seq(Event)
    BY <2>1, <2>2
  <2>4. history = [c \in Cards |-> first(c)]
    BY DEF Init
  <2> HIDE DEF first
  <2> QED
    BY <2>3, <2>4
<1>3. proc \in [Workers -> Job] /\ \A w \in Workers : proc[w] \notin Edits
  BY DEF Init, Job, Edits, Idle
<1>4. orders \in [Checkouts -> [total : Nat, used : Nat, rose : BOOLEAN, fell : BOOLEAN]]
  BY DEF Init, NoOrder
<1>5. attached \in [Checkouts -> SUBSET Cards] /\ \A k \in Checkouts : attached[k] = {}
  BY DEF Init
<1> QED
  BY <1>1, <1>2, <1>3, <1>4, <1>5 DEF Init, TypeInv, TypeOK, Grounded, Job

\* An action that keeps the initial balances and only tells the completions
\* keeps the edits.
LEMMA EditsKept ==
  ASSUME TypeInv, NEW gained, NEW lost,
         proc' = [w \in Workers |-> Noted(proc[w], gained, lost)],
         UNCHANGED initial, NEW K \in [Checkouts -> SUBSET Issued], attached' = K
  PROVE  Grounded' /\ proc' \in [Workers -> Job]
<1>1. proc \in [Workers -> Job]
  BY DEF TypeInv, TypeOK, Job
<1>2. Issued' = Issued
  BY DEF Issued
<1>3. ASSUME NEW w \in Workers
      PROVE  /\ proc'[w] \in Job
             /\ proc'[w] \in Edits => proc'[w] = proc[w]
  <2>1. proc[w] \in Job /\ proc'[w] = Noted(proc[w], gained, lost)
    BY <1>1
  <2>2. proc'[w] \in Edits => proc[w] \notin Completions
    BY <2>1, NotedJob, JobKinds DEF Completions, Edits
  <2> QED
    BY <2>1, <2>2, NotedJob
<1>4. \A w \in Workers : proc'[w] \in Edits =>
        /\ proc'[w].c \in Issued'
        /\ proc'[w].kind = "loaded" => proc'[w].initial > 0
        /\ proc'[w].kind = "saved" => proc'[w].reset > 0
  BY <1>2, <1>3 DEF TypeInv, Grounded
<1>5. \A k \in Checkouts : attached'[k] \subseteq Issued'
  BY <1>2
<1> QED
  BY <1>3, <1>4, <1>5 DEF Grounded

\* Issuing and buying a card keep the types.
LEMMA IssueTyped ==
  ASSUME TypeInv, NEW c \in Cards, NEW n \in FaceValues, Issue(c, n) \/ Buy(c, n),
         Call
  PROVE  TypeInv'
<1>1. n \in Nat /\ n > 0
  BY FaceAssumption
<1>2. initial' \in [Cards -> Nat] /\ balance' \in [Cards -> Nat] /\ Issued \subseteq Issued'
  <2>1. /\ initial' = [initial EXCEPT ![c] = n]
        /\ balance' = [balance EXCEPT ![c] = n]
    BY DEF Issue, Buy, Create
  <2>2. initial \in [Cards -> Nat] /\ balance \in [Cards -> Nat]
    BY DEF TypeInv, TypeOK
  <2>3. initial' \in [Cards -> Nat] /\ balance' \in [Cards -> Nat]
    BY <1>1, <2>1, <2>2
  <2>4. ASSUME NEW d \in Cards, initial[d] > 0
        PROVE  initial'[d] > 0
    BY <1>1, <2>1, <2>2, <2>4
  <2> QED
    BY <2>3, <2>4 DEF Issued
<1>3. history' \in [Cards -> Seq(Event)] /\ bought' \in [Cards -> Nat]
  <2>1. <<[old |-> 0, new |-> n]>> \in Seq(Event)
    BY <1>1 DEF Event
  <2> QED
    BY <1>1, <2>1 DEF Issue, Buy, TypeInv, TypeOK
<1>4. Grounded'
  BY <1>2 DEF Issue, Buy, Create, TypeInv, Grounded
<1>5. calls' \in Nat
  BY DEF Call, TypeInv, TypeOK
<1> QED
  BY <1>2, <1>3, <1>4, <1>5 DEF Issue, Buy, Create, TypeInv, TypeOK

\* Attaching, detaching and switching cards keep the types.
LEMMA CardsTyped ==
  ASSUME TypeInv, calls' \in Nat,
         \/ \E k \in Checkouts, c \in Cards : Attach(k, c) \/ Detach(k, c)
         \/ \E c \in Cards : Activate(c) \/ Deactivate(c) \/ Expire(c)
         \/ DeactivateExpired
  PROVE  TypeInv'
<1> USE DEF TypeInv
<1>1. ASSUME NEW k \in Checkouts, NEW c \in Cards, Attach(k, c)
      PROVE  TypeInv'
  <2>1. c \in Issued /\ attached' = [attached EXCEPT ![k] = @ \cup {c}]
    BY <1>1 DEF Attach
  <2>2. attached \in [Checkouts -> SUBSET Issued] /\ Issued \subseteq Cards
    BY DEF Grounded, TypeOK, Issued
  <2>3. attached' \in [Checkouts -> SUBSET Issued]
    BY <2>1, <2>2
  <2>4. attached' \in [Checkouts -> SUBSET Issued] /\ attached' \in [Checkouts -> SUBSET Cards]
    BY <2>2, <2>3
  <2>5. UNCHANGED initial /\ proc' = [w \in Workers |-> Noted(proc[w], {k}, {})]
    BY <1>1 DEF Attach
  <2>6. Grounded' /\ proc' \in [Workers -> Job]
    BY <2>4, <2>5, EditsKept
  <2> QED
    BY <1>1, <2>4, <2>6 DEF Attach, TypeOK, Job
<1>2. ASSUME NEW k \in Checkouts, NEW c \in Cards, Detach(k, c)
      PROVE  TypeInv'
  <2>1. attached' = [attached EXCEPT ![k] = @ \ {c}]
    BY <1>2 DEF Detach
  <2>2. attached \in [Checkouts -> SUBSET Issued] /\ Issued \subseteq Cards
    BY DEF Grounded, TypeOK, Issued
  <2>3. attached' \in [Checkouts -> SUBSET Issued]
    BY <2>1, <2>2
  <2>4. attached' \in [Checkouts -> SUBSET Issued] /\ attached' \in [Checkouts -> SUBSET Cards]
    BY <2>2, <2>3
  <2>5. UNCHANGED initial /\ proc' = [w \in Workers |-> Noted(proc[w], {}, {k})]
    BY <1>2 DEF Detach
  <2>6. Grounded' /\ proc' \in [Workers -> Job]
    BY <2>4, <2>5, EditsKept
  <2> QED
    BY <1>2, <2>4, <2>6 DEF Detach, TypeOK, Job
<1>3. attached \in [Checkouts -> SUBSET Issued]
  BY DEF Grounded, TypeOK
<1>4. ASSUME NEW c \in Cards, Activate(c)
      PROVE  TypeInv'
  <2>1. Grounded' /\ proc' \in [Workers -> Job]
    BY <1>3, <1>4, EditsKept DEF Activate
  <2> QED
    BY <1>4, <2>1 DEF Activate, TypeOK, Job
<1>5. ASSUME NEW cs \in SUBSET Cards, SwitchOff(cs)
      PROVE  TypeInv'
  <2>1. Grounded' /\ proc' \in [Workers -> Job]
    BY <1>3, <1>5, EditsKept DEF SwitchOff
  <2> QED
    BY <1>5, <2>1 DEF SwitchOff, TypeOK, Job
<1>6. ASSUME NEW c \in Cards, Expire(c)
      PROVE  TypeInv'
  <2>1. Grounded' /\ proc' \in [Workers -> Job]
    BY <1>3, <1>6, EditsKept DEF Expire
  <2> QED
    BY <1>6, <2>1 DEF Expire, TypeOK, Job
<1>7. Overdue \in SUBSET Cards
  BY DEF Overdue, TypeOK
<1> QED
  BY <1>1, <1>2, <1>4, <1>5, <1>6, <1>7 DEF Deactivate, DeactivateExpired

\* A worker that takes up a job of its own leaves the other jobs alone.
LEMMA BecomeTyped ==
  ASSUME TypeInv, NEW w \in Workers, NEW job \in Job, Become(w, job),
         UNCHANGED <<initial, attached>>,
         job \in Edits => /\ job.c \in Issued
                          /\ job.kind = "loaded" => job.initial > 0
                          /\ job.kind = "saved" => job.reset > 0
  PROVE  Grounded' /\ proc' \in [Workers -> Job]
<1>1. proc \in [Workers -> Job] /\ Issued' = Issued
  BY DEF TypeInv, TypeOK, Job, Issued
<1>2. \A v \in Workers : proc'[v] = IF v = w THEN job ELSE proc[v]
  BY <1>1 DEF Become
<1>3. proc' \in [Workers -> Job]
  BY <1>1 DEF Become
<1>4. \A v \in Workers : proc'[v] \in Edits =>
        /\ proc'[v].c \in Issued'
        /\ proc'[v].kind = "loaded" => proc'[v].initial > 0
        /\ proc'[v].kind = "saved" => proc'[v].reset > 0
  BY <1>1, <1>2 DEF TypeInv, Grounded
<1>5. \A k \in Checkouts : attached'[k] \subseteq Issued'
  BY <1>1 DEF TypeInv, Grounded
<1> QED
  BY <1>3, <1>4, <1>5 DEF Grounded

\* A new job has its type.
LEMMA NewJobs ==
  ASSUME TypeInv
  PROVE  /\ Idle \in Job /\ Idle \notin Edits /\ Idle \notin Completions
         /\ \A c \in Issued, n \in FaceValues \cup {0} :
              LET e == Edit(c, n)
              IN  e \in Edits /\ e \in Job /\ e.c = c /\ e.kind = "loaded" /\ e.initial > 0
         /\ \A k \in Checkouts, f \in Flows :
              LET p == Completion(k, f)
              IN  p \in Completions /\ p \in Job /\ p \notin Edits
<1>1. Idle \in Job /\ Idle \notin Edits /\ Idle \notin Completions
  BY DEF Job, Idle, Edits, Completions
<1>2. ASSUME NEW c \in Issued, NEW n \in FaceValues \cup {0}
      PROVE  LET e == Edit(c, n)
             IN  e \in Edits /\ e \in Job /\ e.c = c /\ e.kind = "loaded" /\ e.initial > 0
  <2>1. /\ c \in Cards /\ n \in Nat /\ initial[c] \in Nat /\ balance[c] \in Nat
        /\ initial[c] > 0
    BY <1>2, FaceAssumption DEF TypeInv, TypeOK, Issued
  <2>2. (c \in active) \in BOOLEAN
    OBVIOUS
  <2> DEFINE on == c \in active
  <2>3. on \in BOOLEAN
    BY <2>2
  <2>4. Edit(c, n) = [kind |-> "loaded", c |-> c, reset |-> n, initial |-> initial[c],
                      balance |-> balance[c], active |-> on]
    BY DEF Edit
  <2> HIDE DEF on
  <2> QED
    BY <2>1, <2>3, <2>4 DEF Edits, Job
<1>3. ASSUME NEW k \in Checkouts, NEW f \in Flows
      PROVE  LET p == Completion(k, f)
             IN  p \in Completions /\ p \in Job /\ p \notin Edits
  BY FlowAssumption DEF Completion, Completions, Edits, Job
<1> QED
  BY <1>1, <1>2, <1>3

\* Loading a card, starting a completion and ending a job keep the types.
LEMMA JobsTyped ==
  ASSUME TypeInv, calls' \in Nat, NEW w \in Workers,
         \/ \E c \in Cards, n \in FaceValues \cup {0} : Load(w, c, n)
         \/ \E k \in Checkouts, f \in Flows : Start(w, k, f)
         \/ LogReset(w) \/ AlreadyOrdered(w) \/ GiveUp(w)
  PROVE  TypeInv'
<1>1. ASSUME NEW c \in Cards, NEW n \in FaceValues \cup {0}, Load(w, c, n)
      PROVE  TypeInv'
  <2>1. Grounded' /\ proc' \in [Workers -> Job]
    BY <1>1, NewJobs, BecomeTyped DEF Load, Edits
  <2> QED
    BY <1>1, <2>1 DEF Load, TypeInv, TypeOK, Job
<1>2. ASSUME NEW k \in Checkouts, NEW f \in Flows, Start(w, k, f)
      PROVE  TypeInv'
  <2>1. Grounded' /\ proc' \in [Workers -> Job]
    BY <1>2, NewJobs, BecomeTyped DEF Start
  <2> QED
    BY <1>2, <2>1 DEF Start, TypeInv, TypeOK, Job
<1>3. CASE LogReset(w)
  <2>1. Grounded' /\ proc' \in [Workers -> Job]
    BY <1>3, NewJobs, BecomeTyped DEF LogReset
  <2>2. proc[w] \in Edits
    BY <1>3, JobKinds DEF LogReset, TypeInv, TypeOK, Job
  <2>3. history' \in [Cards -> Seq(Event)]
    <3> DEFINE e == [old |-> proc[w].balance, new |-> proc[w].reset]
    <3>1. e \in Event /\ proc[w].c \in Cards
      BY <2>2 DEF Edits, Event
    <3>2. history[proc[w].c] \in Seq(Event)
      BY <3>1 DEF TypeInv, TypeOK
    <3>3. Append(history[proc[w].c], e) \in Seq(Event)
      <4> HIDE DEF e
      <4> QED
        BY <3>1, <3>2
    <3>4. history' = [history EXCEPT ![proc[w].c] = Append(history[proc[w].c], e)]
      BY <1>3 DEF LogReset
    <3> HIDE DEF e
    <3> QED
      BY <3>1, <3>3, <3>4 DEF TypeInv, TypeOK
  <2> QED
    BY <1>3, <2>1, <2>3 DEF LogReset, TypeInv, TypeOK, Job
<1>4. CASE AlreadyOrdered(w)
  <2>1. Grounded' /\ proc' \in [Workers -> Job]
    BY <1>4, NewJobs, BecomeTyped DEF AlreadyOrdered
  <2> QED
    BY <1>4, <2>1 DEF AlreadyOrdered, TypeInv, TypeOK, Job
<1>5. CASE GiveUp(w)
  <2>1. Grounded' /\ proc' \in [Workers -> Job]
    BY <1>5, NewJobs, BecomeTyped DEF GiveUp
  <2>2. raced' \subseteq Cards
    <3>1. CASE proc[w].kind = "saved"
      <4>1. proc[w] \in Edits
        BY <3>1, JobKinds DEF TypeInv, TypeOK, Job
      <4> QED
        BY <1>5, <3>1, <4>1 DEF GiveUp, TypeInv, TypeOK, Edits
    <3> QED
      BY <1>5, <3>1 DEF GiveUp, TypeInv, TypeOK
  <2> QED
    BY <1>5, <2>1, <2>2 DEF GiveUp, TypeInv, TypeOK, Job
<1> QED
  BY <1>1, <1>2, <1>3, <1>4, <1>5

\* A worker that ends its job while the other completions learn of it.
LEMMA NotedTyped ==
  ASSUME TypeInv, NEW w \in Workers, NEW job \in Job, NEW gained, NEW lost,
         proc' = [v \in Workers |->
           IF v = w THEN job ELSE Noted(proc[v], gained, lost)],
         Issued \subseteq Issued', \A k \in Checkouts : attached'[k] \subseteq attached[k],
         job \in Edits => /\ job.c \in Issued
                          /\ job.kind = "loaded" => job.initial > 0
                          /\ job.kind = "saved" => job.reset > 0
  PROVE  /\ Grounded' /\ proc' \in [Workers -> Job]
         /\ \A v \in Workers \ {w} : proc'[v] \in Edits => proc'[v] = proc[v]
<1>1. proc \in [Workers -> Job]
  BY DEF TypeInv, TypeOK, Job
<1>2. ASSUME NEW v \in Workers \ {w}
      PROVE  /\ proc'[v] \in Job
             /\ proc'[v] \in Edits => proc'[v] = proc[v]
  <2>1. proc[v] \in Job /\ proc'[v] = Noted(proc[v], gained, lost)
    BY <1>1
  <2>2. proc'[v] \in Edits => proc[v] \notin Completions
    BY <2>1, NotedJob, JobKinds DEF Completions, Edits
  <2> QED
    BY <2>1, <2>2, NotedJob
<1>3. proc'[w] = job
  OBVIOUS
<1>4. \A v \in Workers : proc'[v] \in Edits =>
        /\ proc'[v].c \in Issued'
        /\ proc'[v].kind = "loaded" => proc'[v].initial > 0
        /\ proc'[v].kind = "saved" => proc'[v].reset > 0
  BY <1>2, <1>3 DEF TypeInv, Grounded
<1>5. \A k \in Checkouts : attached'[k] \subseteq Issued'
  BY DEF TypeInv, Grounded
<1>6. proc' \in [Workers -> Job]
  BY <1>2, <1>3
<1> QED
  BY <1>2, <1>4, <1>5, <1>6 DEF Grounded

\* The row an edit saves.
LEMMA RowType ==
  ASSUME TypeInv, NEW w \in Workers, proc[w].kind = "loaded"
  PROVE  /\ proc[w] \in Edits /\ proc[w].c \in Cards /\ proc[w].c \in Issued
         /\ Row(proc[w]).initial \in Nat /\ Row(proc[w]).initial > 0
         /\ Row(proc[w]).balance \in Nat /\ Row(proc[w]).active \in BOOLEAN
         /\ proc[w].reset > 0 => Row(proc[w]).balance = proc[w].reset
         /\ ~(proc[w].reset > 0) => Row(proc[w]).balance = proc[w].balance
         /\ proc[w].reset \in Nat
<1>1. proc[w] \in Edits
  BY JobKinds DEF TypeInv, TypeOK, Job
<1>2. proc[w].c \in Issued /\ proc[w].initial > 0
  BY <1>1 DEF TypeInv, Grounded
<1>3. /\ proc[w].c \in Cards /\ proc[w].reset \in Nat /\ proc[w].initial \in Nat
      /\ proc[w].balance \in Nat /\ proc[w].active \in BOOLEAN
  BY <1>1 DEF Edits
<1> QED
  BY <1>1, <1>2, <1>3 DEF Row

\* Saving an edit keeps the types.
LEMMA SaveTyped ==
  ASSUME TypeInv, calls' \in Nat, NEW w \in Workers, Save(w)
  PROVE  TypeInv'
<1> DEFINE job == proc[w]
           c == job.c
           row == Row(job)
           after == IF job.reset > 0 THEN [job EXCEPT !.kind = "saved"] ELSE Idle
<1>1. /\ job \in Edits /\ c \in Cards /\ c \in Issued /\ job.kind = "loaded"
      /\ row.initial \in Nat /\ row.initial > 0 /\ row.balance \in Nat
  BY RowType DEF Save
<1>2. initial' \in [Cards -> Nat] /\ balance' \in [Cards -> Nat]
  BY <1>1 DEF Save, TypeInv, TypeOK
<1>3. active' \subseteq Cards /\ raced' \subseteq Cards
  BY <1>1 DEF Save, TypeInv, TypeOK
<1>4. Issued \subseteq Issued'
  BY <1>1 DEF Save, TypeInv, TypeOK, Issued
<1>5. /\ after \in Job
      /\ after \in Edits => /\ after.c \in Issued
                            /\ after.kind = "loaded" => after.initial > 0
                            /\ after.kind = "saved" => after.reset > 0
  <2>1. CASE job.reset > 0
    <3>1. after = [job EXCEPT !.kind = "saved"]
      BY <2>1
    <3>2. after \in Edits /\ after.c = c /\ after.kind = "saved" /\ after.reset = job.reset
      BY <1>1, <3>1 DEF Edits
    <3> QED
      BY <3>2, <2>1, <1>1 DEF Job
  <2>2. CASE ~(job.reset > 0)
    BY <2>2, NewJobs
  <2> QED
    BY <2>1, <2>2
<1>6. Grounded' /\ proc' \in [Workers -> Job]
  <2> DEFINE more == row.balance > balance[c] \/ row.active # (c \in active)
             less == row.balance < balance[c]
             gained == IF more THEN Holders({c}) ELSE {}
             lost == IF less THEN Holders({c}) ELSE {}
  <2>1. proc' = [v \in Workers |-> IF v = w THEN after ELSE Noted(proc[v], gained, lost)]
    BY DEF Save
  <2>2. attached' = attached
    BY DEF Save
  <2> HIDE DEF after, gained, lost
  <2> QED
    BY <1>4, <1>5, <2>1, <2>2, NotedTyped
<1> QED
  BY <1>2, <1>3, <1>6 DEF Save, TypeInv, TypeOK, Job

\* Reading the total and checking the cards keep the types.
LEMMA StepsTyped ==
  ASSUME TypeInv, calls' \in Nat, NEW w \in Workers, ReadTotal(w) \/ Validate(w)
  PROVE  TypeInv'
<1>1. proc[w] \in Completions /\ proc[w].kind = "completing"
  BY JobKinds DEF ReadTotal, Validate, TypeInv, TypeOK, Job
<1>2. proc[w].k \in Checkouts
  BY <1>1 DEF Completions
<1>3. TotalAfterCards(proc[w].k) \in Nat
  BY <1>2, SumsNat, PriceAssumption
     DEF TotalAfterCards, Positive, Countable, TypeInv
<1>4. CASE ReadTotal(w)
  <2> DEFINE n == TotalAfterCards(proc[w].k)
             after == [proc[w] EXCEPT !.total = n, !.priced = TRUE]
  <2>1. after \in Completions
    <3> HIDE DEF n
    <3> QED
      BY <1>1, <1>3 DEF Completions, n
  <2>2. after \in Job /\ after \notin Edits
    BY <2>1 DEF Job, Completions, Edits
  <2>3. Become(w, after) /\ UNCHANGED <<initial, attached>>
    BY <1>4 DEF ReadTotal
  <2> HIDE DEF after
  <2>4. Grounded' /\ proc' \in [Workers -> Job]
    BY <2>2, <2>3, BecomeTyped
  <2> QED
    BY <1>4, <2>4 DEF ReadTotal, TypeInv, TypeOK, Job
<1>5. CASE Validate(w)
  <2> DEFINE after == [proc[w] EXCEPT !.checked = TRUE]
  <2>1. after \in Completions
    BY <1>1 DEF Completions
  <2>2. after \in Job /\ after \notin Edits
    BY <2>1 DEF Job, Completions, Edits
  <2>3. Become(w, after) /\ UNCHANGED <<initial, attached>>
    BY <1>5 DEF Validate
  <2> HIDE DEF after
  <2>4. Grounded' /\ proc' \in [Workers -> Job]
    BY <2>2, <2>3, BecomeTyped
  <2> QED
    BY <1>5, <2>4 DEF Validate, TypeInv, TypeOK, Job
<1> QED
  BY <1>4, <1>5

\* What spending writes to the history of a card.
LEMMA SpendingType ==
  ASSUME TypeOK, NEW k \in Checkouts
  PROVE  SpendingEvents(k) \in [Cards -> Seq(Event)]
<1>1. Reached(k) \subseteq attached[k] /\ attached[k] \subseteq Cards
  BY DEF Reached, TypeOK
<1>2. ASSUME NEW c \in Cards
      PROVE  SpendingEvents(k)[c] \in Seq(Event)
  <2>1. history[c] \in Seq(Event)
    BY DEF TypeOK
  <2>2. CASE c \in Reached(k)
    <3> DEFINE e == [old |-> balance[c], new |-> balance[c] - Spent(k)[c]]
    <3>1. balance[c] \in Nat /\ Spent(k)[c] \in Nat /\ Spent(k)[c] <= balance[c]
      BY <1>1, <2>2, SpentSum DEF TypeOK
    <3>2. e \in Event
      <4>1. balance[c] - Spent(k)[c] \in Nat
        BY <3>1
      <4> QED
        BY <3>1, <4>1 DEF Event
    <3>3. SpendingEvents(k)[c] = Append(history[c], e)
      BY <2>2 DEF SpendingEvents
    <3> HIDE DEF e
    <3> QED
      BY <2>1, <3>2, <3>3
  <2>3. CASE c \notin Reached(k)
    BY <2>1, <2>3 DEF SpendingEvents
  <2> QED
    BY <2>2, <2>3
<1>3. SpendingEvents(k) = [c \in Cards |-> SpendingEvents(k)[c]]
  BY DEF SpendingEvents
<1> QED
  BY <1>2, <1>3

\* Placing an order keeps the types, and the order takes from its cards what
\* it asks, or all they hold.
LEMMA PlaceTyped ==
  ASSUME TypeInv, calls' \in Nat, NEW w \in Workers, Place(w)
  PROVE  /\ TypeInv'
         /\ proc[w] \in Completions /\ proc[w].k \in open
         /\ orders' = [orders EXCEPT ![proc[w].k] =
              [total |-> proc[w].total, used |-> Lesser(Asked(proc[w].k), Now(proc[w].k)),
               rose |-> proc[w].rose, fell |-> proc[w].fell]]
<1> DEFINE k == proc[w].k
<1>1. proc[w] \in Completions
  BY JobKinds DEF Place, TypeInv, TypeOK, Job
<1>2. k \in Checkouts /\ k \in open
  BY <1>1 DEF Completions, Place
<1>3. /\ Spent(k) \in [attached[k] -> Nat]
      /\ \A c \in attached[k] : Spent(k)[c] <= balance[c]
      /\ Total(Spent(k)) = Lesser(Asked(k), Now(k))
      /\ Asked(k) \in Nat /\ Now(k) \in Nat
  BY <1>2, SpentSum, SumsNat DEF TypeInv
<1>4. balance' \in [Cards -> Nat]
  <2>1. \A c \in Cards :
          (IF c \in attached[k] THEN balance[c] - Spent(k)[c] ELSE balance[c]) \in Nat
    BY <1>3 DEF TypeInv, TypeOK
  <2> QED
    BY <2>1 DEF Place
<1>5. history' \in [Cards -> Seq(Event)]
  BY <1>2, SpendingType DEF Place, TypeInv
<1> DEFINE order == [total |-> proc[w].total, used |-> Lesser(Asked(k), Now(k)),
                     rose |-> proc[w].rose, fell |-> proc[w].fell]
<1>6. orders' = [orders EXCEPT ![k] = order]
  BY <1>3 DEF Place
<1>7. orders' \in [Checkouts -> [total : Nat, used : Nat, rose : BOOLEAN, fell : BOOLEAN]]
  <2>1. order \in [total : Nat, used : Nat, rose : BOOLEAN, fell : BOOLEAN]
    BY <1>1, <1>3 DEF Completions, Lesser
  <2> HIDE DEF order
  <2> QED
    BY <1>6, <2>1 DEF TypeInv, TypeOK
<1>8. attached' \in [Checkouts -> SUBSET Cards] /\ \A j \in Checkouts : attached'[j] \subseteq attached[j]
  BY DEF Place, TypeInv, TypeOK
<1>9. raced' \subseteq Cards
  BY <1>2 DEF Place, Reached, TypeInv, TypeOK
<1>10. Grounded' /\ proc' \in [Workers -> Job]
  <2> DEFINE lost == Holders({c \in Reached(k) : Spent(k)[c] > 0}) \ {k}
  <2>1. proc' = [v \in Workers |-> IF v = w THEN Idle ELSE Noted(proc[v], {}, lost)]
    BY DEF Place
  <2>2. Issued' = Issued
    BY DEF Place, Issued
  <2>3. Idle \in Job /\ Idle \notin Edits
    BY NewJobs
  <2> HIDE DEF lost
  <2> QED
    BY <1>8, <2>1, <2>2, <2>3, NotedTyped
<1>11. /\ initial' = initial /\ active' = active /\ expired' = expired
       /\ bought' = bought /\ open' \subseteq open
  BY DEF Place
<1>12. TypeInv'
  BY <1>4, <1>5, <1>7, <1>8, <1>9, <1>10, <1>11 DEF TypeInv, TypeOK, Job
<1> QED
  BY <1>1, <1>2, <1>6, <1>12

\* Every step keeps the types.
LEMMA StepTyped ==
  ASSUME TypeInv, [Next]_vars
  PROVE  TypeInv'
<1>1. CASE UNCHANGED vars
  BY <1>1 DEF vars, TypeInv, TypeOK, Grounded, Issued
<1>2. CASE Request
  <2>1. calls' \in Nat /\ Call
    BY <1>2 DEF Request, Call, TypeInv, TypeOK
  <2> QED
    BY <1>2, <2>1, IssueTyped, CardsTyped, JobsTyped DEF Request
<1>3. ASSUME NEW w \in Workers, Work(w)
      PROVE  TypeInv'
  <2>1. calls' \in Nat
    BY <1>3 DEF Work, TypeInv, TypeOK
  <2> QED
    BY <1>3, <2>1, SaveTyped, JobsTyped, StepsTyped, PlaceTyped DEF Work
<1>4. CASE Nightly
  <2>1. calls' \in Nat
    BY <1>4 DEF Nightly, TypeInv, TypeOK
  <2> QED
    BY <1>4, <2>1, CardsTyped DEF Nightly
<1> QED
  BY <1>1, <1>2, <1>3, <1>4 DEF Next

\* The types always hold.
THEOREM CardsTypedAlways == Spec => []TypeInv
<1>1. Init => TypeInv
  BY InitTyped
<1>2. TypeInv /\ [Next]_vars => TypeInv'
  BY StepTyped
<1> QED
  BY <1>1, <1>2, PTL DEF Spec

\* No balance falls below zero, whatever number of checkouts spends a card.
THEOREM GiftCardsTypeOKAlways == Spec => []TypeOK
<1>1. TypeInv => TypeOK
  BY DEF TypeInv
<1> QED
  BY <1>1, CardsTypedAlways, PTL

-----------------------------------------------------------------------------
(* Orders are paid for once.                                               *)

\* What a completion of an open checkout knows of its cards, until it learns
\* of a change: they are valid, and with the total it read they do not exceed
\* the price, and reach it.
WeighedAt(w) ==
  LET p == proc[w]
      k == p.k
  IN  p \in Completions /\ k \in open =>
        /\ p.checked /\ ~p.rose => attached[k] \subseteq Valid
        /\ p.priced /\ ~p.rose => p.total = 0 \/ p.total + Countable(k) <= Price[k]
        /\ p.priced /\ ~p.fell => Price[k] <= p.total + Now(k)

Paid ==
  /\ \A w \in Workers : WeighedAt(w)
  /\ PaidForOnce

\* A step after which the cards of k can pay no more, or no less.
NoGain(k) ==
  /\ attached'[k] \subseteq attached[k]
  /\ \A c \in attached'[k] : c \in Valid' => c \in Valid /\ balance'[c] <= balance[c]
  /\ attached[k] \subseteq Valid => attached'[k] \subseteq Valid'
NoLoss(k) ==
  /\ attached[k] \subseteq attached'[k]
  /\ \A c \in attached[k] : balance[c] <= balance'[c]

\* The sums over the cards of a checkout follow.
LEMMA SumsKept ==
  ASSUME TypeOK, TypeOK', NEW k \in Checkouts
  PROVE  /\ NoGain(k) => Countable(k)' <= Countable(k)
         /\ NoLoss(k) => Now(k) <= Now(k)'
         /\ Countable(k) \in Nat /\ Countable(k)' \in Nat
         /\ Now(k) \in Nat /\ Now(k)' \in Nat
<1> DEFINE D == attached[k] \cap Valid
           E == attached'[k] \cap Valid'
           f == [c \in D |-> balance[c]]
           g == [c \in E |-> balance'[c]]
           F == [c \in attached[k] |-> balance[c]]
           G == [c \in attached'[k] |-> balance'[c]]
<1>1. /\ IsFiniteSet(attached[k]) /\ IsFiniteSet(attached'[k])
      /\ attached[k] \subseteq Cards /\ attached'[k] \subseteq Cards
  BY CardsAssumption, FS_Subset DEF TypeOK
<1>2. IsFiniteSet(D) /\ IsFiniteSet(E)
  BY <1>1, FS_Subset
<1>3. \A c \in Cards : balance[c] \in Nat /\ balance'[c] \in Nat
  BY DEF TypeOK
<1>4. /\ f \in [D -> Nat] /\ g \in [E -> Nat]
      /\ F \in [attached[k] -> Nat] /\ G \in [attached'[k] -> Nat]
  BY <1>1, <1>3
<1>5. /\ Countable(k) = Total(f) /\ Countable(k)' = Total(g)
      /\ Now(k) = Total(F) /\ Now(k)' = Total(G)
  BY DEF Countable, Now, Total, Units
<1>6. Total(f) \in Nat /\ Total(g) \in Nat /\ Total(F) \in Nat /\ Total(G) \in Nat
  BY <1>1, <1>2, <1>4, TotalNat
<1>7. ASSUME NoGain(k)
      PROVE  Total(g) <= Total(f)
  <2>1. E \in SUBSET D /\ \A c \in E : g[c] <= f[c]
    BY <1>7 DEF NoGain
  <2> HIDE DEF D, E, f, g
  <2> QED
    BY <1>2, <1>4, <2>1, TotalMonotone
<1>8. ASSUME NoLoss(k)
      PROVE  Total(F) <= Total(G)
  <2>1. attached[k] \in SUBSET attached'[k] /\ \A c \in attached[k] : F[c] <= G[c]
    BY <1>8 DEF NoLoss
  <2> HIDE DEF F, G
  <2> QED
    BY <1>1, <1>4, <2>1, TotalMonotone
<1> QED
  BY <1>5, <1>6, <1>7, <1>8

\* A completion that is told of what changes keeps what it knows.
LEMMA WeighedKept ==
  ASSUME TypeInv, TypeInv', NEW v \in Workers, WeighedAt(v), NEW gained, NEW lost,
         open' \subseteq open,
         \/ proc'[v] = proc[v] /\
            (proc[v] \in Completions /\ proc[v].k \in open' => NoGain(proc[v].k) /\ NoLoss(proc[v].k))
         \/ proc'[v] = Noted(proc[v], gained, lost) /\
            (proc[v] \in Completions /\ proc[v].k \in open' =>
               /\ proc[v].k \notin gained => NoGain(proc[v].k)
               /\ proc[v].k \notin lost => NoLoss(proc[v].k))
  PROVE  WeighedAt(v)'
<1> DEFINE p == proc[v]
           q == proc'[v]
<1>1. p \in Job
  BY DEF TypeInv, TypeOK, Job
<1>2. SUFFICES ASSUME NEW k \in Checkouts, q.k = k, q \in Completions, k \in open'
               PROVE  /\ q.checked /\ ~q.rose => attached'[k] \subseteq Valid'
                      /\ q.priced /\ ~q.rose =>
                           q.total = 0 \/ q.total + Countable(k)' <= Price[k]
                      /\ q.priced /\ ~q.fell => Price[k] <= q.total + Now(k)'
  <2>1. q \in Completions => q.k \in Checkouts
    BY DEF Completions
  <2>2. Completions' = Completions
    BY DEF Completions
  <2> QED
    BY <2>1, <2>2 DEF WeighedAt, Countable, Now
<1>3. p \in Completions
  <2>1. q.kind = "completing"
    BY <1>2 DEF Completions
  <2> QED
    BY <2>1, <1>1, NotedJob, JobKinds
<1>4. /\ p.k = k /\ q.total = p.total /\ q.priced = p.priced /\ q.checked = p.checked
      /\ p.rose => q.rose
      /\ p.fell => q.fell
  BY <1>1, <1>2, <1>3, NotedJob
<1>5. k \in open /\ p.total \in Nat /\ Price[k] \in Nat
  BY <1>2, <1>3, <1>4, PriceAssumption DEF Completions
<1>6. p.priced \/ p.checked => (~q.rose => NoGain(k)) /\ (~q.fell => NoLoss(k))
  <2>1. CASE q = p /\ NoGain(k) /\ NoLoss(k)
    BY <2>1
  <2>2. CASE /\ q = Noted(p, gained, lost)
             /\ k \notin gained => NoGain(k)
             /\ k \notin lost => NoLoss(k)
    BY <2>2, <1>1, <1>3, <1>4, NotedJob
  <2> QED
    <3>1. \/ q = p /\ NoGain(p.k) /\ NoLoss(p.k)
          \/ q = Noted(p, gained, lost) /\ (p.k \notin gained => NoGain(p.k))
                                        /\ (p.k \notin lost => NoLoss(p.k))
      BY <1>2, <1>3, <1>4
    <3>2. /\ NoGain(p.k) <=> NoGain(k)
          /\ NoLoss(p.k) <=> NoLoss(k)
      BY <1>4 DEF NoGain, NoLoss
    <3> QED
      BY <2>1, <2>2, <3>1, <3>2, <1>4
<1>7. /\ p.checked /\ ~p.rose => attached[k] \subseteq Valid
      /\ p.priced /\ ~p.rose => p.total = 0 \/ p.total + Countable(k) <= Price[k]
      /\ p.priced /\ ~p.fell => Price[k] <= p.total + Now(k)
  BY <1>3, <1>4, <1>5 DEF WeighedAt
<1>8. /\ NoGain(k) => Countable(k)' <= Countable(k)
      /\ NoLoss(k) => Now(k) <= Now(k)'
      /\ Countable(k) \in Nat /\ Countable(k)' \in Nat /\ Now(k) \in Nat /\ Now(k)' \in Nat
  BY SumsKept DEF TypeInv
<1>9. q.checked /\ ~q.rose => attached'[k] \subseteq Valid'
  BY <1>4, <1>6, <1>7 DEF NoGain
<1>10. q.priced /\ ~q.rose => q.total = 0 \/ q.total + Countable(k)' <= Price[k]
  BY <1>4, <1>5, <1>6, <1>7, <1>8
<1>11. q.priced /\ ~q.fell => Price[k] <= q.total + Now(k)'
  BY <1>4, <1>5, <1>6, <1>7, <1>8
<1> QED
  BY <1>9, <1>10, <1>11

\* Nothing about the cards of a checkout changes.
LEMMA StillCards ==
  ASSUME TypeOK, NEW k \in Checkouts, UNCHANGED <<balance, active, expired, attached>>
  PROVE  NoGain(k) /\ NoLoss(k)
<1>1. Valid' = Valid
  BY DEF Valid
<1>2. \A c \in attached[k] : balance[c] \in Nat
  BY DEF TypeOK
<1> QED
  BY <1>1, <1>2 DEF NoGain, NoLoss

\* Issuing, attaching, detaching and switching cards.
LEMMA CardsWeighed ==
  ASSUME TypeInv, TypeInv', NEW v \in Workers, WeighedAt(v),
         \/ \E c \in Cards, n \in FaceValues : Issue(c, n) \/ Buy(c, n)
         \/ \E k \in Checkouts, c \in Cards : Attach(k, c) \/ Detach(k, c)
         \/ \E c \in Cards : Activate(c) \/ Expire(c)
         \/ \E cs \in SUBSET Cards : SwitchOff(cs)
  PROVE  WeighedAt(v)'
<1>1. /\ TypeOK
      /\ \A k \in Checkouts : attached[k] \subseteq Issued /\ attached[k] \subseteq Cards
      /\ \A c \in Cards : balance[c] \in Nat
      /\ proc[v] \in Completions => proc[v].k \in Checkouts
  BY DEF TypeInv, TypeOK, Grounded, Completions
<1>2. ASSUME NEW c \in Cards, NEW n \in FaceValues, Issue(c, n) \/ Buy(c, n)
      PROVE  WeighedAt(v)'
  <2>1. \A k \in Checkouts : c \notin attached[k]
    BY <1>1, <1>2 DEF Issue, Buy, Create, Issued
  <2>2. Valid \subseteq Valid' /\ Valid' \subseteq Valid \cup {c}
    BY <1>2 DEF Issue, Buy, Create, Valid
  <2>3. \A k \in Checkouts : \A d \in attached[k] : balance'[d] = balance[d]
    BY <1>1, <1>2, <2>1 DEF Issue, Buy, Create, TypeOK
  <2>4. \A k \in Checkouts : NoGain(k) /\ NoLoss(k)
    BY <1>1, <1>2, <2>1, <2>2, <2>3 DEF Issue, Buy, Create, NoGain, NoLoss
  <2> QED
    BY <1>1, <1>2, <2>4, WeighedKept DEF Issue, Buy, Create
<1>3. ASSUME NEW j \in Checkouts, NEW c \in Cards, Attach(j, c)
      PROVE  WeighedAt(v)'
  <2>1. Valid' = Valid
    BY <1>3 DEF Attach, Valid
  <2>2. \A k \in Checkouts : NoLoss(k) /\ (k \notin {j} => NoGain(k))
    BY <1>1, <1>3, <2>1 DEF Attach, NoGain, NoLoss, TypeOK
  <2>3. proc'[v] = Noted(proc[v], {j}, {})
    BY <1>3 DEF Attach
  <2> QED
    BY <1>1, <1>3, <2>2, <2>3, WeighedKept DEF Attach
<1>4. ASSUME NEW j \in Checkouts, NEW c \in Cards, Detach(j, c)
      PROVE  WeighedAt(v)'
  <2>1. Valid' = Valid
    BY <1>4 DEF Detach, Valid
  <2>2. \A k \in Checkouts : NoGain(k) /\ (k \notin {j} => NoLoss(k))
    BY <1>1, <1>4, <2>1 DEF Detach, NoGain, NoLoss, TypeOK
  <2>3. proc'[v] = Noted(proc[v], {}, {j})
    BY <1>4 DEF Detach
  <2> QED
    BY <1>1, <1>4, <2>2, <2>3, WeighedKept DEF Detach
<1>5. ASSUME NEW cs \in SUBSET Cards, UNCHANGED <<balance, attached, open>>,
             Valid \ cs = Valid' \ cs,
             proc' = [w \in Workers |-> Noted(proc[w], Holders(cs), {})]
      PROVE  WeighedAt(v)'
  <2>1. \A k \in Checkouts : NoLoss(k) /\ (k \notin Holders(cs) => NoGain(k))
    BY <1>1, <1>5 DEF NoGain, NoLoss, Holders
  <2>2. proc'[v] = Noted(proc[v], Holders(cs), {})
    BY <1>5
  <2> QED
    BY <1>1, <1>5, <2>1, <2>2, WeighedKept
<1>6. ASSUME NEW c \in Cards, Activate(c)
      PROVE  WeighedAt(v)'
  <2>1. Valid \ {c} = Valid' \ {c}
    BY <1>6 DEF Activate, Valid
  <2> QED
    BY <1>5, <1>6, <2>1 DEF Activate
<1>7. ASSUME NEW c \in Cards, Expire(c)
      PROVE  WeighedAt(v)'
  <2>1. Valid \ {c} = Valid' \ {c}
    BY <1>7 DEF Expire, Valid
  <2> QED
    BY <1>5, <1>7, <2>1 DEF Expire
<1>8. ASSUME NEW cs \in SUBSET Cards, SwitchOff(cs)
      PROVE  WeighedAt(v)'
  <2>1. Valid \ cs = Valid' \ cs
    BY <1>8 DEF SwitchOff, Valid
  <2> QED
    BY <1>5, <1>8, <2>1 DEF SwitchOff
<1> QED
  BY <1>2, <1>3, <1>4, <1>6, <1>7, <1>8

\* A step of one worker that changes only what it has in hand.
LEMMA OwnWeighed ==
  ASSUME TypeInv, TypeInv', NEW w \in Workers, \A v \in Workers : WeighedAt(v),
         NEW job \in Job, Become(w, job), job \in Completions => WeighedAt(w)',
         UNCHANGED <<balance, active, expired, attached, open>>
  PROVE  \A v \in Workers : WeighedAt(v)'
<1>1. TypeOK /\ proc \in [Workers -> Job]
  BY DEF TypeInv, TypeOK, Job
<1>2. ASSUME NEW v \in Workers
      PROVE  WeighedAt(v)'
  <2>1. CASE v # w
    <3>1. proc'[v] = proc[v]
      BY <1>1, <2>1 DEF Become
    <3>2. proc[v] \in Completions => NoGain(proc[v].k) /\ NoLoss(proc[v].k)
      BY <1>1, StillCards DEF Completions
    <3> QED
      BY <3>1, <3>2, WeighedKept
  <2>2. CASE v = w
    <3>1. proc'[w] = job
      BY <1>1 DEF Become
    <3>2. CASE job \in Completions
      BY <2>2, <3>2
    <3>3. CASE job \notin Completions
      BY <2>2, <3>1, <3>3 DEF WeighedAt, Completions
    <3> QED
      BY <3>2, <3>3
  <2> QED
    BY <2>1, <2>2
<1> QED
  BY <1>2

\* Starting and ending a job, reading the total and checking the cards.
LEMMA JobsWeighed ==
  ASSUME TypeInv, TypeInv', NEW w \in Workers, \A v \in Workers : WeighedAt(v),
         \/ \E c \in Cards, n \in FaceValues \cup {0} : Load(w, c, n)
         \/ \E k \in Checkouts, f \in Flows : Start(w, k, f)
         \/ LogReset(w) \/ AlreadyOrdered(w) \/ GiveUp(w)
         \/ ReadTotal(w) \/ Validate(w)
  PROVE  \A v \in Workers : WeighedAt(v)'
<1>1. TypeOK /\ proc \in [Workers -> Job]
  BY DEF TypeInv, TypeOK, Job
<1>2. ASSUME NEW c \in Cards, NEW n \in FaceValues \cup {0}, Load(w, c, n)
      PROVE  \A v \in Workers : WeighedAt(v)'
  <2>1. Edit(c, n) \in Job /\ Edit(c, n) \notin Completions
    BY <1>2, NewJobs DEF Load, Edits, Completions
  <2> QED
    BY <1>2, <2>1, OwnWeighed DEF Load
<1>3. ASSUME NEW k \in Checkouts, NEW f \in Flows, Start(w, k, f)
      PROVE  \A v \in Workers : WeighedAt(v)'
  <2>1. Completion(k, f) \in Job
    BY NewJobs
  <2>2. proc'[w] = Completion(k, f)
    BY <1>1, <1>3 DEF Start, Become
  <2>3. WeighedAt(w)'
    BY <2>2 DEF WeighedAt, Completion
  <2> QED
    BY <1>3, <2>1, <2>3, OwnWeighed DEF Start
<1>4. CASE LogReset(w) \/ AlreadyOrdered(w) \/ GiveUp(w)
  <2>1. Idle \in Job /\ Idle \notin Completions
    BY NewJobs
  <2> QED
    BY <1>4, <2>1, OwnWeighed DEF LogReset, AlreadyOrdered, GiveUp
<1>5. ASSUME NEW k \in Checkouts, k = proc[w].k, proc[w] \in Completions, ReadTotal(w)
      PROVE  \A v \in Workers : WeighedAt(v)'
  <2> DEFINE n == TotalAfterCards(k)
             job == [proc[w] EXCEPT !.total = n, !.priced = TRUE]
  <2>1. UNCHANGED <<balance, active, expired, attached, open>> /\ k \in open /\ Become(w, job)
    BY <1>5 DEF ReadTotal
  <2>2. Countable(k) \in Nat /\ Now(k) \in Nat /\ Countable(k) <= Now(k) /\ Price[k] \in Nat
    BY <1>1, SumsNat, PriceAssumption
  <2>3. /\ n = Positive(Price[k] - Countable(k))
        /\ n \in Nat
        /\ n = 0 \/ n + Countable(k) <= Price[k]
        /\ Price[k] <= n + Now(k)
    <3>1. n = Positive(Price[k] - Countable(k))
      BY DEF TotalAfterCards, Countable
    <3> HIDE DEF n
    <3> QED
      BY <2>2, <3>1 DEF Positive
  <2> HIDE DEF n
  <2>4. /\ job \in Completions /\ job.k = k /\ job.total = n
        /\ job.checked = proc[w].checked /\ job.rose = proc[w].rose
    BY <1>5, <2>3 DEF Completions
  <2>5. /\ proc'[w] = job /\ job \in Job
    BY <1>1, <2>1, <2>4 DEF Become, Job
  <2>6. /\ Countable(k)' = Countable(k) /\ Now(k)' = Now(k)
        /\ attached'[k] = attached[k] /\ Valid' = Valid
    BY <2>1 DEF Countable, Now, Valid
  <2>7. proc[w].checked /\ ~proc[w].rose => attached[k] \subseteq Valid
    BY <1>5, <2>1 DEF WeighedAt
  <2> HIDE DEF job
  <2>8. WeighedAt(w)'
    <3>1. /\ job.checked /\ ~job.rose => attached'[k] \subseteq Valid'
          /\ job.priced /\ ~job.rose => job.total = 0 \/ job.total + Countable(k)' <= Price[k]
          /\ job.priced /\ ~job.fell => Price[k] <= job.total + Now(k)'
      BY <2>3, <2>4, <2>6, <2>7
    <3>2. /\ proc'[w].checked /\ ~proc'[w].rose => attached'[proc'[w].k] \subseteq Valid'
          /\ proc'[w].priced /\ ~proc'[w].rose =>
               \/ proc'[w].total = 0
               \/ proc'[w].total
                  + Total([c \in attached'[proc'[w].k] \cap Valid' |-> balance'[c]])
                  <= Price[proc'[w].k]
          /\ proc'[w].priced /\ ~proc'[w].fell =>
               Price[proc'[w].k] <=
                 proc'[w].total + Total([c \in attached'[proc'[w].k] |-> balance'[c]])
      BY <2>4, <2>5, <3>1 DEF Countable, Now
    <3> QED
      BY <3>2 DEF WeighedAt, Countable, Now
  <2> QED
    BY <2>1, <2>5, <2>8, OwnWeighed
<1>6. ASSUME NEW k \in Checkouts, k = proc[w].k, proc[w] \in Completions, Validate(w)
      PROVE  \A v \in Workers : WeighedAt(v)'
  <2> DEFINE job == [proc[w] EXCEPT !.checked = TRUE]
  <2>1. /\ UNCHANGED <<balance, active, expired, attached, open>> /\ Become(w, job)
        /\ attached[k] \subseteq Valid
    BY <1>6 DEF Validate
  <2>2. /\ job \in Completions /\ job.k = k /\ job.total = proc[w].total
        /\ job.priced = proc[w].priced /\ job.rose = proc[w].rose /\ job.fell = proc[w].fell
    BY <1>6 DEF Completions
  <2>3. proc'[w] = job /\ job \in Job
    BY <1>1, <2>1, <2>2 DEF Become, Job
  <2>4. /\ Countable(k)' = Countable(k) /\ Now(k)' = Now(k)
        /\ attached'[k] = attached[k] /\ Valid' = Valid /\ open' = open
    BY <2>1 DEF Countable, Now, Valid
  <2>5. k \in open =>
          /\ proc[w].priced /\ ~proc[w].rose =>
               proc[w].total = 0 \/ proc[w].total + Countable(k) <= Price[k]
          /\ proc[w].priced /\ ~proc[w].fell => Price[k] <= proc[w].total + Now(k)
    BY <1>6 DEF WeighedAt
  <2> HIDE DEF job
  <2>6. WeighedAt(w)'
    <3>1. k \in open' =>
          /\ job.checked /\ ~job.rose => attached'[k] \subseteq Valid'
          /\ job.priced /\ ~job.rose => job.total = 0 \/ job.total + Countable(k)' <= Price[k]
          /\ job.priced /\ ~job.fell => Price[k] <= job.total + Now(k)'
      BY <2>1, <2>2, <2>4, <2>5
    <3>2. proc'[w].k \in open' =>
          /\ proc'[w].checked /\ ~proc'[w].rose => attached'[proc'[w].k] \subseteq Valid'
          /\ proc'[w].priced /\ ~proc'[w].rose =>
               \/ proc'[w].total = 0
               \/ proc'[w].total
                  + Total([c \in attached'[proc'[w].k] \cap Valid' |-> balance'[c]])
                  <= Price[proc'[w].k]
          /\ proc'[w].priced /\ ~proc'[w].fell =>
               Price[proc'[w].k] <=
                 proc'[w].total + Total([c \in attached'[proc'[w].k] |-> balance'[c]])
      BY <2>2, <2>3, <3>1 DEF Countable, Now
    <3> QED
      BY <3>2 DEF WeighedAt, Countable, Now
  <2> QED
    BY <2>1, <2>3, <2>6, OwnWeighed
<1>7. ReadTotal(w) \/ Validate(w) => proc[w] \in Completions /\ proc[w].k \in Checkouts
  <2>1. ReadTotal(w) \/ Validate(w) => proc[w] \in Completions
    BY <1>1, JobKinds DEF ReadTotal, Validate
  <2> QED
    BY <2>1 DEF Completions
<1> QED
  BY <1>2, <1>3, <1>4, <1>5, <1>6, <1>7

\* Saving an edit.
LEMMA SaveWeighed ==
  ASSUME TypeInv, TypeInv', NEW w \in Workers, \A v \in Workers : WeighedAt(v), Save(w)
  PROVE  \A v \in Workers : WeighedAt(v)'
<1> DEFINE job == proc[w]
           c == job.c
           row == Row(job)
           more == row.balance > balance[c] \/ row.active # (c \in active)
           less == row.balance < balance[c]
           gained == IF more THEN Holders({c}) ELSE {}
           lost == IF less THEN Holders({c}) ELSE {}
           after == IF job.reset > 0 THEN [job EXCEPT !.kind = "saved"] ELSE Idle
<1>1. /\ job \in Edits /\ c \in Cards /\ row.balance \in Nat /\ row.active \in BOOLEAN
      /\ job.kind = "loaded"
  BY RowType DEF Save
<1>2. /\ proc' = [v \in Workers |-> IF v = w THEN after ELSE Noted(proc[v], gained, lost)]
      /\ UNCHANGED <<expired, attached, open>>
      /\ balance' = [balance EXCEPT ![c] = row.balance]
      /\ active' = IF row.active THEN active \cup {c} ELSE active \ {c}
  BY DEF Save
<1>3. after \notin Completions
  <2>1. CASE job.reset > 0
    <3>1. after = [job EXCEPT !.kind = "saved"]
      BY <2>1
    <3>2. after.kind = "saved"
      BY <1>1, <3>1 DEF Edits
    <3> QED
      BY <3>2 DEF Completions
  <2>2. CASE ~(job.reset > 0)
    BY <2>2, NewJobs
  <2> QED
    BY <2>1, <2>2
<1>4. /\ TypeOK /\ \A k \in Checkouts : attached[k] \subseteq Cards
      /\ \A d \in Cards : balance[d] \in Nat
      /\ \A v \in Workers : proc[v] \in Completions => proc[v].k \in Checkouts
  BY DEF TypeInv, TypeOK, Completions
<1>5. /\ \A d \in Cards \ {c} : balance'[d] = balance[d]
      /\ balance'[c] = row.balance
      /\ Valid \ {c} = Valid' \ {c}
      /\ ~more => Valid' = Valid
  <2>1. balance \in [Cards -> Nat]
    BY <1>4 DEF TypeOK
  <2>2. (c \in active') <=> row.active
    BY <1>2
  <2>3. active' \ {c} = active \ {c}
    BY <1>2
  <2>4. ~more => active' = active
    BY <1>2, <1>1
  <2> QED
    BY <1>1, <1>2, <2>1, <2>3, <2>4 DEF Valid
<1>6. ASSUME NEW k \in Checkouts
      PROVE  /\ k \notin gained => NoGain(k)
             /\ k \notin lost => NoLoss(k)
  <2>1. CASE c \in attached[k]
    <3>1. k \in Holders({c})
      BY <2>1 DEF Holders
    <3>2. /\ k \notin gained => ~more
          /\ k \notin lost => ~less
      BY <3>1
    <3>3. ~more => \A d \in attached[k] : balance'[d] <= balance[d]
      BY <1>1, <1>4, <1>5
    <3>4. ~less => \A d \in attached[k] : balance[d] <= balance'[d]
      BY <1>1, <1>4, <1>5
    <3> HIDE DEF more, less, gained, lost
    <3> QED
      BY <1>2, <1>5, <3>2, <3>3, <3>4 DEF NoGain, NoLoss
  <2>2. CASE c \notin attached[k]
    <3>1. \A d \in attached[k] : balance'[d] = balance[d] /\ balance[d] \in Nat
      BY <1>4, <1>5, <2>2
    <3>2. attached[k] \cap Valid = attached[k] \cap Valid'
      BY <1>5, <2>2
    <3> QED
      BY <1>2, <3>1, <3>2 DEF NoGain, NoLoss
  <2> QED
    BY <2>1, <2>2
<1> HIDE DEF after, gained, lost
<1>7. ASSUME NEW v \in Workers
      PROVE  WeighedAt(v)'
  <2>1. CASE v = w
    <3>1. proc'[v] = after
      BY <1>2, <2>1
    <3>2. after \notin Completions'
      BY <1>3 DEF Completions
    <3> QED
      BY <3>1, <3>2 DEF WeighedAt
  <2>2. CASE v # w
    <3>1. proc'[v] = Noted(proc[v], gained, lost)
      BY <1>2, <2>2
    <3>2. proc[v] \in Completions =>
            /\ proc[v].k \notin gained => NoGain(proc[v].k)
            /\ proc[v].k \notin lost => NoLoss(proc[v].k)
      BY <1>4, <1>6
    <3> QED
      BY <1>2, <3>1, <3>2, WeighedKept
  <2> QED
    BY <2>1, <2>2
<1> QED
  BY <1>7

\* Placing an order: what the other completions know of their cards.
LEMMA PlaceWeighed ==
  ASSUME TypeInv, TypeInv', NEW w \in Workers, \A v \in Workers : WeighedAt(v), Place(w)
  PROVE  \A v \in Workers : WeighedAt(v)'
<1>1. PICK k \in Checkouts : k = proc[w].k
  BY PlaceTyped DEF Completions, Place, TypeInv, TypeOK
<1> DEFINE touched == {c \in Reached(k) : Spent(k)[c] > 0}
           lost == Holders(touched) \ {k}
<1>2. /\ proc' = [v \in Workers |-> IF v = w THEN Idle ELSE Noted(proc[v], {}, lost)]
      /\ open' = open \ {k}
      /\ attached' = [attached EXCEPT ![k] = {}]
      /\ UNCHANGED <<active, expired>>
      /\ balance' = [c \in Cards |->
           IF c \in attached[k] THEN balance[c] - Spent(k)[c] ELSE balance[c]]
  BY <1>1 DEF Place
<1>3. /\ TypeOK /\ \A j \in Checkouts : attached[j] \subseteq Cards
      /\ \A c \in Cards : balance[c] \in Nat
      /\ \A v \in Workers : proc[v] \in Completions => proc[v].k \in Checkouts
  BY DEF TypeInv, TypeOK, Completions
<1>4. \A c \in attached[k] : /\ Spent(k)[c] \in Nat
                             /\ Spent(k)[c] > 0 => c \in touched
  BY <1>3, SpentSum
<1>5. ASSUME NEW j \in Checkouts, j # k
      PROVE  /\ NoGain(j)
             /\ j \notin lost => NoLoss(j)
  <2>1. attached'[j] = attached[j] /\ Valid' = Valid
    BY <1>2, <1>3, <1>5 DEF Valid, TypeOK
  <2>2. \A c \in attached[j] : balance'[c] <= balance[c]
    BY <1>2, <1>3, <1>4
  <2>3. ASSUME j \notin lost
        PROVE  \A c \in attached[j] : balance'[c] = balance[c]
    <3>1. \A c \in attached[j] : c \notin touched
      BY <2>3, <1>5 DEF Holders
    <3> QED
      BY <1>2, <1>3, <1>4, <3>1
  <2> QED
    BY <1>3, <2>1, <2>2, <2>3 DEF NoGain, NoLoss
<1> HIDE DEF lost
<1>6. ASSUME NEW v \in Workers
      PROVE  WeighedAt(v)'
  <2>1. CASE v = w
    <3>1. proc'[v] = Idle
      BY <1>2, <2>1
    <3>2. Idle \notin Completions'
      BY NewJobs DEF Completions
    <3> QED
      BY <3>1, <3>2 DEF WeighedAt
  <2>2. CASE v # w
    <3>1. proc'[v] = Noted(proc[v], {}, lost)
      BY <1>2, <2>2
    <3>2. proc[v] \in Completions /\ proc[v].k \in open' =>
            /\ NoGain(proc[v].k)
            /\ proc[v].k \notin lost => NoLoss(proc[v].k)
      BY <1>2, <1>3, <1>5
    <3>3. open' \subseteq open
      BY <1>2
    <3> QED
      BY <3>1, <3>2, <3>3, WeighedKept
  <2> QED
    BY <2>1, <2>2
<1> QED
  BY <1>6

\* Placing an order: what it takes from its cards.
LEMMA PlacePaid ==
  ASSUME TypeInv, Paid, NEW w \in Workers, Place(w)
  PROVE  PaidForOnce'
<1>1. proc[w] \in Completions
  BY PlaceTyped, JobKinds DEF Place, TypeInv, TypeOK, Job
<1>2. PICK k \in Checkouts : k = proc[w].k
  BY <1>1 DEF Completions
<1> DEFINE p == proc[w]
           used == Lesser(Asked(k), Now(k))
<1>3. /\ k \in open /\ p.priced /\ p.checked /\ open' = open \ {k}
      /\ open \subseteq Checkouts
  BY <1>2 DEF Place, TypeInv, TypeOK
<1>4. /\ Total(Spent(k)) = used /\ Asked(k) \in Nat /\ Asked(k) <= Price[k]
      /\ Price[k] \in Nat /\ Now(k) \in Nat
  BY SpentSum, SumsNat DEF TypeInv
<1>5. /\ orders'[k].total = p.total /\ orders'[k].used = used
      /\ orders'[k].rose = p.rose /\ orders'[k].fell = p.fell
      /\ \A j \in Checkouts \ {k} : orders'[j] = orders[j]
  BY <1>2, <1>4 DEF Place, TypeInv, TypeOK
<1>6. /\ p.checked /\ ~p.rose => attached[k] \subseteq Valid
      /\ p.priced /\ ~p.rose => p.total = 0 \/ p.total + Countable(k) <= Price[k]
      /\ p.priced /\ ~p.fell => Price[k] <= p.total + Now(k)
  BY <1>1, <1>2, <1>3 DEF Paid, WeighedAt
<1>7. ~p.rose => Countable(k) = Now(k)
  <2>1. ~p.rose => attached[k] \cap Valid = attached[k]
    BY <1>3, <1>6
  <2> QED
    BY <2>1 DEF Countable, Now
<1>8. p.total \in Nat /\ used \in Nat /\ used <= Asked(k) /\ used <= Now(k)
      /\ (used = Asked(k) \/ used = Now(k))
  BY <1>1, <1>4 DEF Completions, Lesser
<1>9. /\ ~p.rose => p.total + used <= Price[k]
      /\ ~p.fell => p.total + used >= Asked(k)
  <2> HIDE DEF used
  <2> QED
    BY <1>3, <1>4, <1>6, <1>7, <1>8
<1>10. ASSUME NEW j \in Checkouts \ open'
       PROVE  /\ orders'[j].used <= Asked(j)
              /\ ~orders'[j].rose => orders'[j].total + orders'[j].used <= Price[j]
              /\ ~orders'[j].fell => orders'[j].total + orders'[j].used >= Asked(j)
  <2>1. CASE j = k
    BY <2>1, <1>5, <1>8, <1>9
  <2>2. CASE j # k
    BY <2>2, <1>3, <1>5 DEF Paid, PaidForOnce
  <2> QED
    BY <2>1, <2>2
<1> QED
  BY <1>10 DEF PaidForOnce, Asked

\* Every step keeps the accounts of the orders.
LEMMA StepPaid ==
  ASSUME TypeInv, Paid, [Next]_vars
  PROVE  Paid'
<1>1. TypeInv'
  BY StepTyped
<1>2. UNCHANGED <<open, orders>> => PaidForOnce'
  BY DEF Paid, PaidForOnce, Asked
<1>3. \A v \in Workers : WeighedAt(v)
  BY DEF Paid
<1>4. CASE UNCHANGED vars
  <2>1. \A v \in Workers : WeighedAt(v)'
    BY <1>3, <1>4 DEF vars, WeighedAt, Countable, Now, Valid
  <2> QED
    BY <1>2, <1>4, <2>1 DEF vars, Paid
<1>5. CASE Request
  <2>1. \A v \in Workers : WeighedAt(v)'
    BY <1>1, <1>3, <1>5, CardsWeighed, JobsWeighed DEF Request, Deactivate
  <2>2. UNCHANGED <<open, orders>>
    BY <1>5 DEF Request, Issue, Buy, Create, Attach, Detach, Activate, Deactivate, SwitchOff, Expire, Load, Start
  <2> QED
    BY <1>2, <2>1, <2>2 DEF Paid
<1>6. CASE Nightly
  <2>1. Overdue \in SUBSET Cards /\ SwitchOff(Overdue)
    BY <1>6 DEF Nightly, DeactivateExpired, Overdue, TypeInv, TypeOK
  <2>2. \A v \in Workers : WeighedAt(v)'
    BY <1>1, <1>3, <2>1, CardsWeighed
  <2> QED
    BY <1>2, <2>1, <2>2 DEF Paid, SwitchOff
<1>7. ASSUME NEW w \in Workers, Work(w)
      PROVE  Paid'
  <2>1. CASE Place(w)
    BY <1>1, <1>3, <2>1, PlaceWeighed, PlacePaid DEF Paid
  <2>2. CASE Save(w)
    BY <1>1, <1>2, <1>3, <2>2, SaveWeighed DEF Paid, Save
  <2>3. CASE LogReset(w) \/ AlreadyOrdered(w) \/ GiveUp(w) \/ ReadTotal(w) \/ Validate(w)
    <3>1. \A v \in Workers : WeighedAt(v)'
      BY <1>1, <1>3, <2>3, JobsWeighed
    <3>2. UNCHANGED <<open, orders>>
      BY <2>3 DEF LogReset, AlreadyOrdered, GiveUp, ReadTotal, Validate
    <3> QED
      BY <1>2, <3>1, <3>2 DEF Paid
  <2> QED
    BY <1>7, <2>1, <2>2, <2>3 DEF Work
<1> QED
  BY <1>4, <1>5, <1>6, <1>7 DEF Next

\* The accounts of the orders always hold.
THEOREM PaidAlways == Spec => [](TypeInv /\ Paid)
<1>1. Init => TypeInv /\ Paid
  <2> SUFFICES ASSUME Init PROVE TypeInv /\ Paid
    OBVIOUS
  <2>1. \A w \in Workers : proc[w] \notin Completions
    BY NewJobs, InitTyped DEF Init
  <2>2. open = Checkouts
    BY DEF Init
  <2> QED
    BY <2>1, <2>2, InitTyped DEF Paid, WeighedAt, PaidForOnce
<1>2. TypeInv /\ Paid /\ [Next]_vars => (TypeInv /\ Paid)'
  BY StepTyped, StepPaid
<1> QED
  BY <1>1, <1>2, PTL DEF Spec

\* The total of an order and its cards pay for it once, unless its cards
\* changed in between.
THEOREM PaidForOnceAlways == Spec => []PaidForOnce
<1>1. TypeInv /\ Paid => PaidForOnce
  BY DEF Paid
<1> QED
  BY <1>1, PaidAlways, PTL

-----------------------------------------------------------------------------
(* Events account for balances.                                            *)

Loaded(w, c) == proc[w].kind = "loaded" /\ proc[w].c = c
Saved(w, c) == proc[w].kind = "saved" /\ proc[w].c = c

Chain(h, start) == \A i \in 1 .. Len(h) : h[i].old = Left(h, start, i - 1)
Last(h, start) == Left(h, start, Len(h))

\* Of a card whose edits were left alone: an edit under way loaded the balance
\* it holds; an edit that was saved and not logged is the only one, and will
\* log what its history lacks.
ExplainedAt(c) ==
  /\ Chain(history[c], bought[c])
  /\ \A w \in Workers : Loaded(w, c) => proc[w].balance = balance[c]
  /\ \A w \in Workers : Saved(w, c) =>
       /\ proc[w].balance = Last(history[c], bought[c]) /\ proc[w].reset = balance[c]
       /\ \A v \in Workers : Saved(v, c) => v = w
  /\ (\A w \in Workers : ~Saved(w, c)) => balance[c] = Last(history[c], bought[c])

Explained == \A c \in Issued \ raced : ExplainedAt(c)

\* A card that does not exist yet has no events and was not bought.
Unissued == \A c \in Cards \ Issued : history[c] = <<>> /\ bought[c] = 0

\* A chain goes on with an event that starts where it ended.
LEMMA ChainGoesOn ==
  ASSUME NEW h \in Seq(Event), NEW start, Chain(h, start), NEW e \in Event,
         e.old = Last(h, start)
  PROVE  Chain(Append(h, e), start) /\ Last(Append(h, e), start) = e.new
<1> DEFINE g == Append(h, e)
<1>1. Len(h) \in Nat /\ Len(g) = Len(h) + 1
  OBVIOUS
<1>2. /\ g[Len(h) + 1] = e
      /\ \A i \in 1 .. Len(h) : g[i] = h[i]
  BY <1>1
<1> HIDE DEF g
<1>3. \A i \in 0 .. Len(h) : Left(g, start, i) = Left(h, start, i)
  BY <1>1, <1>2 DEF Left
<1>4. ASSUME NEW i \in 1 .. Len(g)
      PROVE  g[i].old = Left(g, start, i - 1)
  <2>1. CASE i = Len(h) + 1
    <3>1. Left(g, start, Len(h)) = Left(h, start, Len(h)) /\ i - 1 = Len(h)
      BY <1>1, <1>3, <2>1
    <3>2. g[i] = e
      BY <1>2, <2>1
    <3> QED
      BY <3>1, <3>2 DEF Last
  <2>2. CASE i # Len(h) + 1
    <3>1. i \in 1 .. Len(h) /\ i - 1 \in 0 .. Len(h)
      BY <1>1, <2>2
    <3>2. g[i] = h[i] /\ Left(g, start, i - 1) = Left(h, start, i - 1)
      BY <1>2, <1>3, <3>1
    <3> QED
      BY <3>1, <3>2 DEF Chain
  <2> QED
    BY <2>1, <2>2
<1>5. Last(g, start) = e.new
  BY <1>1, <1>2 DEF Last, Left
<1> QED
  BY <1>4, <1>5 DEF Chain, g

\* A step that leaves a card, its history and the edits of it alone.
LEMMA ExplainedKept ==
  ASSUME TypeInv, NEW c \in Cards, ExplainedAt(c),
         history'[c] = history[c], balance'[c] = balance[c], bought'[c] = bought[c],
         \A v \in Workers : /\ proc'[v] \in Edits /\ proc'[v].c = c =>
                                 \/ proc'[v] = proc[v]
                                 \/ proc'[v].kind = "loaded" /\ proc'[v].balance = balance[c]
                            /\ proc[v].kind = "saved" /\ proc[v].c = c => proc'[v] = proc[v],
         proc' \in [Workers -> Job]
  PROVE  ExplainedAt(c)'
<1>1. ASSUME NEW v \in Workers
      PROVE  /\ Saved(v, c)' => Saved(v, c) /\ proc'[v] = proc[v]
             /\ Saved(v, c) => Saved(v, c)'
             /\ Loaded(v, c)' => proc'[v].balance = balance'[c]
  <2>1. Saved(v, c)' \/ Loaded(v, c)' => proc'[v] \in Edits /\ proc'[v].c = c
    BY JobKinds DEF Saved, Loaded
  <2> QED
    BY <2>1 DEF Saved, Loaded, ExplainedAt
<1> QED
  BY <1>1 DEF ExplainedAt

\* The edits a noted job leaves alone.
LEMMA NotedEdits ==
  ASSUME TypeInv, NEW v \in Workers, NEW gained, NEW lost,
         proc'[v] = Noted(proc[v], gained, lost)
  PROVE  /\ proc'[v] \in Edits => proc'[v] = proc[v]
         /\ proc[v].kind \in {"loaded", "saved"} => proc'[v] = proc[v]
<1>1. proc[v] \in Job
  BY DEF TypeInv, TypeOK, Job
<1>2. CASE proc[v] \in Completions
  BY <1>1, <1>2, NotedJob, JobKinds DEF Completions, Edits
<1>3. CASE proc[v] \notin Completions
  BY <1>1, <1>3, NotedJob
<1> QED
  BY <1>2, <1>3

\* Attaching, detaching and switching cards, and the steps of a worker that
\* write no card.
LEMMA StillExplained ==
  ASSUME TypeInv, TypeInv', Explained,
         UNCHANGED <<initial, balance, bought, history>>, raced \subseteq raced',
         \/ \E gained, lost : proc' = [v \in Workers |-> Noted(proc[v], gained, lost)]
         \/ \E w \in Workers, job \in Job :
              /\ Become(w, job)
              /\ proc[w].kind = "saved" => proc[w].c \in raced'
              /\ \/ job \notin Edits
                 \/ job.kind = "loaded" /\ job.balance = balance[job.c]
  PROVE  Explained'
<1>1. /\ Issued' = Issued /\ Issued \subseteq Cards
      /\ proc \in [Workers -> Job] /\ proc' \in [Workers -> Job]
  BY DEF Issued, TypeInv, TypeOK, Job
<1>2. ASSUME NEW c \in Issued \ raced'
      PROVE  ExplainedAt(c)'
  <2>1. c \in Cards /\ ExplainedAt(c)
    BY <1>1 DEF Explained
  <2>2. ASSUME NEW gained, NEW lost, proc' = [v \in Workers |-> Noted(proc[v], gained, lost)]
        PROVE  ExplainedAt(c)'
    <3>1. \A v \in Workers : /\ proc'[v] \in Edits => proc'[v] = proc[v]
                             /\ proc[v].kind = "saved" => proc'[v] = proc[v]
      BY <2>2, NotedEdits
    <3> QED
      BY <1>1, <2>1, <3>1, ExplainedKept
  <2>3. CASE \E w \in Workers, job \in Job :
               /\ Become(w, job)
               /\ proc[w].kind = "saved" => proc[w].c \in raced'
               /\ \/ job \notin Edits
                  \/ job.kind = "loaded" /\ job.balance = balance[job.c]
    <3>1. PICK w \in Workers, job \in Job :
            /\ Become(w, job)
            /\ proc[w].kind = "saved" => proc[w].c \in raced'
            /\ \/ job \notin Edits
               \/ job.kind = "loaded" /\ job.balance = balance[job.c]
      BY <2>3
    <3>2. \A v \in Workers : proc'[v] = IF v = w THEN job ELSE proc[v]
      BY <1>1, <3>1 DEF Become
    <3>3. \A v \in Workers :
            /\ proc'[v] \in Edits /\ proc'[v].c = c =>
                 \/ proc'[v] = proc[v]
                 \/ proc'[v].kind = "loaded" /\ proc'[v].balance = balance[c]
            /\ proc[v].kind = "saved" /\ proc[v].c = c => proc'[v] = proc[v]
      BY <1>2, <3>1, <3>2
    <3> QED
      BY <1>1, <2>1, <3>3, ExplainedKept
  <2>4. CASE \E gained, lost : proc' = [v \in Workers |-> Noted(proc[v], gained, lost)]
    BY <2>2, <2>4
  <2> QED
    BY <2>3, <2>4
<1> QED
  BY <1>1, <1>2 DEF Explained

\* Issuing or buying a card: it has no events before.
LEMMA IssueExplained ==
  ASSUME TypeInv, TypeInv', Explained, Unissued, NEW c \in Cards, NEW n \in FaceValues,
         Issue(c, n) \/ Buy(c, n)
  PROVE  Explained'
<1>1. /\ Issued \subseteq Cards /\ c \notin Issued /\ Issued' \subseteq Issued \cup {c}
      /\ proc \in [Workers -> Job] /\ proc' = proc /\ raced' = raced
  BY DEF Issue, Buy, Create, Issued, TypeInv, TypeOK, Job
<1>2. \A w \in Workers : ~Loaded(w, c) /\ ~Saved(w, c)
  <2>1. \A w \in Workers : proc[w] \in Edits => proc[w].c \in Issued
    BY DEF TypeInv, Grounded
  <2> QED
    BY <1>1, <2>1, JobKinds DEF Loaded, Saved
<1>3. ExplainedAt(c)'
  <2> DEFINE e == [old |-> 0, new |-> n]
  <2>1. /\ balance'[c] = n
        /\ \/ history'[c] = <<e>> /\ bought'[c] = bought[c]
           \/ history'[c] = history[c] /\ bought'[c] = n
    BY DEF Issue, Buy, Create, TypeInv, TypeOK
  <2>2. history[c] = <<>> /\ bought[c] = 0
    BY <1>1 DEF Unissued
  <2>3. CASE history'[c] = <<e>> /\ bought'[c] = 0
    <3>1. Len(<<e>>) = 1 /\ <<e>>[1] = e
      OBVIOUS
    <3>2. Chain(<<e>>, 0) /\ Last(<<e>>, 0) = n
      BY <3>1 DEF Chain, Last, Left
    <3> QED
      BY <1>1, <1>2, <2>1, <2>3, <3>2 DEF ExplainedAt, Loaded, Saved
  <2>4. CASE history'[c] = <<>> /\ bought'[c] = n
    <3>1. Len(<<>>) = 0
      OBVIOUS
    <3>2. Chain(<<>>, n) /\ Last(<<>>, n) = n
      BY <3>1 DEF Chain, Last, Left
    <3> QED
      BY <1>1, <1>2, <2>1, <2>4, <3>2 DEF ExplainedAt, Loaded, Saved
  <2> QED
    BY <2>1, <2>2, <2>3, <2>4
<1>4. ASSUME NEW d \in Issued \ raced
      PROVE  ExplainedAt(d)'
  <2>1. d # c /\ d \in Cards /\ ExplainedAt(d)
    BY <1>1 DEF Explained
  <2>2. history'[d] = history[d] /\ balance'[d] = balance[d] /\ bought'[d] = bought[d]
    BY <2>1 DEF Issue, Buy, Create, TypeInv, TypeOK
  <2> QED
    BY <1>1, <2>1, <2>2, ExplainedKept
<1> QED
  BY <1>1, <1>3, <1>4 DEF Explained

\* Saving an edit: of a card nobody else edits, the balance stays, or the
\* event that is to be logged tells what it was.
LEMMA SaveExplained ==
  ASSUME TypeInv, TypeInv', Explained, NEW w \in Workers, Save(w)
  PROVE  Explained'
<1>1. PICK c \in Cards : c = proc[w].c
  BY RowType DEF Save
<1> DEFINE job == proc[w]
           row == Row(job)
<1>2. /\ job \in Edits /\ job.kind = "loaded" /\ Loaded(w, c) /\ c \in Issued
      /\ job.reset \in Nat /\ job.balance \in Nat
      /\ job.reset > 0 => row.balance = job.reset
      /\ ~(job.reset > 0) => row.balance = job.balance
  BY <1>1, RowType DEF Save, Loaded, Edits
<1>3. /\ proc \in [Workers -> Job] /\ proc' \in [Workers -> Job]
      /\ Issued \subseteq Cards /\ Issued' \subseteq Issued /\ history' = history /\ bought' = bought
      /\ raced' = IF Editing(c) # {w} THEN raced \cup {c} ELSE raced
      /\ balance' = [balance EXCEPT ![c] = row.balance]
  <2>1. Issued' \subseteq Issued
    BY <1>1, <1>2 DEF Save, Issued, TypeInv, TypeOK
  <2> QED
    BY <1>1, <2>1 DEF Save, TypeInv, TypeOK, Job, Issued
<1>4. /\ \A v \in Workers \ {w} : /\ proc'[v] \in Edits => proc'[v] = proc[v]
                                  /\ proc[v].kind \in {"loaded", "saved"} => proc'[v] = proc[v]
      /\ job.reset > 0 => proc'[w] = [job EXCEPT !.kind = "saved"]
      /\ ~(job.reset > 0) => proc'[w] = Idle
  <2>1. \A v \in Workers \ {w} : \E gained, lost : proc'[v] = Noted(proc[v], gained, lost)
    BY DEF Save
  <2>2. /\ job.reset > 0 => proc'[w] = [job EXCEPT !.kind = "saved"]
        /\ ~(job.reset > 0) => proc'[w] = Idle
    BY DEF Save
  <2> QED
    BY <2>1, <2>2, NotedEdits
<1>5. ASSUME NEW d \in Issued \ raced', d # c
      PROVE  ExplainedAt(d)'
  <2>1. /\ d \in Cards /\ ExplainedAt(d) /\ history'[d] = history[d]
        /\ balance'[d] = balance[d] /\ bought'[d] = bought[d]
    BY <1>3, <1>5 DEF Explained, TypeInv, TypeOK
  <2>2. proc'[w] \in Edits => proc'[w].c # d
    <3>1. CASE job.reset > 0
      <4>1. proc'[w].c = c
        BY <1>1, <1>2, <1>4, <3>1 DEF Edits
      <4> QED
        BY <4>1, <1>5
    <3>2. CASE ~(job.reset > 0)
      BY <1>4, <3>2, NewJobs
    <3> QED
      BY <3>1, <3>2
  <2>3. proc[w].kind # "saved"
    BY <1>2
  <2>4. \A v \in Workers :
          /\ proc'[v] \in Edits /\ proc'[v].c = d => proc'[v] = proc[v]
          /\ proc[v].kind = "saved" /\ proc[v].c = d => proc'[v] = proc[v]
    BY <1>4, <2>2, <2>3
  <2> QED
    BY <1>3, <2>1, <2>4, ExplainedKept
<1>6. ASSUME c \notin raced'
      PROVE  ExplainedAt(c)'
  <2>1. c \notin raced /\ Editing(c) = {w} /\ ExplainedAt(c)
    BY <1>2, <1>3, <1>6 DEF Explained
  <2>2. \A v \in Workers : v # w => ~Loaded(v, c) /\ ~Saved(v, c)
    BY <2>1 DEF Editing, Loaded, Saved
  <2>3. ~Saved(w, c)
    BY <1>2 DEF Saved
  <2>4. /\ balance[c] = Last(history[c], bought[c]) /\ job.balance = balance[c]
        /\ Chain(history[c], bought[c])
    BY <1>2, <2>1, <2>2, <2>3 DEF ExplainedAt
  <2>5. balance'[c] = row.balance
    BY <1>3 DEF TypeInv, TypeOK
  <2>6. \A v \in Workers : v # w => ~Loaded(v, c)' /\ ~Saved(v, c)'
    <3> SUFFICES ASSUME NEW v \in Workers, v # w, Loaded(v, c)' \/ Saved(v, c)'
                 PROVE  FALSE
      OBVIOUS
    <3>1. proc'[v] \in Edits
      BY <1>3, JobKinds DEF Loaded, Saved
    <3>2. proc'[v] = proc[v]
      BY <1>4, <3>1
    <3> QED
      BY <2>2, <3>2 DEF Loaded, Saved
  <2>7. CASE job.reset > 0
    <3>1. /\ proc'[w].kind = "saved" /\ proc'[w].c = c /\ proc'[w].balance = job.balance
          /\ proc'[w].reset = job.reset
      BY <1>1, <1>2, <1>4, <2>7 DEF Edits
    <3>2. Saved(w, c)' /\ ~Loaded(w, c)'
      BY <3>1 DEF Saved, Loaded
    <3>3. balance'[c] = job.reset
      BY <1>2, <2>5, <2>7
    <3> QED
      BY <1>3, <2>4, <2>6, <3>1, <3>2, <3>3 DEF ExplainedAt
  <2>8. CASE ~(job.reset > 0)
    <3>1. ~Saved(w, c)' /\ ~Loaded(w, c)'
      BY <1>4, <2>8 DEF Saved, Loaded, Idle
    <3>2. balance'[c] = balance[c]
      BY <1>2, <2>4, <2>5, <2>8
    <3> QED
      BY <1>3, <2>4, <2>6, <3>1, <3>2 DEF ExplainedAt
  <2> QED
    BY <2>7, <2>8
<1> QED
  BY <1>3, <1>5, <1>6 DEF Explained

\* Logging a reset: the history catches up with the balance.
LEMMA LogExplained ==
  ASSUME TypeInv, TypeInv', Explained, NEW w \in Workers, LogReset(w)
  PROVE  Explained'
<1> DEFINE job == proc[w]
           e == [old |-> job.balance, new |-> job.reset]
<1>1. job \in Edits /\ job.kind = "saved"
  BY JobKinds DEF LogReset, TypeInv, TypeOK, Job
<1>2. PICK c \in Cards : c = job.c
  BY <1>1 DEF Edits
<1>3. /\ proc \in [Workers -> Job] /\ proc' \in [Workers -> Job]
      /\ Issued' = Issued /\ Issued \subseteq Cards /\ raced' = raced /\ balance' = balance
      /\ bought' = bought
      /\ history' = [history EXCEPT ![c] = Append(history[c], e)]
      /\ \A v \in Workers : proc'[v] = IF v = w THEN Idle ELSE proc[v]
      /\ e \in Event /\ history \in [Cards -> Seq(Event)]
  <2>1. e \in Event
    BY <1>1 DEF Edits, Event
  <2>2. history' = [history EXCEPT ![c] = Append(history[c], e)]
    BY <1>2 DEF LogReset
  <2>3. Issued' = Issued /\ Issued \subseteq Cards
    BY DEF LogReset, Issued
  <2> QED
    BY <2>1, <2>2, <2>3 DEF LogReset, Become, TypeInv, TypeOK, Job
<1>4. ASSUME NEW d \in Issued \ raced', d # c
      PROVE  ExplainedAt(d)'
  <2>1. /\ d \in Cards /\ ExplainedAt(d) /\ history'[d] = history[d]
        /\ balance'[d] = balance[d] /\ bought'[d] = bought[d]
    BY <1>3, <1>4 DEF Explained
  <2>2. \A v \in Workers :
          /\ proc'[v] \in Edits /\ proc'[v].c = d => proc'[v] = proc[v]
          /\ proc[v].kind = "saved" /\ proc[v].c = d => proc'[v] = proc[v]
    BY <1>2, <1>3, <1>4, NewJobs
  <2> QED
    BY <1>3, <2>1, <2>2, ExplainedKept
<1>5. ASSUME c \in Issued \ raced'
      PROVE  ExplainedAt(c)'
  <2>1. ExplainedAt(c) /\ Saved(w, c)
    BY <1>1, <1>2, <1>3, <1>5 DEF Explained, Saved
  <2>2. /\ Chain(history[c], bought[c]) /\ job.balance = Last(history[c], bought[c])
        /\ job.reset = balance[c]
        /\ \A v \in Workers : Saved(v, c) => v = w
        /\ \A v \in Workers : Loaded(v, c) => proc[v].balance = balance[c]
    BY <2>1 DEF ExplainedAt
  <2>3. history'[c] = Append(history[c], e)
    BY <1>3
  <2>4. Chain(history'[c], bought'[c]) /\ Last(history'[c], bought'[c]) = balance'[c]
    <3>1. e.old = Last(history[c], bought[c]) /\ e.new = balance[c] /\ history[c] \in Seq(Event)
      BY <1>3, <2>2
    <3> HIDE DEF e
    <3> QED
      BY <1>3, <2>2, <2>3, <3>1, ChainGoesOn
  <2>5. \A v \in Workers : /\ ~Saved(v, c)'
                           /\ Loaded(v, c)' => proc'[v].balance = balance'[c]
    BY <1>3, <2>2 DEF Saved, Loaded, Idle
  <2> QED
    BY <2>4, <2>5 DEF ExplainedAt
<1> QED
  BY <1>3, <1>4, <1>5 DEF Explained

\* Placing an order: the cards it reached were not being edited, or are noted.
LEMMA PlaceExplained ==
  ASSUME TypeInv, TypeInv', Explained, NEW w \in Workers, Place(w)
  PROVE  Explained'
<1>1. PICK k \in Checkouts : k = proc[w].k
  BY PlaceTyped DEF Completions, Place, TypeInv, TypeOK
<1>2. /\ balance' = [c \in Cards |->
           IF c \in attached[k] THEN balance[c] - Spent(k)[c] ELSE balance[c]]
      /\ history' = SpendingEvents(k) /\ bought' = bought
      /\ raced' = raced \cup {c \in Reached(k) : Editing(c) # {}}
      /\ Issued' = Issued /\ Issued \subseteq Cards
      /\ proc'[w] = Idle /\ proc[w].kind = "completing"
      /\ proc \in [Workers -> Job] /\ proc' \in [Workers -> Job]
  BY <1>1 DEF Place, Issued, TypeInv, TypeOK, Job
<1>3. \A v \in Workers \ {w} : \E gained, lost : proc'[v] = Noted(proc[v], gained, lost)
  BY DEF Place
<1>4. \A v \in Workers : /\ proc'[v] \in Edits => proc'[v] = proc[v]
                         /\ proc[v].kind \in {"loaded", "saved"} => proc'[v] = proc[v]
  BY <1>2, <1>3, NotedEdits, NewJobs
<1>5. /\ \A c \in attached[k] : /\ Spent(k)[c] \in Nat /\ Spent(k)[c] <= balance[c]
                                /\ Spent(k)[c] > 0 => c \in Reached(k)
      /\ \A c \in Cards : balance[c] \in Nat /\ history[c] \in Seq(Event)
      /\ Reached(k) \subseteq attached[k]
  <2>1. Reached(k) \subseteq attached[k]
    BY DEF Reached
  <2>2. \A c \in Cards : balance[c] \in Nat /\ history[c] \in Seq(Event)
    BY DEF TypeInv, TypeOK
  <2>3. TypeOK
    BY DEF TypeInv
  <2>4. \A c \in attached[k] : /\ Spent(k)[c] \in Nat /\ Spent(k)[c] <= balance[c]
                               /\ Spent(k)[c] > 0 => c \in Reached(k)
    BY <2>3, SpentSum
  <2> QED
    BY <2>1, <2>2, <2>4
<1>6. ASSUME NEW c \in Issued \ raced', c \notin Reached(k)
      PROVE  ExplainedAt(c)'
  <2>1. c \in Cards /\ ExplainedAt(c)
    BY <1>2, <1>6 DEF Explained
  <2>2. balance'[c] = balance[c] /\ history'[c] = history[c]
    BY <1>2, <1>5, <1>6, <2>1 DEF SpendingEvents
  <2> QED
    BY <1>2, <1>4, <2>1, <2>2, ExplainedKept
<1>7. ASSUME NEW c \in Issued \ raced', c \in Reached(k)
      PROVE  ExplainedAt(c)'
  <2> DEFINE e == [old |-> balance[c], new |-> balance[c] - Spent(k)[c]]
  <2>1. c \in Cards /\ ExplainedAt(c) /\ Editing(c) = {}
    BY <1>2, <1>7 DEF Explained
  <2>2. \A v \in Workers : ~Loaded(v, c) /\ ~Saved(v, c)
    BY <2>1 DEF Editing, Loaded, Saved
  <2>3. Chain(history[c], bought[c]) /\ balance[c] = Last(history[c], bought[c])
    BY <2>1, <2>2 DEF ExplainedAt
  <2>4. /\ balance'[c] = balance[c] - Spent(k)[c]
        /\ history'[c] = Append(history[c], e)
    BY <1>2, <1>5, <1>7, <2>1 DEF SpendingEvents
  <2>5. e \in Event
    <3>1. balance[c] \in Nat /\ balance[c] - Spent(k)[c] \in Nat
      BY <1>5, <1>7, <2>1
    <3> QED
      BY <3>1 DEF Event
  <2>6. e.old = balance[c] /\ e.new = balance'[c]
    BY <2>4
  <2> HIDE DEF e
  <2>7. Chain(history'[c], bought'[c]) /\ Last(history'[c], bought'[c]) = balance'[c]
    BY <1>2, <1>5, <2>1, <2>3, <2>4, <2>5, <2>6, ChainGoesOn
  <2>8. \A v \in Workers : ~Loaded(v, c)' /\ ~Saved(v, c)'
    <3> SUFFICES ASSUME NEW v \in Workers, Loaded(v, c)' \/ Saved(v, c)'
                 PROVE  FALSE
      OBVIOUS
    <3>1. proc'[v] \in Edits
      BY <1>2, JobKinds DEF Loaded, Saved
    <3>2. proc'[v] = proc[v]
      BY <1>4, <3>1
    <3> QED
      BY <2>2, <3>2 DEF Loaded, Saved
  <2> QED
    BY <2>7, <2>8 DEF ExplainedAt
<1> QED
  BY <1>2, <1>6, <1>7 DEF Explained

\* Only issuing and buying touch a card that does not exist.
LEMMA StepUnissued ==
  ASSUME TypeInv, Unissued, [Next]_vars
  PROVE  Unissued'
<1> SUFFICES ASSUME NEW c \in Cards, c \notin Issued'
             PROVE  c \notin Issued /\ history'[c] = history[c] /\ bought'[c] = bought[c]
  BY DEF Unissued
<1>1. CASE UNCHANGED <<initial, bought, history>>
  BY <1>1 DEF Issued
<1>2. ASSUME NEW d \in Cards, NEW n \in FaceValues, Issue(d, n) \/ Buy(d, n)
      PROVE  c \notin Issued /\ history'[c] = history[c] /\ bought'[c] = bought[c]
  <2>1. n > 0
    BY FaceAssumption
  <2> QED
    BY <1>2, <2>1 DEF Issue, Buy, Create, Issued, TypeInv, TypeOK
<1>3. ASSUME NEW w \in Workers, Save(w)
      PROVE  c \notin Issued /\ history'[c] = history[c] /\ bought'[c] = bought[c]
  <2>1. initial' = [initial EXCEPT ![proc[w].c] = Row(proc[w]).initial]
    BY <1>3 DEF Save
  <2>2. Row(proc[w]).initial > 0
    BY <1>3, RowType DEF Save
  <2>3. c \notin Issued
    BY <2>1, <2>2 DEF Issued, TypeInv, TypeOK
  <2> QED
    BY <1>3, <2>3 DEF Save
<1>4. ASSUME NEW w \in Workers, LogReset(w)
      PROVE  c \notin Issued /\ history'[c] = history[c] /\ bought'[c] = bought[c]
  <2>1. proc[w] \in Edits
    BY <1>4, JobKinds DEF LogReset, TypeInv, TypeOK, Job
  <2>2. proc[w].c \in Issued
    BY <2>1 DEF TypeInv, Grounded
  <2>3. Issued' = Issued /\ bought' = bought
    BY <1>4 DEF LogReset, Issued
  <2> QED
    BY <1>4, <2>2, <2>3 DEF LogReset, TypeInv, TypeOK
<1>5. ASSUME NEW w \in Workers, Place(w)
      PROVE  c \notin Issued /\ history'[c] = history[c] /\ bought'[c] = bought[c]
  <2>1. PICK k \in Checkouts : k = proc[w].k
    BY <1>5, PlaceTyped, JobKinds DEF Place, Completions, TypeInv, TypeOK, Job
  <2>2. Issued' = Issued /\ bought' = bought /\ history' = SpendingEvents(k)
    BY <1>5, <2>1 DEF Place, Issued
  <2>3. c \notin Reached(k)
    BY <2>2 DEF Reached, TypeInv, Grounded
  <2> QED
    BY <2>2, <2>3 DEF SpendingEvents
<1>6. CASE Request
  <2>1. ASSUME ~(\E d \in Cards, n \in FaceValues : Issue(d, n) \/ Buy(d, n))
        PROVE  UNCHANGED <<initial, bought, history>>
    BY <1>6, <2>1 DEF Request, Attach, Detach, Activate, Deactivate, SwitchOff, Expire,
                      Load, Start
  <2> QED
    BY <1>1, <1>2, <2>1
<1>7. ASSUME NEW w \in Workers, Work(w)
      PROVE  c \notin Issued /\ history'[c] = history[c] /\ bought'[c] = bought[c]
  <2>1. CASE ReadTotal(w) \/ Validate(w) \/ AlreadyOrdered(w) \/ GiveUp(w)
    BY <1>1, <2>1 DEF ReadTotal, Validate, AlreadyOrdered, GiveUp
  <2> QED
    BY <1>3, <1>4, <1>5, <1>7, <2>1 DEF Work
<1>8. CASE Nightly
  BY <1>1, <1>8 DEF Nightly, DeactivateExpired, SwitchOff
<1>9. CASE UNCHANGED vars
  BY <1>1, <1>9 DEF vars
<1> QED
  BY <1>6, <1>7, <1>8, <1>9 DEF Next

\* Every step.
LEMMA StepExplained ==
  ASSUME TypeInv, Explained, Unissued, [Next]_vars
  PROVE  Explained'
<1>1. TypeInv'
  BY StepTyped
<1> DEFINE noted == \E gained, lost : proc' = [v \in Workers |-> Noted(proc[v], gained, lost)]
           still == UNCHANGED <<initial, balance, bought, history>> /\ raced \subseteq raced'
<1>2. CASE UNCHANGED vars
  BY <1>2 DEF vars, Explained, ExplainedAt, Issued, Loaded, Saved
<1>3. CASE Request
  <2>1. ASSUME NEW c \in Cards, NEW n \in FaceValues, Issue(c, n) \/ Buy(c, n)
        PROVE  Explained'
    BY <1>1, <2>1, IssueExplained
  <2>2. ASSUME NEW k \in Checkouts, NEW c \in Cards, Attach(k, c) \/ Detach(k, c)
        PROVE  Explained'
    <3>1. still /\ noted
      BY <2>2 DEF Attach, Detach
    <3> QED
      BY <1>1, <3>1, StillExplained
  <2>3. ASSUME NEW c \in Cards, Activate(c) \/ Deactivate(c) \/ Expire(c)
        PROVE  Explained'
    <3>1. still /\ noted
      BY <2>3 DEF Activate, Deactivate, SwitchOff, Expire
    <3> QED
      BY <1>1, <3>1, StillExplained
  <2>4. ASSUME NEW w \in Workers, NEW c \in Cards, NEW n \in FaceValues \cup {0}, Load(w, c, n)
        PROVE  Explained'
    <3>1. /\ still /\ Become(w, Edit(c, n)) /\ Edit(c, n) \in Job /\ proc[w].kind # "saved"
          /\ Edit(c, n).kind = "loaded" /\ Edit(c, n).balance = balance[Edit(c, n).c]
      BY <2>4, NewJobs DEF Load, Edit, Idle
    <3> QED
      BY <1>1, <3>1, StillExplained
  <2>5. ASSUME NEW w \in Workers, NEW k \in Checkouts, NEW f \in Flows, Start(w, k, f)
        PROVE  Explained'
    <3>1. /\ still /\ Become(w, Completion(k, f)) /\ Completion(k, f) \in Job
          /\ proc[w].kind # "saved" /\ Completion(k, f) \notin Edits
      BY <2>5, NewJobs DEF Start, Idle
    <3> QED
      BY <1>1, <3>1, StillExplained
  <2> QED
    BY <1>3, <2>1, <2>2, <2>3, <2>4, <2>5 DEF Request
<1>4. CASE Nightly
  <2>1. still /\ noted
    BY <1>4 DEF Nightly, DeactivateExpired, SwitchOff
  <2> QED
    BY <1>1, <2>1, StillExplained
<1>5. ASSUME NEW w \in Workers, Work(w)
      PROVE  Explained'
  <2>1. CASE Save(w)
    BY <1>1, <2>1, SaveExplained
  <2>2. CASE LogReset(w)
    BY <1>1, <2>2, LogExplained
  <2>3. CASE Place(w)
    BY <1>1, <2>3, PlaceExplained
  <2>4. CASE AlreadyOrdered(w) \/ GiveUp(w)
    <3>1. /\ still /\ Become(w, Idle) /\ Idle \in Job /\ Idle \notin Edits
          /\ proc[w].kind = "saved" => proc[w].c \in raced'
      BY <2>4, NewJobs DEF AlreadyOrdered, GiveUp
    <3> QED
      BY <1>1, <3>1, StillExplained
  <2>5. CASE ReadTotal(w) \/ Validate(w)
    <3> DEFINE n == TotalAfterCards(proc[w].k)
               priced == [proc[w] EXCEPT !.total = n, !.priced = TRUE]
               checked == [proc[w] EXCEPT !.checked = TRUE]
    <3>1. proc[w] \in Completions /\ proc[w].kind # "saved" /\ proc'[w] \in Job
      BY <1>1, <2>5, JobKinds DEF ReadTotal, Validate, TypeInv, TypeOK, Job
    <3>2. priced.kind = "completing" /\ checked.kind = "completing"
      BY <3>1 DEF Completions
    <3>3. Become(w, priced) \/ Become(w, checked)
      BY <2>5 DEF ReadTotal, Validate
    <3> HIDE DEF priced, checked
    <3>4. Become(w, proc'[w]) /\ proc'[w].kind = "completing"
      BY <3>2, <3>3 DEF Become, TypeInv, TypeOK
    <3>5. proc'[w] \notin Edits
      BY <3>4 DEF Edits
    <3>6. still
      BY <2>5 DEF ReadTotal, Validate
    <3> QED
      BY <1>1, <3>1, <3>4, <3>5, <3>6, StillExplained
  <2> QED
    BY <1>5, <2>1, <2>2, <2>3, <2>4, <2>5 DEF Work
<1> QED
  BY <1>2, <1>3, <1>4, <1>5 DEF Next

\* The events of a card that was not written during an edit of it account for
\* its balance.
THEOREM HistoryExplainsAlways == Spec => []HistoryExplains
<1>1. Init => TypeInv /\ Explained /\ Unissued
  <2> SUFFICES ASSUME Init PROVE TypeInv /\ Explained /\ Unissued
    OBVIOUS
  <2>1. TypeInv
    BY InitTyped
  <2>2. \A w \in Workers, c \in Cards : ~Loaded(w, c) /\ ~Saved(w, c)
    BY DEF Init, Loaded, Saved, Idle
  <2>3. ASSUME NEW c \in Issued
        PROVE  ExplainedAt(c)
    <3> DEFINE e == [old |-> 0, new |-> initial[c]]
    <3>1. c \in Cards /\ history[c] = <<e>> /\ balance[c] = initial[c] /\ bought[c] = 0
      BY DEF Init, Issued
    <3>2. Chain(<<e>>, 0) /\ Last(<<e>>, 0) = e.new
      <4>1. Len(<<e>>) = 1 /\ <<e>>[1] = e
        OBVIOUS
      <4> QED
        BY <4>1 DEF Chain, Last, Left
    <3> QED
      BY <2>2, <3>1, <3>2 DEF ExplainedAt
  <2>4. Unissued
    BY DEF Init, Issued, Unissued
  <2> QED
    BY <2>1, <2>3, <2>4 DEF Explained
<1>2. (TypeInv /\ Explained /\ Unissued) /\ [Next]_vars => (TypeInv /\ Explained /\ Unissued)'
  BY StepTyped, StepExplained, StepUnissued
<1>3. TypeInv /\ Explained => HistoryExplains
  <2> SUFFICES ASSUME TypeInv, Explained, NEW c \in Issued \ raced
               PROVE  /\ Chain(history[c], bought[c])
                      /\ {w \in Editing(c) : proc[w].kind = "saved"} = {} =>
                           balance[c] = Last(history[c], bought[c])
    BY DEF HistoryExplains, Chain, Last
  <2>1. ExplainedAt(c)
    BY DEF Explained
  <2>2. {w \in Editing(c) : proc[w].kind = "saved"} = {} => \A w \in Workers : ~Saved(w, c)
    BY DEF Editing, Saved
  <2> QED
    BY <2>1, <2>2 DEF ExplainedAt
<1> QED
  BY <1>1, <1>2, <1>3, PTL DEF Spec

=============================================================================
