------------------------ MODULE PromotionPricesProofs ------------------------
(***************************************************************************)
(* Prices follow the promotions, for any number of rules, products, tasks, *)
(* requests and crashes.                                                   *)
(*                                                                         *)
(* The argument accounts for what is still to come.  A rule's variants are *)
(* those of its predicate, or an item, its mark or a task that has read it *)
(* in time will make them so (VariantsRight); a price is that of the       *)
(* active rules' variants, or an item, a mark, a task or a date nobody has *)
(* noticed yet will make it so (PricesRight).  A step takes one of these   *)
(* reasons away only by supplying the next.  Around these two stand what   *)
(* tasks remember: rules that were created (Known), products that they     *)
(* will have marked before they forget them (Covered), and, for those that *)
(* take variants away, rules that have ended (ClearsExpired).              *)
(*                                                                         *)
(* The records of discounts need to know who writes: a product is in hand  *)
(* of one task, and while it is, its rows are those that task has seen     *)
(* (RowsRight).  A price with a discount then has it on record, or will,   *)
(* by the same account of what is to come (RecordsRight).                  *)
(*                                                                         *)
(* Most of the lemmas say what one action leaves alone: Steady... are the  *)
(* parts of the state an account of a product depends on, Grown, Others    *)
(* and Everyone what marking does to the jobs of the other workers.        *)
(***************************************************************************)
EXTENDS PromotionPrices, QuantitiesProofs

-----------------------------------------------------------------------------
(* What rows, items and jobs are.                                          *)

Promotions == [start : -1 .. MaxTime, end : -1 .. Never, notified : -1 .. MaxTime]

RuleRows == [exists : BOOLEAN, predicate : SUBSET Products, variants : SUBSET Products,
             reward : Rewards \cup {0}, dirty : BOOLEAN]

ListingRows == [price : Prices, discounted : Nat, dirty : BOOLEAN, applied : [Rules -> Nat]]

Singletons == {{r} : r \in Rules}
RuleItems == [do : {"delete", "set variants"}, rules : Singletons, products : SUBSET Products]
MarkItems == [do : {"mark rules"}, rules : Singletons, products : {{}}]
ActiveItems == [do : {"mark active"}, rules : {{}}, products : {{}}]
ProductItems == [do : {"mark products"}, rules : {{}}, products : SUBSET Products]
Items == RuleItems \cup MarkItems \cup ActiveItems \cup ProductItems

\* Relations of some rules to products.
Relations == UNION {[D -> SUBSET Products] : D \in SUBSET Rules}
Amounts == UNION {[D -> Nat] : D \in SUBSET Products}
WinnerMaps == UNION {[D -> SUBSET Rules] : D \in SUBSET Products}

ToggleJobs == [at : {"toggled", "notify"}, rules : SUBSET Rules, seen : Nat]
ClearJobs == [at : {"mark expired", "clear expired"}, since : Nat, pairs : Relations]
RuleJobs == [at : {"relate", "clear rules"}, picks : Relations, products : SUBSET Products,
             stale : SUBSET Rules]
TouchJobs == [at : {"mark touched"}, products : SUBSET Products]
WriteJobs == [at : {"write"}, stale : SUBSET Products, winner : WinnerMaps,
              had : SUBSET Products, found : Amounts, amount : Amounts]
PriceJobs == [at : {"clear prices"}, stale : SUBSET Products, products : SUBSET Products]

Jobs == {Idle} \cup ToggleJobs \cup ClearJobs \cup RuleJobs \cup TouchJobs
          \cup WriteJobs \cup PriceJobs

Clock == /\ now \in 0 .. MaxTime /\ calls \in 0 .. MaxCalls
         /\ promotion \in [Rules -> Promotions]
         /\ \A r \in Rules : promotion[r].notified <= now
RulesOK == rule \in [Rules -> RuleRows]
ListingsOK == listing \in [Products -> ListingRows]
TodoOK == todo \subseteq Items
JobsOK == job \in [Workers -> Jobs]
HistoryOK == /\ clearing \in BOOLEAN /\ missed \in BOOLEAN /\ withdrawn \in BOOLEAN
             /\ crossed \subseteq Products

Types == Clock /\ RulesOK /\ ListingsOK /\ TodoOK /\ JobsOK /\ HistoryOK

-----------------------------------------------------------------------------
(* The largest of some discounts.                                          *)

\* The maximum of a set of bounded numbers is one of them, and no other is larger.
LEMMA MaxIs ==
  ASSUME NEW n \in Nat, NEW S \in SUBSET (0 .. n), S # {}
  PROVE  Max(S) \in S /\ \A y \in S : y <= Max(S)
<1> DEFINE T == {n - x : x \in S}
<1>1. T \in SUBSET Nat /\ T # {}
  OBVIOUS
<1>2. PICK t \in T : \A u \in T : t <= u
  <2> HIDE DEF T
  <2> QED BY <1>1, LeastElement
<1>3. PICK x \in S : t = n - x
  BY <1>2
<1>4. \A y \in S : x >= y
  BY <1>2, <1>3
<1> HIDE DEF T
<1>5. \E z \in S : \A y \in S : z >= y
  BY <1>4
<1>6. Max(S) \in S /\ \A y \in S : Max(S) >= y
  BY <1>5 DEF Max
<1> QED
  BY <1>6

\* What is at least as large as all of a set, and in it, is its maximum.
LEMMA MaxEquals ==
  ASSUME NEW S \in SUBSET Nat, NEW x \in S, \A y \in S : y <= x
  PROVE  Max(S) = x
<1>1. \A y \in S : x >= y
  OBVIOUS
<1>2. \E z \in S : \A y \in S : z >= y
  BY <1>1
<1>3. Max(S) \in S /\ \A y \in S : Max(S) >= y
  BY <1>2 DEF Max
<1>4. Max(S) \in Nat /\ x \in Nat /\ Max(S) >= x /\ Max(S) <= x
  BY <1>3
<1> QED
  BY <1>4

\* A rule takes off something between nothing and the price.
LEMMA CutIs ==
  ASSUME PromotionAssumption, RulesOK, NEW r \in Rules, NEW n \in Nat
  PROVE  Cut(r, n) \in 0 .. n
<1>1. rule[r] \in RuleRows
  BY DEF RulesOK
<1>2. rule[r].reward \in Rewards \cup {0}
  BY <1>1 DEF RuleRows
<1>3. Rewards \subseteq Nat
  BY DEF PromotionAssumption
<1>4. 0 \in Nat
  OBVIOUS
<1>5. rule[r].reward \in Nat
  BY <1>2, <1>3, <1>4, Zenon
<1> QED
  BY <1>5 DEF Cut

\* The largest discount is that of one of the rules, or none.
LEMMA LargestIs ==
  ASSUME PromotionAssumption, RulesOK, NEW rs \in SUBSET Rules, NEW n \in Nat
  PROVE  /\ Largest(rs, n) \in 0 .. n
         /\ Largest(rs, n) = 0 \/ \E r \in rs : Largest(rs, n) = Cut(r, n)
         /\ \A r \in rs : Cut(r, n) <= Largest(rs, n)
<1> DEFINE S == {0} \cup {Cut(r, n) : r \in rs}
<1>1. S \in SUBSET (0 .. n) /\ S # {}
  BY CutIs
<1>2. Max(S) \in S /\ \A y \in S : y <= Max(S)
  <2> HIDE DEF S
  <2> QED BY <1>1, MaxIs
<1>3. Largest(rs, n) = Max(S)
  BY DEF Largest
<1> QED
  BY <1>1, <1>2, <1>3

-----------------------------------------------------------------------------
(* What a job is, by its stage.                                            *)

JobStages ==
  \A j \in Jobs :
    /\ j.at = "idle" => j = Idle
    /\ j.at \in {"toggled", "notify"} => j \in ToggleJobs
    /\ j.at \in {"mark expired", "clear expired"} => j \in ClearJobs
    /\ j.at \in {"relate", "clear rules"} => j \in RuleJobs
    /\ j.at = "mark touched" => j \in TouchJobs
    /\ j.at = "write" => j \in WriteJobs
    /\ j.at = "clear prices" => j \in PriceJobs

LEMMA StageOf ==
  /\ Idle.at = "idle"
  /\ \A j \in ToggleJobs : j.at \in {"toggled", "notify"}
  /\ \A j \in ClearJobs : j.at \in {"mark expired", "clear expired"}
  /\ \A j \in RuleJobs : j.at \in {"relate", "clear rules"}
  /\ \A j \in TouchJobs : j.at = "mark touched"
  /\ \A j \in WriteJobs : j.at = "write"
  /\ \A j \in PriceJobs : j.at = "clear prices"
BY DEF Idle, ToggleJobs, ClearJobs, RuleJobs, TouchJobs, WriteJobs, PriceJobs

LEMMA StageIs == JobStages
BY StageOf DEF JobStages, Jobs

LEMMA JobIs ==
  ASSUME JobsOK, NEW w \in Workers
  PROVE  /\ job[w] \in Jobs
         /\ job[w].at = "idle" => job[w] = Idle
         /\ job[w].at \in {"toggled", "notify"} => job[w] \in ToggleJobs
         /\ job[w].at \in {"mark expired", "clear expired"} => job[w] \in ClearJobs
         /\ job[w].at \in {"relate", "clear rules"} => job[w] \in RuleJobs
         /\ job[w].at = "mark touched" => job[w] \in TouchJobs
         /\ job[w].at = "write" => job[w] \in WriteJobs
         /\ job[w].at = "clear prices" => job[w] \in PriceJobs
<1>1. job[w] \in Jobs
  BY DEF JobsOK
<1> QED
  BY <1>1, StageIs DEF JobStages

\* What overtakes a task only adds to what it does not know.
Grown(j, k, marked) ==
  /\ k.at = j.at
  /\ j \in {Idle} \cup ToggleJobs \cup ClearJobs \cup TouchJobs => k = j
  /\ j \in RuleJobs => /\ k \in RuleJobs /\ k.picks = j.picks /\ k.products = j.products
                       /\ k.stale = j.stale \cup marked
  /\ j \in WriteJobs => /\ k \in WriteJobs
                        /\ k.winner = j.winner /\ k.had = j.had
                        /\ k.found = j.found /\ k.amount = j.amount
                        /\ k.stale = j.stale \cup marked
  /\ j \in PriceJobs => /\ k \in PriceJobs /\ k.products = j.products
                        /\ k.stale = j.stale \cup marked

LEMMA GrownSelf ==
  ASSUME NEW j \in Jobs
  PROVE  Grown(j, j, {})
BY DEF Grown, Jobs

LEMMA GrownRule ==
  ASSUME NEW j \in RuleJobs, NEW marked \in SUBSET Rules
  PROVE  Grown(j, [j EXCEPT !.stale = @ \cup marked], marked)
<1> DEFINE k == [j EXCEPT !.stale = @ \cup marked]
<1> SUFFICES Grown(j, k, marked)
  OBVIOUS
<1>1. /\ k \in RuleJobs /\ k.at = j.at /\ k.picks = j.picks /\ k.products = j.products
      /\ k.stale = j.stale \cup marked
  BY DEF RuleJobs
<1>2. j \notin {Idle} \cup ToggleJobs \cup ClearJobs \cup TouchJobs \cup WriteJobs \cup PriceJobs
  BY StageOf
<1> HIDE DEF k
<1> QED
  BY <1>1, <1>2 DEF Grown

LEMMA GrownPrice ==
  ASSUME NEW j \in WriteJobs \cup PriceJobs, NEW marked \in SUBSET Products
  PROVE  Grown(j, [j EXCEPT !.stale = @ \cup marked], marked)
<1> DEFINE k == [j EXCEPT !.stale = @ \cup marked]
<1> SUFFICES Grown(j, k, marked)
  OBVIOUS
<1>1. CASE j \in WriteJobs
  <2>1. /\ k \in WriteJobs /\ k.at = j.at /\ k.winner = j.winner /\ k.had = j.had
        /\ k.found = j.found /\ k.amount = j.amount /\ k.stale = j.stale \cup marked
    BY <1>1 DEF WriteJobs
  <2>2. j \notin {Idle} \cup ToggleJobs \cup ClearJobs \cup TouchJobs \cup RuleJobs \cup PriceJobs
    BY <1>1, StageOf
  <2> HIDE DEF k
  <2> QED
    BY <2>1, <2>2 DEF Grown
<1>2. CASE j \in PriceJobs
  <2>1. /\ k \in PriceJobs /\ k.at = j.at /\ k.products = j.products
        /\ k.stale = j.stale \cup marked
    BY <1>2 DEF PriceJobs
  <2>2. j \notin {Idle} \cup ToggleJobs \cup ClearJobs \cup TouchJobs \cup RuleJobs \cup WriteJobs
    BY <1>2, StageOf
  <2> HIDE DEF k
  <2> QED
    BY <2>1, <2>2 DEF Grown
<1> QED
  BY <1>1, <1>2

\* Tasks that are overtaken by marks of rules ...
LEMMA OvertakenRules ==
  ASSUME JobsOK, NEW marked \in SUBSET Rules,
         NEW kind \in SUBSET {"relate", "clear rules"}
  PROVE  /\ DOMAIN Overtaken(kind, marked) = Workers
         /\ \A w \in Workers : Grown(job[w], Overtaken(kind, marked)[w],
                                     IF job[w].at \in kind THEN marked ELSE {})
<1>1. DOMAIN Overtaken(kind, marked) = Workers
  BY DEF Overtaken
<1>2. ASSUME NEW w \in Workers, job[w].at \in kind
      PROVE  Grown(job[w], Overtaken(kind, marked)[w], marked)
  <2>1. job[w] \in RuleJobs
    BY <1>2, JobIs
  <2>2. Overtaken(kind, marked)[w] = [job[w] EXCEPT !.stale = @ \cup marked]
    BY <1>2 DEF Overtaken
  <2> QED BY <2>1, <2>2, GrownRule
<1>3. ASSUME NEW w \in Workers, job[w].at \notin kind
      PROVE  Grown(job[w], Overtaken(kind, marked)[w], {})
  <2>1. Overtaken(kind, marked)[w] = job[w]
    BY <1>3 DEF Overtaken
  <2> QED BY <2>1, GrownSelf, JobIs
<1> QED
  BY <1>1, <1>2, <1>3

\* ... and of products.
LEMMA OvertakenPrices ==
  ASSUME JobsOK, NEW marked \in SUBSET Products
  PROVE  /\ DOMAIN Overtaken({"write", "clear prices"}, marked) = Workers
         /\ \A w \in Workers :
              Grown(job[w], Overtaken({"write", "clear prices"}, marked)[w],
                    IF job[w].at \in {"write", "clear prices"} THEN marked ELSE {})
<1> DEFINE kind == {"write", "clear prices"}
<1>1. DOMAIN Overtaken(kind, marked) = Workers
  BY DEF Overtaken
<1>2. ASSUME NEW w \in Workers, job[w].at \in kind
      PROVE  Grown(job[w], Overtaken(kind, marked)[w], marked)
  <2>1. job[w] \in WriteJobs \cup PriceJobs
    BY <1>2, JobIs
  <2>2. Overtaken(kind, marked)[w] = [job[w] EXCEPT !.stale = @ \cup marked]
    BY <1>2 DEF Overtaken
  <2> HIDE DEF kind
  <2> QED BY <2>1, <2>2, GrownPrice
<1>3. ASSUME NEW w \in Workers, job[w].at \notin kind
      PROVE  Grown(job[w], Overtaken(kind, marked)[w], {})
  <2>1. Overtaken(kind, marked)[w] = job[w]
    BY <1>3 DEF Overtaken
  <2> HIDE DEF kind
  <2> QED BY <2>1, GrownSelf, JobIs
<1> QED
  BY <1>1, <1>2, <1>3

-----------------------------------------------------------------------------
(* What the steps make of the jobs.                                        *)

\* The jobs of all workers but w stay, or are overtaken by marks.
Others(w, kind, marked) ==
  \A v \in Workers \ {w} :
    Grown(job[v], job'[v], IF job[v].at \in kind THEN marked ELSE {})

Everyone(kind, marked) ==
  \A v \in Workers : Grown(job[v], job'[v], IF job[v].at \in kind THEN marked ELSE {})

RuleKinds == {"relate", "clear rules"}
PriceKinds == {"write", "clear prices"}

LEMMA GrownIs ==
  ASSUME NEW j \in Jobs, NEW k, NEW marked, Grown(j, k, marked)
  PROVE  k \in Jobs
BY DEF Grown, Jobs

\* One worker takes another job.
LEMMA SetJob ==
  ASSUME JobsOK, NEW w \in Workers, NEW state \in Jobs, Set(w, state)
  PROVE  /\ JobsOK' /\ job'[w] = state
         /\ \A v \in Workers \ {w} : job'[v] = job[v]
         /\ Others(w, {}, {})
<1>1. JobsOK' /\ job'[w] = state
  BY DEF JobsOK, Set
<1>2. \A v \in Workers \ {w} : job'[v] = job[v] /\ job[v] \in Jobs
  BY DEF JobsOK, Set
<1>3. \A v \in Workers \ {w} : Grown(job[v], job'[v], {})
  BY <1>2, GrownSelf
<1> QED
  BY <1>1, <1>2, <1>3 DEF Others

\* Marks of rules overtake all tasks that have read rules.
LEMMA RulesOvertake ==
  ASSUME JobsOK, NEW marked \in SUBSET Rules, NEW kind \in SUBSET RuleKinds,
         job' = Overtaken(kind, marked)
  PROVE  JobsOK' /\ Everyone(kind, marked)
<1>1. Everyone(kind, marked)
  BY OvertakenRules DEF Everyone, RuleKinds
<1>2. \A v \in Workers : job'[v] \in Jobs
  <2>1. ASSUME NEW v \in Workers
        PROVE  job'[v] \in Jobs
    <3>1. Grown(job[v], job'[v], IF job[v].at \in kind THEN marked ELSE {})
      BY <1>1 DEF Everyone
    <3> QED BY <3>1, GrownIs, JobIs
  <2> QED BY <2>1
<1>3. job' = [v \in Workers |-> job'[v]]
  BY DEF Overtaken
<1> QED
  BY <1>1, <1>2, <1>3 DEF JobsOK

LEMMA PricesOvertake ==
  ASSUME JobsOK, NEW marked \in SUBSET Products,
         job' = Overtaken(PriceKinds, marked)
  PROVE  JobsOK' /\ Everyone(PriceKinds, marked)
<1>1. Everyone(PriceKinds, marked)
  BY OvertakenPrices DEF Everyone, PriceKinds
<1>2. \A v \in Workers : job'[v] \in Jobs
  <2>1. ASSUME NEW v \in Workers
        PROVE  job'[v] \in Jobs
    <3>1. Grown(job[v], job'[v], IF job[v].at \in PriceKinds THEN marked ELSE {})
      BY <1>1 DEF Everyone
    <3> QED BY <3>1, GrownIs, JobIs
  <2> QED BY <2>1
<1>3. job' = [v \in Workers |-> job'[v]]
  BY DEF Overtaken
<1> QED
  BY <1>1, <1>2, <1>3 DEF JobsOK

\* Marks overtake the others, while worker w goes to its next stage.
LEMMA RulesOvertakeOthers ==
  ASSUME JobsOK, NEW w \in Workers, NEW state \in Jobs,
         NEW marked \in SUBSET Rules, NEW kind \in SUBSET RuleKinds,
         job' = [Overtaken(kind, marked) EXCEPT ![w] = state]
  PROVE  /\ JobsOK' /\ job'[w] = state /\ Others(w, kind, marked)
<1> DEFINE over == Overtaken(kind, marked)
<1>1. /\ DOMAIN over = Workers
      /\ \A v \in Workers : Grown(job[v], over[v], IF job[v].at \in kind THEN marked ELSE {})
  BY OvertakenRules DEF RuleKinds
<1>2. over = [v \in Workers |-> over[v]]
  BY DEF Overtaken
<1>3. \A v \in Workers : over[v] \in Jobs
  <2> HIDE DEF over
  <2>1. ASSUME NEW v \in Workers
        PROVE  over[v] \in Jobs
    <3>1. Grown(job[v], over[v], IF job[v].at \in kind THEN marked ELSE {})
      BY <1>1
    <3> QED BY <3>1, GrownIs, JobIs
  <2> QED BY <2>1
<1>4. job' = [over EXCEPT ![w] = state]
  OBVIOUS
<1> HIDE DEF over
<1>5. over \in [Workers -> Jobs]
  BY <1>2, <1>3
<1>6. job' \in [Workers -> Jobs] /\ job'[w] = state
  BY <1>4, <1>5
<1>7. \A v \in Workers \ {w} : job'[v] = over[v]
  BY <1>4, <1>5
<1> QED
  BY <1>1, <1>6, <1>7 DEF Others, JobsOK

LEMMA PricesOvertakeOthers ==
  ASSUME JobsOK, NEW w \in Workers, NEW state \in Jobs, NEW marked \in SUBSET Products,
         job' = [Overtaken(PriceKinds, marked) EXCEPT ![w] = state]
  PROVE  /\ JobsOK' /\ job'[w] = state /\ Others(w, PriceKinds, marked)
<1> DEFINE over == Overtaken(PriceKinds, marked)
<1>1. /\ DOMAIN over = Workers
      /\ \A v \in Workers : Grown(job[v], over[v],
                                  IF job[v].at \in PriceKinds THEN marked ELSE {})
  BY OvertakenPrices DEF PriceKinds
<1>2. over = [v \in Workers |-> over[v]]
  BY DEF Overtaken
<1>3. \A v \in Workers : over[v] \in Jobs
  <2> HIDE DEF over
  <2>1. ASSUME NEW v \in Workers
        PROVE  over[v] \in Jobs
    <3>1. Grown(job[v], over[v], IF job[v].at \in PriceKinds THEN marked ELSE {})
      BY <1>1
    <3> QED BY <3>1, GrownIs, JobIs
  <2> QED BY <2>1
<1>4. job' = [over EXCEPT ![w] = state]
  OBVIOUS
<1> HIDE DEF over
<1>5. over \in [Workers -> Jobs]
  BY <1>2, <1>3
<1>6. job' \in [Workers -> Jobs] /\ job'[w] = state
  BY <1>4, <1>5
<1>7. \A v \in Workers \ {w} : job'[v] = over[v]
  BY <1>4, <1>5
<1> QED
  BY <1>1, <1>6, <1>7 DEF Others, JobsOK

-----------------------------------------------------------------------------
(* The job of the worker that takes a step.                                *)

LEMMA ReadTogglesJob ==
  ASSUME Types, NEW w \in Workers, ReadToggles(w)
  PROVE  /\ JobsOK' /\ Others(w, {}, {}) /\ job[w] = Idle
         /\ job'[w] = [at |-> "toggled", rules |-> Starting \cup Ending, seen |-> now]
<1> DEFINE state == [at |-> "toggled", rules |-> Starting \cup Ending, seen |-> now]
<1>1. Starting \cup Ending \subseteq Rules
  BY DEF Starting, Ending
<1>2. now \in Nat
  BY DEF Types, Clock
<1>3. state \in Jobs
  BY <1>1, <1>2 DEF Jobs, ToggleJobs
<1>4. Set(w, state) /\ job[w] = Idle
  BY DEF ReadToggles, Start
<1> HIDE DEF state
<1>5. JobsOK' /\ Others(w, {}, {}) /\ job'[w] = state
  BY <1>3, <1>4, SetJob DEF Types
<1> QED
  BY <1>4, <1>5 DEF state

LEMMA NextStage ==
  ASSUME JobsOK, NEW w \in Workers
  PROVE  /\ At(w, "toggled") => [job[w] EXCEPT !.at = "notify"] \in ToggleJobs
         /\ At(w, "mark expired") => [job[w] EXCEPT !.at = "clear expired"] \in ClearJobs
         /\ At(w, "relate") => [job[w] EXCEPT !.at = "clear rules"] \in RuleJobs
<1>1. /\ At(w, "toggled") => job[w] \in ToggleJobs
      /\ At(w, "mark expired") => job[w] \in ClearJobs
      /\ At(w, "relate") => job[w] \in RuleJobs
  BY JobIs DEF At
<1>2. ASSUME job[w] \in ToggleJobs
      PROVE  [job[w] EXCEPT !.at = "notify"] \in ToggleJobs
  BY <1>2 DEF ToggleJobs
<1>3. ASSUME job[w] \in ClearJobs
      PROVE  [job[w] EXCEPT !.at = "clear expired"] \in ClearJobs
  BY <1>3 DEF ClearJobs
<1>4. ASSUME job[w] \in RuleJobs
      PROVE  [job[w] EXCEPT !.at = "clear rules"] \in RuleJobs
  BY <1>4 DEF RuleJobs
<1> QED
  BY <1>1, <1>2, <1>3, <1>4

LEMMA MarkToggledJob ==
  ASSUME Types, NEW w \in Workers, MarkToggled(w)
  PROVE  /\ JobsOK' /\ Others(w, RuleKinds, job[w].rules)
         /\ job[w] \in ToggleJobs /\ job'[w] \in ToggleJobs
         /\ job[w].at = "toggled" /\ job'[w].at = "notify"
         /\ job'[w].rules = job[w].rules /\ job'[w].seen = job[w].seen
<1> DEFINE over == Overtaken(RuleKinds, job[w].rules)
           state == [job[w] EXCEPT !.at = "notify"]
<1>1. JobsOK /\ job[w].at = "toggled"
  BY DEF Types, MarkToggled, At
<1>2. job[w] \in ToggleJobs
  BY <1>1, JobIs
<1>3. state \in ToggleJobs
  BY <1>1, NextStage DEF At
<1>4. over[w] = job[w]
  BY <1>1 DEF Overtaken, RuleKinds
<1>5. over = [v \in Workers |-> over[v]]
  BY DEF Overtaken
<1>6. job' = [over EXCEPT ![w].at = "notify"]
  BY DEF MarkToggled, RuleKinds
<1>7. job' = [over EXCEPT ![w] = state]
  <2> HIDE DEF over
  <2> QED BY <1>4, <1>5, <1>6
<1>8. job[w].rules \in SUBSET Rules /\ state \in Jobs /\ RuleKinds \in SUBSET RuleKinds
  BY <1>2, <1>3 DEF ToggleJobs, Jobs
<1>9. /\ state.at = "notify" /\ state.rules = job[w].rules /\ state.seen = job[w].seen
  BY <1>2 DEF ToggleJobs
<1> HIDE DEF state
<1>10. /\ JobsOK' /\ job'[w] = state /\ Others(w, RuleKinds, job[w].rules)
  BY <1>1, <1>7, <1>8, RulesOvertakeOthers
<1> QED
  BY <1>1, <1>2, <1>3, <1>9, <1>10

LEMMA NotifyJob ==
  ASSUME Types, NEW w \in Workers, Notify(w)
  PROVE  /\ JobsOK' /\ Others(w, {}, {}) /\ job'[w] = Idle
         /\ job[w] \in ToggleJobs /\ job[w].at = "notify"
BY SetJob, JobIs DEF Types, Notify, Jobs, At

LEMMA ClearReadJob ==
  ASSUME Types, NEW w \in Workers, ClearRead(w)
  PROVE  /\ JobsOK' /\ Others(w, {}, {}) /\ job[w] = Idle
         /\ \/ /\ \A r \in Rules : ~(Expired(r) /\ rule[r].variants # {})
               /\ job' = job
            \/ /\ job'[w] \in ClearJobs /\ job'[w].at = "mark expired"
               /\ \A r \in DOMAIN job'[w].pairs : r \in Rules /\ Expired(r)
               /\ job'[w].since = now
<1> DEFINE expired == {r \in Rules : Expired(r) /\ rule[r].variants # {}}
           state == [at |-> "mark expired", since |-> now,
                     pairs |-> [r \in expired |-> rule[r].variants]]
<1>1. JobsOK /\ job[w] = Idle
  BY DEF Types, ClearRead, Start
<1>2. CASE expired = {}
  <2>1. job' = job
    BY <1>2 DEF ClearRead
  <2>2. Others(w, {}, {})
    BY <1>1, <2>1, GrownSelf, JobIs DEF Others
  <2>3. JobsOK'
    BY <1>1, <2>1 DEF JobsOK
  <2> QED
    BY <1>1, <1>2, <2>1, <2>2, <2>3
<1>3. CASE expired # {}
  <2>1. \A r \in Rules : rule[r].variants \in SUBSET Products
    BY DEF Types, RulesOK, RuleRows
  <2>2. [r \in expired |-> rule[r].variants] \in Relations
    <3>1. expired \in SUBSET Rules
      OBVIOUS
    <3>2. [r \in expired |-> rule[r].variants] \in [expired -> SUBSET Products]
      BY <2>1
    <3> HIDE DEF expired
    <3> QED BY <3>1, <3>2 DEF Relations
  <2>3. state \in ClearJobs
    <3>1. now \in Nat
      BY DEF Types, Clock
    <3> HIDE DEF expired
    <3> QED BY <2>2, <3>1 DEF ClearJobs
  <2>4. Set(w, state)
    BY <1>3 DEF ClearRead
  <2>5. state.at = "mark expired" /\ DOMAIN state.pairs = expired /\ state.since = now
    OBVIOUS
  <2>6. state \in Jobs
    <3> HIDE DEF state
    <3> QED BY <2>3 DEF Jobs
  <2> HIDE DEF state
  <2>7. JobsOK' /\ Others(w, {}, {}) /\ job'[w] = state
    BY <1>1, <2>4, <2>6, SetJob
  <2> QED
    BY <1>1, <2>3, <2>5, <2>7
<1> QED
  BY <1>2, <1>3

\* Products of the rules that ended by time t, which ClearMark marks.
OfExpired(t) == UNION {rule[r].variants : r \in {r \in Rules : ExpiredBy(r, t)}}

LEMMA OfExpiredIs ==
  ASSUME RulesOK, NEW t
  PROVE  /\ OfExpired(t) \in SUBSET Products
         /\ \A r \in Rules : ExpiredBy(r, t) => rule[r].variants \subseteq OfExpired(t)
<1>1. \A r \in Rules : rule[r].variants \in SUBSET Products
  BY DEF RulesOK, RuleRows
<1> QED
  BY <1>1 DEF OfExpired

LEMMA ClearMarkJob ==
  ASSUME Types, NEW w \in Workers, ClearMark(w)
  PROVE  /\ JobsOK' /\ Others(w, PriceKinds, OfExpired(job[w].since))
         /\ job[w] \in ClearJobs /\ job'[w] \in ClearJobs
         /\ job[w].at = "mark expired" /\ job'[w].at = "clear expired"
         /\ job'[w].pairs = job[w].pairs /\ job'[w].since = job[w].since
<1> DEFINE over == Overtaken(PriceKinds, OfExpired(job[w].since))
           state == [job[w] EXCEPT !.at = "clear expired"]
<1>1. JobsOK /\ job[w].at = "mark expired"
  BY DEF Types, ClearMark, At
<1>2. job[w] \in ClearJobs
  BY <1>1, JobIs
<1>3. state \in ClearJobs
  BY <1>1, NextStage DEF At
<1>4. over[w] = job[w]
  BY <1>1 DEF Overtaken, PriceKinds
<1>5. over = [v \in Workers |-> over[v]]
  BY DEF Overtaken
<1>6. job' = [over EXCEPT ![w].at = "clear expired"]
  BY DEF ClearMark, PriceKinds, OfExpired
<1>7. job' = [over EXCEPT ![w] = state]
  <2> HIDE DEF over
  <2> QED BY <1>4, <1>5, <1>6
<1>8. OfExpired(job[w].since) \in SUBSET Products /\ state \in Jobs
  BY <1>3, OfExpiredIs DEF Types, Jobs
<1>9. /\ state.at = "clear expired" /\ state.pairs = job[w].pairs
      /\ state.since = job[w].since
  BY <1>2 DEF ClearJobs
<1> HIDE DEF state
<1>10. /\ JobsOK' /\ job'[w] = state /\ Others(w, PriceKinds, OfExpired(job[w].since))
  BY <1>1, <1>7, <1>8, PricesOvertakeOthers
<1> QED
  BY <1>1, <1>2, <1>3, <1>9, <1>10

LEMMA ClearDeleteJob ==
  ASSUME Types, NEW w \in Workers, ClearDelete(w)
  PROVE  /\ JobsOK' /\ Others(w, {}, {}) /\ job'[w] = Idle
         /\ job[w] \in ClearJobs /\ job[w].at = "clear expired"
BY SetJob, JobIs DEF Types, ClearDelete, Jobs, At

\* What Select reads.
Selected == {r \in Rules : Active(r) /\ rule[r].dirty}

LEMMA SelectJob ==
  ASSUME Types, NEW w \in Workers, Select(w)
  PROVE  /\ JobsOK' /\ Others(w, {}, {}) /\ job[w] = Idle
         /\ job'[w] \in RuleJobs /\ job'[w].at = "relate"
         /\ DOMAIN job'[w].picks = Selected /\ job'[w].stale = {}
         /\ \A r \in Selected : /\ job'[w].picks[r] = rule[r].predicate
                                /\ Touched(r) \subseteq job'[w].products
<1> DEFINE picks == [r \in Selected |-> rule[r].predicate]
           products == UNION {Touched(r) : r \in Selected}
           state == [at |-> "relate", picks |-> picks, products |-> products, stale |-> {}]
<1>1. JobsOK /\ job[w] = Idle
  BY DEF Types, Select, Start
<1>2. \A r \in Rules : rule[r].predicate \in SUBSET Products /\ Touched(r) \in SUBSET Products
  BY DEF Types, RulesOK, RuleRows, Touched
<1>3. Selected \in SUBSET Rules
  BY DEF Selected
<1>4. picks \in [Selected -> SUBSET Products]
  BY <1>2, <1>3
<1>5. picks \in Relations
  <2> HIDE DEF picks
  <2> QED BY <1>3, <1>4 DEF Relations
<1>6. products \in SUBSET Products
  BY <1>2, <1>3
<1>7. \A r \in Selected : Touched(r) \subseteq products
  OBVIOUS
<1>8. Set(w, state)
  BY DEF Select, Selected
<1>9. DOMAIN picks = Selected /\ \A r \in Selected : picks[r] = rule[r].predicate
  OBVIOUS
<1> HIDE DEF picks, products
<1>10. state \in RuleJobs
  BY <1>5, <1>6 DEF RuleJobs
<1>11. /\ state.at = "relate" /\ state.picks = picks /\ state.products = products
       /\ state.stale = {}
  OBVIOUS
<1>12. state \in Jobs
  <2> HIDE DEF state
  <2> QED BY <1>10 DEF Jobs
<1> HIDE DEF state
<1>13. JobsOK' /\ Others(w, {}, {}) /\ job'[w] = state
  BY <1>1, <1>8, <1>12, SetJob
<1> QED
  BY <1>1, <1>7, <1>9, <1>10, <1>11, <1>13

\* What a job has picked.
LEMMA PicksOf ==
  ASSUME NEW j \in RuleJobs
  PROVE  /\ DOMAIN j.picks \in SUBSET Rules
         /\ \A r \in DOMAIN j.picks : j.picks[r] \in SUBSET Products
         /\ j.products \in SUBSET Products /\ j.stale \in SUBSET Rules
<1>1. j.picks \in Relations /\ j.products \in SUBSET Products /\ j.stale \in SUBSET Rules
  BY DEF RuleJobs
<1>2. PICK D \in SUBSET Rules : j.picks \in [D -> SUBSET Products]
  BY <1>1 DEF Relations
<1> QED
  BY <1>1, <1>2

LEMMA ClearKind ==
  ASSUME NEW j \in Jobs, j.at \in {"mark expired", "clear expired"}
  PROVE  j \in ClearJobs
BY StageIs DEF JobStages

LEMMA PairsOf ==
  ASSUME NEW j \in ClearJobs
  PROVE  /\ DOMAIN j.pairs \in SUBSET Rules
         /\ \A r \in DOMAIN j.pairs : j.pairs[r] \in SUBSET Products
<1>1. j.pairs \in Relations
  BY DEF ClearJobs
<1>2. PICK D \in SUBSET Rules : j.pairs \in [D -> SUBSET Products]
  BY <1>1 DEF Relations
<1> QED
  BY <1>2

LEMMA RelateJob ==
  ASSUME Types, NEW w \in Workers, Relate(w)
  PROVE  /\ JobsOK' /\ Others(w, {"relate"}, DOMAIN job[w].picks)
         /\ job[w] \in RuleJobs /\ job'[w] \in RuleJobs
         /\ job[w].at = "relate" /\ job'[w].at = "clear rules"
         /\ job'[w].picks = job[w].picks /\ job'[w].products = job[w].products
         /\ job'[w].stale = job[w].stale
<1> DEFINE state == [job[w] EXCEPT !.at = "clear rules"]
           marked == DOMAIN job[w].picks
<1>1. JobsOK /\ job[w].at = "relate"
  BY DEF Types, Relate, At
<1>2. job[w] \in RuleJobs
  BY <1>1, JobIs
<1>3. state \in RuleJobs
  BY <1>1, NextStage DEF At
<1>4. marked \in SUBSET Rules
  BY <1>2, PicksOf
<1>5. job' = [Overtaken({"relate"}, marked) EXCEPT ![w] = state]
  BY DEF Relate
<1>6. /\ state.at = "clear rules" /\ state.picks = job[w].picks
      /\ state.products = job[w].products /\ state.stale = job[w].stale
  BY <1>2 DEF RuleJobs
<1>7. {"relate"} \in SUBSET RuleKinds
  BY DEF RuleKinds
<1> HIDE DEF state, marked
<1>8. state \in Jobs
  BY <1>3 DEF Jobs
<1>9. /\ JobsOK' /\ job'[w] = state /\ Others(w, {"relate"}, marked)
  BY <1>1, <1>4, <1>5, <1>7, <1>8, RulesOvertakeOthers
<1> QED
  BY <1>1, <1>2, <1>3, <1>6, <1>9 DEF marked

LEMMA ClearRulesJob ==
  ASSUME Types, NEW w \in Workers, ClearRules(w)
  PROVE  /\ JobsOK' /\ Others(w, {}, {})
         /\ job[w] \in RuleJobs /\ job[w].at = "clear rules"
         /\ job'[w] \in TouchJobs /\ job'[w].at = "mark touched"
         /\ job'[w].products = job[w].products
<1> DEFINE state == [at |-> "mark touched", products |-> job[w].products]
<1>1. JobsOK /\ job[w].at = "clear rules" /\ Set(w, state)
  BY DEF Types, ClearRules, At
<1>2. job[w] \in RuleJobs
  BY <1>1, JobIs
<1>3. state \in TouchJobs /\ state.at = "mark touched" /\ state.products = job[w].products
  BY <1>2, PicksOf DEF TouchJobs
<1> HIDE DEF state
<1>4. state \in Jobs
  BY <1>3 DEF Jobs
<1> QED
  BY <1>1, <1>2, <1>3, <1>4, SetJob

LEMMA MarkTouchedJob ==
  ASSUME Types, NEW w \in Workers, MarkTouched(w)
  PROVE  /\ JobsOK' /\ Others(w, PriceKinds, job[w].products) /\ job'[w] = Idle
         /\ job[w] \in TouchJobs /\ job[w].at = "mark touched"
         /\ job[w].products \in SUBSET Products
<1> DEFINE marked == job[w].products
<1>1. JobsOK /\ job[w].at = "mark touched"
  BY DEF Types, MarkTouched, At
<1>2. job[w] \in TouchJobs
  BY <1>1, JobIs
<1>3. job[w].products \in SUBSET Products
  BY <1>2 DEF TouchJobs
<1>4. job' = [Overtaken(PriceKinds, job[w].products) EXCEPT ![w] = Idle]
  BY DEF MarkTouched, PriceKinds
<1>5. Idle \in Jobs
  BY DEF Jobs
<1>6. marked \in SUBSET Products /\ job' = [Overtaken(PriceKinds, marked) EXCEPT ![w] = Idle]
  BY <1>3, <1>4
<1> HIDE DEF marked
<1>7. JobsOK' /\ job'[w] = Idle /\ Others(w, PriceKinds, marked)
  BY <1>1, <1>5, <1>6, PricesOvertakeOthers
<1> QED
  BY <1>1, <1>2, <1>3, <1>7 DEF marked

\* The price of a product by the rules that apply to it.
Calc(p) == listing[p].price - Largest(Applicable(p), listing[p].price)

Dirty == {p \in Products : listing[p].dirty}
Changed == {p \in Dirty : listing[p].discounted # Calc(p)}

LEMMA PricesAre ==
  ASSUME PromotionAssumption, Types, NEW p \in Products
  PROVE  /\ listing[p] \in ListingRows
         /\ listing[p].price \in Nat /\ listing[p].price > 0
         /\ listing[p].discounted \in Nat /\ listing[p].dirty \in BOOLEAN
         /\ listing[p].applied \in [Rules -> Nat]
         /\ Applicable(p) \in SUBSET Rules
         /\ Calc(p) \in Nat /\ Largest(Applicable(p), listing[p].price) \in Nat
         /\ Calc(p) + Largest(Applicable(p), listing[p].price) = listing[p].price
<1>1. listing[p] \in ListingRows
  BY DEF Types, ListingsOK
<1>2. /\ listing[p].price \in Prices
      /\ listing[p].discounted \in Nat /\ listing[p].dirty \in BOOLEAN
      /\ listing[p].applied \in [Rules -> Nat]
  BY <1>1 DEF ListingRows
<1>3. Prices \subseteq Nat \ {0}
  BY DEF PromotionAssumption
<1>a. \A n \in Prices : n \in Nat /\ n > 0
  BY <1>3
<1>4. listing[p].price \in Nat /\ listing[p].price > 0
  BY <1>2, <1>a
<1>5. Applicable(p) \in SUBSET Rules
  BY DEF Applicable
<1>6. Largest(Applicable(p), listing[p].price) \in 0 .. listing[p].price
  BY <1>4, <1>5, LargestIs DEF Types
<1>7. /\ Calc(p) \in Nat /\ Largest(Applicable(p), listing[p].price) \in Nat
      /\ Calc(p) + Largest(Applicable(p), listing[p].price) = listing[p].price
  BY <1>4, <1>6 DEF Calc
<1> QED
  BY <1>1, <1>2, <1>4, <1>5, <1>7

\* What Compute finds out about the winners of a product.
LEMMA WinnersAre ==
  ASSUME PromotionAssumption, Types, NEW p \in Products, NEW winner \in Winners(p)
  PROVE  /\ winner \in SUBSET Applicable(p)
         /\ \A r, s \in winner : r = s
         /\ winner = {} => Largest(Applicable(p), listing[p].price) = 0
<1>1. CASE Applicable(p) = {}
  <2>1. winner = {}
    BY <1>1 DEF Winners
  <2>2. Largest(Applicable(p), listing[p].price) = 0
    BY <1>1, PricesAre, LargestIs DEF Types
  <2> QED
    BY <2>1, <2>2
<1>2. CASE Applicable(p) # {}
  <2>1. PICK r \in Applicable(p) : winner = {r}
    BY <1>2 DEF Winners
  <2> QED
    BY <2>1
<1> QED
  BY <1>1, <1>2

ComputedJob(w, winner) ==
  /\ job'[w] \in WriteJobs /\ job'[w].at = "write" /\ job'[w].stale = {}
  /\ job'[w].winner = winner
  /\ DOMAIN job'[w].found = Changed /\ DOMAIN job'[w].amount = Dirty
  /\ \A p \in Changed : job'[w].found[p] = Calc(p)
  /\ \A p \in Dirty :
       /\ job'[w].amount[p] = Largest(Applicable(p), listing[p].price)
       /\ p \in job'[w].had <=> \E r \in winner[p] : listing[p].applied[r] > 0

LEMMA ComputeJob ==
  ASSUME PromotionAssumption, Types, NEW w \in Workers, Compute(w)
  PROVE  /\ JobsOK' /\ Others(w, {}, {}) /\ job[w] = Idle
         /\ \E winner \in [Dirty -> SUBSET Rules] :
              /\ \A p \in Dirty : winner[p] \in Winners(p)
              /\ listing' = [p \in Products |->
                   IF p \in Changed
                   THEN [listing[p] EXCEPT !.applied = Rest(@, winner[p])]
                   ELSE listing[p]]
              /\ ComputedJob(w, winner)
<1> DEFINE found == [p \in Changed |-> Calc(p)]
           amount == [p \in Dirty |-> Largest(Applicable(p), listing[p].price)]
           Had(winner) == {p \in Dirty : \E r \in winner[p] : listing[p].applied[r] > 0}
           State(winner) == [at |-> "write", stale |-> {}, winner |-> winner,
                             had |-> Had(winner), found |-> found, amount |-> amount]
<1>1. PICK winner \in [Dirty -> SUBSET Rules] :
        /\ \A p \in Dirty : winner[p] \in Winners(p)
        /\ listing' = [p \in Products |->
             IF p \in Changed
             THEN [listing[p] EXCEPT !.applied = Rest(@, winner[p])]
             ELSE listing[p]]
        /\ Set(w, State(winner))
  BY DEF Compute, Dirty, Changed, Calc
<1>2. JobsOK /\ job[w] = Idle
  BY DEF Types, Compute, Start
<1>3. Dirty \in SUBSET Products /\ Changed \in SUBSET Products
  BY DEF Dirty, Changed
<1>4. found \in Amounts
  <2>1. found \in [Changed -> Nat]
    BY <1>3, PricesAre
  <2> HIDE DEF found
  <2> QED BY <1>3, <2>1 DEF Amounts
<1>5. amount \in Amounts
  <2>1. amount \in [Dirty -> Nat]
    BY <1>3, PricesAre
  <2> HIDE DEF amount
  <2> QED BY <1>3, <2>1 DEF Amounts
<1>6. winner \in WinnerMaps
  BY <1>3 DEF WinnerMaps
<1>7. Had(winner) \in SUBSET Products
  BY <1>3
<1>8. /\ DOMAIN found = Changed /\ DOMAIN amount = Dirty
      /\ \A p \in Changed : found[p] = Calc(p)
      /\ \A p \in Dirty : amount[p] = Largest(Applicable(p), listing[p].price)
      /\ \A p \in Dirty : p \in Had(winner) <=> \E r \in winner[p] : listing[p].applied[r] > 0
  OBVIOUS
<1> DEFINE had == Had(winner)
           state == [at |-> "write", stale |-> {}, winner |-> winner,
                     had |-> had, found |-> found, amount |-> amount]
<1>9. Set(w, state)
  BY <1>1
<1>10. /\ had \in SUBSET Products
       /\ \A p \in Dirty : p \in had <=> \E r \in winner[p] : listing[p].applied[r] > 0
  BY <1>7, <1>8
<1> HIDE DEF found, amount, had
<1>11. state \in WriteJobs
  BY <1>4, <1>5, <1>6, <1>10 DEF WriteJobs
<1>12. /\ state.at = "write" /\ state.stale = {} /\ state.winner = winner
       /\ state.had = had /\ state.found = found /\ state.amount = amount
  OBVIOUS
<1>13. state \in Jobs
  <2> HIDE DEF state
  <2> QED BY <1>11 DEF Jobs
<1> HIDE DEF state
<1>14. JobsOK' /\ Others(w, {}, {}) /\ job'[w] = state
  BY <1>2, <1>9, <1>13, SetJob
<1>15. ComputedJob(w, winner)
  BY <1>8, <1>10, <1>11, <1>12, <1>14 DEF ComputedJob
<1> QED
  BY <1>1, <1>2, <1>14, <1>15

\* What a job that writes prices has found.
LEMMA FoundBy ==
  ASSUME NEW j \in WriteJobs
  PROVE  /\ DOMAIN j.found \in SUBSET Products /\ DOMAIN j.amount \in SUBSET Products
         /\ \A p \in DOMAIN j.found : j.found[p] \in Nat
         /\ \A p \in DOMAIN j.amount : j.amount[p] \in Nat
         /\ j.stale \in SUBSET Products
<1>1. j.found \in Amounts /\ j.amount \in Amounts /\ j.stale \in SUBSET Products
  BY DEF WriteJobs
<1>2. PICK D \in SUBSET Products : j.found \in [D -> Nat]
  BY <1>1 DEF Amounts
<1>3. PICK E \in SUBSET Products : j.amount \in [E -> Nat]
  BY <1>1 DEF Amounts
<1> QED
  BY <1>1, <1>2, <1>3

LEMMA WriteJob ==
  ASSUME Types, NEW w \in Workers, Write(w)
  PROVE  /\ JobsOK' /\ Others(w, {}, {})
         /\ job[w] \in WriteJobs /\ job[w].at = "write"
         /\ job'[w] \in PriceJobs /\ job'[w].at = "clear prices"
         /\ job'[w].stale = job[w].stale /\ job'[w].products = DOMAIN job[w].amount
<1> DEFINE state == [at |-> "clear prices", stale |-> job[w].stale,
                     products |-> DOMAIN job[w].amount]
<1>1. JobsOK /\ job[w].at = "write" /\ Set(w, state)
  BY DEF Types, Write, At, Recalculated
<1>2. job[w] \in WriteJobs
  BY <1>1, JobIs
<1>3. /\ state \in PriceJobs /\ state.at = "clear prices"
      /\ state.stale = job[w].stale /\ state.products = DOMAIN job[w].amount
  BY <1>2, FoundBy DEF PriceJobs
<1> HIDE DEF state
<1>4. state \in Jobs
  BY <1>3 DEF Jobs
<1> QED
  BY <1>1, <1>2, <1>3, <1>4, SetJob

LEMMA ClearPricesJob ==
  ASSUME Types, NEW w \in Workers, ClearPrices(w)
  PROVE  /\ JobsOK' /\ Others(w, {}, {}) /\ job'[w] = Idle
         /\ job[w] \in PriceJobs /\ job[w].at = "clear prices"
BY SetJob, JobIs DEF Types, ClearPrices, Jobs, At

LEMMA DieJob ==
  ASSUME Types, NEW w \in Workers, Die(w)
  PROVE  JobsOK' /\ Others(w, {}, {}) /\ job'[w] = Idle
BY SetJob DEF Types, Die, Jobs

-----------------------------------------------------------------------------
(* What the steps make of rules, listings and items.                       *)

\* A rule apart from its mark.
SameRule(r) == /\ rule'[r].exists = rule[r].exists /\ rule'[r].reward = rule[r].reward
               /\ rule'[r].predicate = rule[r].predicate
               /\ rule'[r].variants = rule[r].variants

\* A listing apart from its mark.
SameListing(p) == /\ listing'[p].price = listing[p].price
                  /\ listing'[p].discounted = listing[p].discounted
                  /\ listing'[p].applied = listing[p].applied

LEMMA MarkRulesEffect ==
  ASSUME RulesOK, NEW marked \in SUBSET Rules, MarkRules(marked)
  PROVE  /\ RulesOK'
         /\ \A r \in Rules : SameRule(r)
         /\ \A r \in Rules : rule'[r].dirty = IF r \in marked THEN rule[r].exists
                                              ELSE rule[r].dirty
<1>1. \A r \in Rules : rule[r] \in RuleRows
  BY DEF RulesOK
<1>2. rule' = [r \in Rules |-> IF r \in marked THEN [rule[r] EXCEPT !.dirty = rule[r].exists]
                               ELSE rule[r]]
  BY DEF MarkRules
<1>3. ASSUME NEW r \in Rules
      PROVE  /\ rule'[r] \in RuleRows /\ SameRule(r)
             /\ rule'[r].dirty = IF r \in marked THEN rule[r].exists ELSE rule[r].dirty
  BY <1>1, <1>2 DEF RuleRows, SameRule
<1>4. RulesOK'
  BY <1>2, <1>3 DEF RulesOK
<1> QED
  BY <1>3, <1>4

LEMMA MarkProductsEffect ==
  ASSUME ListingsOK, NEW marked \in SUBSET Products, MarkProducts(marked)
  PROVE  /\ ListingsOK'
         /\ \A p \in Products : SameListing(p)
         /\ \A p \in Products : listing'[p].dirty = (p \in marked \/ listing[p].dirty)
<1>1. \A p \in Products : listing[p] \in ListingRows
  BY DEF ListingsOK
<1>2. listing' = [p \in Products |-> IF p \in marked THEN [listing[p] EXCEPT !.dirty = TRUE]
                                     ELSE listing[p]]
  BY DEF MarkProducts
<1>3. ASSUME NEW p \in Products
      PROVE  /\ listing'[p] \in ListingRows /\ SameListing(p)
             /\ listing'[p].dirty = (p \in marked \/ listing[p].dirty)
  <2>1. CASE p \in marked
    BY <1>1, <1>2, <2>1 DEF ListingRows, SameListing
  <2>2. CASE p \notin marked
    BY <1>1, <1>2, <2>2 DEF ListingRows, SameListing
  <2> QED
    BY <2>1, <2>2
<1>4. ListingsOK'
  BY <1>2, <1>3 DEF ListingsOK
<1> QED
  BY <1>3, <1>4

\* What an item asks for.
LEMMA ItemIs ==
  ASSUME NEW item \in Items
  PROVE  /\ item.rules \in SUBSET Rules /\ item.products \in SUBSET Products
         /\ item.do \in {"delete", "set variants"} => \E r \in Rules : item.rules = {r}
         /\ item.do = "mark active" => item.rules = {}
         /\ item.do \in {"delete", "set variants", "mark rules", "mark active",
                         "mark products"}
<1>1. CASE item \in RuleItems
  BY <1>1 DEF RuleItems, Singletons
<1>2. CASE item \in MarkItems
  BY <1>2 DEF MarkItems, Singletons
<1>3. CASE item \in ActiveItems
  BY <1>3 DEF ActiveItems
<1>4. CASE item \in ProductItems
  BY <1>4 DEF ProductItems
<1> QED
  BY <1>1, <1>2, <1>3, <1>4 DEF Items

LEMMA ItemsAre ==
  /\ \A r \in Rules, products \in SUBSET Products :
       /\ Item("delete", {r}, products) \in Items
       /\ Item("set variants", {r}, products) \in Items
  /\ \A r \in Rules : Item("mark rules", {r}, {}) \in Items
  /\ Item("mark active", {}, {}) \in Items
  /\ \A products \in SUBSET Products : Item("mark products", {}, products) \in Items
<1>1. ASSUME NEW r \in Rules, NEW products \in SUBSET Products,
             NEW do \in {"delete", "set variants"}
      PROVE  Item(do, {r}, products) \in RuleItems
  BY DEF Item, RuleItems, Singletons
<1>2. ASSUME NEW r \in Rules
      PROVE  Item("mark rules", {r}, {}) \in MarkItems
  BY DEF Item, MarkItems, Singletons
<1>3. Item("mark active", {}, {}) \in ActiveItems
  BY DEF Item, ActiveItems
<1>4. ASSUME NEW products \in SUBSET Products
      PROVE  Item("mark products", {}, products) \in ProductItems
  BY DEF Item, ProductItems
<1> QED
  BY <1>1, <1>2, <1>3, <1>4 DEF Items

\* The fields of an item.
LEMMA ItemHas ==
  \A do, rules, products :
    /\ Item(do, rules, products).do = do
    /\ Item(do, rules, products).rules = rules
    /\ Item(do, rules, products).products = products
BY DEF Item

LEMMA RuleIs ==
  ASSUME RulesOK, NEW r \in Rules
  PROVE  /\ rule[r] \in RuleRows
         /\ rule[r].exists \in BOOLEAN /\ rule[r].dirty \in BOOLEAN
         /\ rule[r].predicate \in SUBSET Products /\ rule[r].variants \in SUBSET Products
         /\ rule[r].reward \in Rewards \cup {0}
<1>1. rule[r] \in RuleRows
  BY DEF RulesOK
<1> QED
  BY <1>1 DEF RuleRows

LEMMA DeleteEffect ==
  ASSUME Types, NEW item \in todo, Delete(item)
  PROVE  \E r \in Rules :
           /\ item.do = "delete" /\ item.rules = {r} /\ item.products \in SUBSET Products
           /\ rule' = [rule EXCEPT ![r] = Gone(r)]
           /\ \A p \in Products :
                /\ listing'[p].price = listing[p].price
                /\ listing'[p].discounted = listing[p].discounted
                /\ listing'[p].dirty = listing[p].dirty
                /\ listing'[p].applied = [listing[p].applied EXCEPT ![r] = 0]
           /\ missed' = (missed \/ ~(rule[r].variants \subseteq item.products))
           /\ todo' = Remaining(item) \cup {Item("mark products", {}, item.products)}
           /\ UNCHANGED <<promotion, job>>
           /\ RulesOK' /\ ListingsOK' /\ TodoOK'
<1>1. item \in Items /\ item.do = "delete"
  BY DEF Types, TodoOK, Delete
<1>2. PICK r \in Rules : item.rules = {r}
  BY <1>1, ItemIs
<1>3. (CHOOSE q \in item.rules : TRUE) = r
  BY <1>2
<1>4. /\ rule' = [rule EXCEPT ![r] = Gone(r)]
      /\ listing' = [p \in Products |-> [listing[p] EXCEPT !.applied[r] = 0]]
      /\ missed' = (missed \/ ~(rule[r].variants \subseteq item.products))
      /\ todo' = Remaining(item) \cup {Item("mark products", {}, item.products)}
      /\ UNCHANGED <<promotion, job>>
  BY <1>3 DEF Delete
<1>5. RulesOK'
  <2>1. Gone(r) \in RuleRows
    BY DEF Gone, RuleRows
  <2> QED BY <1>4, <2>1 DEF Types, RulesOK
<1>6. ASSUME NEW p \in Products
      PROVE  /\ listing'[p] \in ListingRows
             /\ listing'[p].price = listing[p].price
             /\ listing'[p].discounted = listing[p].discounted
             /\ listing'[p].dirty = listing[p].dirty
             /\ listing'[p].applied = [listing[p].applied EXCEPT ![r] = 0]
  <2>1. listing[p] \in ListingRows
    BY DEF Types, ListingsOK
  <2> DEFINE new == [listing[p].applied EXCEPT ![r] = 0]
  <2>2. new \in [Rules -> Nat]
    BY <2>1 DEF ListingRows
  <2>3. listing'[p] = [listing[p] EXCEPT !.applied = new]
    BY <1>4
  <2> HIDE DEF new
  <2>4. /\ listing'[p] \in ListingRows
        /\ listing'[p].price = listing[p].price
        /\ listing'[p].discounted = listing[p].discounted
        /\ listing'[p].dirty = listing[p].dirty
        /\ listing'[p].applied = new
    BY <2>1, <2>2, <2>3 DEF ListingRows
  <2> QED
    BY <2>4 DEF new
<1>7. ListingsOK'
  BY <1>4, <1>6 DEF ListingsOK
<1>8. item.products \in SUBSET Products
  BY <1>1, ItemIs
<1>9. TodoOK'
  BY <1>4, <1>8, ItemsAre DEF Types, TodoOK, Remaining
<1> QED
  BY <1>1, <1>2, <1>4, <1>5, <1>6, <1>7, <1>8, <1>9

LEMMA SetVariantsEffect ==
  ASSUME Types, NEW item \in todo, SetVariants(item)
  PROVE  \E r \in Rules :
           /\ item.do = "set variants" /\ item.rules = {r}
           /\ item.products \in SUBSET Products
           /\ rule' = [rule EXCEPT ![r].variants = rule[r].predicate]
           /\ missed' = (missed \/ ~(rule[r].variants \subseteq item.products))
           /\ todo' = Remaining(item)
                        \cup {Item("mark products", {}, item.products \cup rule[r].predicate)}
           /\ Everyone({"relate"}, {r})
           /\ UNCHANGED <<promotion, listing>>
           /\ RulesOK' /\ TodoOK' /\ JobsOK'
<1>1. item \in Items /\ item.do = "set variants"
  BY DEF Types, TodoOK, SetVariants
<1>2. PICK r \in Rules : item.rules = {r}
  BY <1>1, ItemIs
<1>3. (CHOOSE q \in item.rules : TRUE) = r
  BY <1>2
<1>4. /\ rule' = [rule EXCEPT ![r].variants = rule[r].predicate]
      /\ missed' = (missed \/ ~(rule[r].variants \subseteq item.products))
      /\ todo' = Remaining(item)
                   \cup {Item("mark products", {}, item.products \cup rule[r].predicate)}
      /\ job' = Overtaken({"relate"}, {r})
      /\ UNCHANGED <<promotion, listing>>
  BY <1>3 DEF SetVariants
<1>5. RulesOK /\ rule[r] \in RuleRows /\ rule[r].predicate \in SUBSET Products
  BY RuleIs DEF Types
<1>6. RulesOK'
  <2>1. [rule[r] EXCEPT !.variants = rule[r].predicate] \in RuleRows
    BY <1>5 DEF RuleRows
  <2> QED BY <1>4, <1>5, <2>1 DEF RulesOK
<1>7. item.products \in SUBSET Products
  BY <1>1, ItemIs
<1>8. TodoOK'
  <2>1. item.products \cup rule[r].predicate \in SUBSET Products
    BY <1>5, <1>7
  <2> QED BY <1>4, <2>1, ItemsAre DEF Types, TodoOK, Remaining
<1>9. JobsOK' /\ Everyone({"relate"}, {r})
  <2>1. {"relate"} \in SUBSET RuleKinds /\ {r} \in SUBSET Rules /\ JobsOK
    BY DEF RuleKinds, Types
  <2> QED BY <1>4, <2>1, RulesOvertake
<1> QED
  BY <1>1, <1>2, <1>4, <1>6, <1>7, <1>8, <1>9

LEMMA MarkAfterEffect ==
  ASSUME Types, NEW item \in todo, MarkAfter(item)
  PROVE  /\ todo' = Remaining(item) /\ UNCHANGED <<promotion, missed>>
         /\ RulesOK' /\ ListingsOK' /\ TodoOK' /\ JobsOK'
         /\ \/ /\ item.do = "mark products" /\ item.products \in SUBSET Products
               /\ MarkProducts(item.products) /\ Everyone(PriceKinds, item.products)
               /\ rule' = rule
            \/ \E marked \in SUBSET Rules :
                 /\ item.do \in {"mark active", "mark rules"}
                 /\ \A r \in Rules : r \in marked <=> IF item.do = "mark active" THEN Active(r)
                                                     ELSE r \in item.rules
                 /\ MarkRules(marked) /\ Everyone(RuleKinds, marked)
                 /\ listing' = listing
<1>1. /\ todo' = Remaining(item) /\ missed' = missed
      /\ item \in Items /\ JobsOK /\ RulesOK /\ ListingsOK
  BY DEF Types, TodoOK, MarkAfter
<1>2. TodoOK'
  BY <1>1 DEF Types, TodoOK, Remaining
<1>3. CASE /\ item.do = "mark products"
           /\ MarkProducts(item.products)
           /\ job' = Overtaken({"write", "clear prices"}, item.products)
  <2>1. item.products \in SUBSET Products
    BY <1>1, ItemIs
  <2>2. ListingsOK'
    BY <1>1, <1>3, <2>1, MarkProductsEffect
  <2>3. JobsOK' /\ Everyone(PriceKinds, item.products)
    BY <1>1, <1>3, <2>1, PricesOvertake DEF PriceKinds
  <2>4. promotion' = promotion /\ rule' = rule
    BY <1>3 DEF MarkProducts
  <2>5. RulesOK'
    BY <1>1, <2>4 DEF RulesOK
  <2> QED
    BY <1>1, <1>2, <1>3, <2>1, <2>2, <2>3, <2>4, <2>5
<1>4. CASE \E marked \in {{r \in Rules : IF item.do = "mark active" THEN Active(r)
                                         ELSE r \in item.rules}} :
             /\ item.do \in {"mark active", "mark rules"}
             /\ MarkRules(marked)
             /\ job' = Overtaken({"relate", "clear rules"}, marked)
  <2>1. PICK marked \in SUBSET Rules :
             /\ \A r \in Rules : r \in marked <=> IF item.do = "mark active" THEN Active(r)
                                                  ELSE r \in item.rules
             /\ item.do \in {"mark active", "mark rules"}
             /\ MarkRules(marked)
             /\ job' = Overtaken({"relate", "clear rules"}, marked)
    BY <1>4
  <2>2. RulesOK'
    BY <1>1, <2>1, MarkRulesEffect
  <2>3. JobsOK' /\ Everyone(RuleKinds, marked)
    BY <1>1, <2>1, RulesOvertake DEF RuleKinds
  <2>4. promotion' = promotion /\ listing' = listing
    BY <2>1 DEF MarkRules
  <2>5. ListingsOK'
    BY <1>1, <2>4 DEF ListingsOK
  <2> QED
    BY <1>1, <1>2, <2>1, <2>2, <2>3, <2>4, <2>5
<1> QED
  BY <1>3, <1>4 DEF MarkAfter

\* Rules after ClearDelete, Relate and ClearRules.
LEMMA ClearDeleteEffect ==
  ASSUME Types, NEW w \in Workers, ClearDelete(w)
  PROVE  /\ RulesOK'
         /\ \A r \in Rules :
              /\ rule'[r].exists = rule[r].exists /\ rule'[r].reward = rule[r].reward
              /\ rule'[r].predicate = rule[r].predicate /\ rule'[r].dirty = rule[r].dirty
              /\ rule'[r].variants = IF r \in DOMAIN job[w].pairs
                                     THEN rule[r].variants \ job[w].pairs[r]
                                     ELSE rule[r].variants
<1>1. rule' = [r \in Rules |-> IF r \in DOMAIN job[w].pairs
                               THEN [rule[r] EXCEPT !.variants = @ \ job[w].pairs[r]]
                               ELSE rule[r]]
  BY DEF ClearDelete
<1>2. ASSUME NEW r \in Rules
      PROVE  /\ rule'[r] \in RuleRows
             /\ rule'[r].exists = rule[r].exists /\ rule'[r].reward = rule[r].reward
             /\ rule'[r].predicate = rule[r].predicate /\ rule'[r].dirty = rule[r].dirty
             /\ rule'[r].variants = IF r \in DOMAIN job[w].pairs
                                    THEN rule[r].variants \ job[w].pairs[r]
                                    ELSE rule[r].variants
  <2>1. rule[r] \in RuleRows
    BY RuleIs DEF Types
  <2> QED BY <1>1, <2>1 DEF RuleRows
<1>3. RulesOK'
  BY <1>1, <1>2 DEF RulesOK
<1> QED
  BY <1>2, <1>3

LEMMA RelateEffect ==
  ASSUME Types, NEW w \in Workers, Relate(w)
  PROVE  /\ RulesOK'
         /\ \A r \in Rules :
              /\ rule'[r].exists = rule[r].exists /\ rule'[r].reward = rule[r].reward
              /\ rule'[r].predicate = rule[r].predicate /\ rule'[r].dirty = rule[r].dirty
              /\ rule'[r].variants = IF r \in DOMAIN job[w].picks /\ rule[r].exists
                                     THEN job[w].picks[r] ELSE rule[r].variants
<1>1. rule' = [r \in Rules |-> IF r \in DOMAIN job[w].picks /\ rule[r].exists
                               THEN [rule[r] EXCEPT !.variants = job[w].picks[r]]
                               ELSE rule[r]]
  BY DEF Relate
<1>2. \A r \in DOMAIN job[w].picks : job[w].picks[r] \in SUBSET Products
  BY RelateJob, PicksOf
<1>3. ASSUME NEW r \in Rules
      PROVE  /\ rule'[r] \in RuleRows
             /\ rule'[r].exists = rule[r].exists /\ rule'[r].reward = rule[r].reward
             /\ rule'[r].predicate = rule[r].predicate /\ rule'[r].dirty = rule[r].dirty
             /\ rule'[r].variants = IF r \in DOMAIN job[w].picks /\ rule[r].exists
                                    THEN job[w].picks[r] ELSE rule[r].variants
  <2>1. rule[r] \in RuleRows
    BY RuleIs DEF Types
  <2> QED BY <1>1, <1>2, <2>1 DEF RuleRows
<1>4. RulesOK'
  BY <1>1, <1>3 DEF RulesOK
<1> QED
  BY <1>3, <1>4

LEMMA ClearRulesEffect ==
  ASSUME Types, NEW w \in Workers, ClearRules(w)
  PROVE  /\ RulesOK'
         /\ \A r \in Rules : SameRule(r)
         /\ \A r \in Rules : rule'[r].dirty = (r \notin DOMAIN job[w].picks /\ rule[r].dirty)
<1>1. rule' = [r \in Rules |-> IF r \in DOMAIN job[w].picks
                               THEN [rule[r] EXCEPT !.dirty = FALSE] ELSE rule[r]]
  BY DEF ClearRules
<1>2. ASSUME NEW r \in Rules
      PROVE  /\ rule'[r] \in RuleRows /\ SameRule(r)
             /\ rule'[r].dirty = (r \notin DOMAIN job[w].picks /\ rule[r].dirty)
  <2>1. rule[r] \in RuleRows
    BY RuleIs DEF Types
  <2>2. CASE r \in DOMAIN job[w].picks
    BY <1>1, <2>1, <2>2 DEF RuleRows, SameRule
  <2>3. CASE r \notin DOMAIN job[w].picks
    BY <1>1, <2>1, <2>3 DEF RuleRows, SameRule
  <2> QED BY <2>2, <2>3
<1>3. RulesOK'
  BY <1>1, <1>2 DEF RulesOK
<1> QED
  BY <1>2, <1>3

\* Listings after Compute, Write and ClearPrices.
LEMMA ComputeEffect ==
  ASSUME PromotionAssumption, Types, NEW winner \in [Dirty -> SUBSET Rules],
         listing' = [p \in Products |->
           IF p \in Changed THEN [listing[p] EXCEPT !.applied = Rest(@, winner[p])]
           ELSE listing[p]]
  PROVE  /\ ListingsOK'
         /\ \A p \in Products :
              /\ listing'[p].price = listing[p].price
              /\ listing'[p].discounted = listing[p].discounted
              /\ listing'[p].dirty = listing[p].dirty
              /\ \A r \in Rules :
                   listing'[p].applied[r] = IF p \notin Changed \/ r \in winner[p]
                                            THEN listing[p].applied[r] ELSE 0
<1>1. ASSUME NEW p \in Products
      PROVE  /\ listing'[p] \in ListingRows
             /\ listing'[p].price = listing[p].price
             /\ listing'[p].discounted = listing[p].discounted
             /\ listing'[p].dirty = listing[p].dirty
             /\ \A r \in Rules :
                  listing'[p].applied[r] = IF p \notin Changed \/ r \in winner[p]
                                           THEN listing[p].applied[r] ELSE 0
  <2>1. listing[p] \in ListingRows /\ listing[p].applied \in [Rules -> Nat]
    BY PricesAre
  <2>2. CASE p \in Changed
    <3> DEFINE new == Rest(listing[p].applied, winner[p])
    <3>1. new \in [Rules -> Nat]
      BY <2>1 DEF Rest
    <3>2. \A r \in Rules : new[r] = IF r \in winner[p] THEN listing[p].applied[r] ELSE 0
      BY DEF Rest
    <3>3. listing'[p] = [listing[p] EXCEPT !.applied = new]
      BY <2>2
    <3> HIDE DEF new
    <3>4. /\ listing'[p] \in ListingRows
          /\ listing'[p].price = listing[p].price
          /\ listing'[p].discounted = listing[p].discounted
          /\ listing'[p].dirty = listing[p].dirty
          /\ listing'[p].applied = new
      BY <2>1, <3>1, <3>3 DEF ListingRows
    <3> QED
      BY <2>2, <3>2, <3>4
  <2>3. CASE p \notin Changed
    BY <2>1, <2>3
  <2> QED
    BY <2>2, <2>3
<1>2. ListingsOK'
  BY <1>1 DEF ListingsOK
<1> QED
  BY <1>1, <1>2

\* The discount that Write leaves on record of a product it has found a price for.
Written(j, p, r) ==
  IF r \in j.winner[p] /\ rule[r].exists /\ (p \in j.had <=> listing[p].applied[r] > 0)
  THEN j.amount[p] ELSE listing[p].applied[r]

LEMMA WriteEffect ==
  ASSUME PromotionAssumption, Types, NEW w \in Workers, Write(w)
  PROVE  /\ ListingsOK'
         /\ \A p \in Products : listing'[p].price = listing[p].price
                                /\ listing'[p].dirty = listing[p].dirty
         /\ \A p \in Products \ DOMAIN job[w].amount :
              /\ listing'[p].discounted = listing[p].discounted
              /\ listing'[p].applied = listing[p].applied
         /\ \A p \in DOMAIN job[w].amount :
              /\ listing'[p].discounted = IF p \in DOMAIN job[w].found THEN job[w].found[p]
                                          ELSE listing[p].discounted
              /\ \A r \in Rules : listing'[p].applied[r] = Written(job[w], p, r)
<1> DEFINE j == job[w]
           Price(p) == IF p \in DOMAIN j.found THEN j.found[p] ELSE listing[p].discounted
           Records(p) == [r \in Rules |-> Written(j, p, r)]
<1>1. listing' = [p \in Products |->
         IF p \in DOMAIN j.amount
         THEN [listing[p] EXCEPT !.discounted = Price(p), !.applied = Records(p)]
         ELSE listing[p]]
  BY DEF Write, Written
<1>2. /\ DOMAIN j.found \in SUBSET Products /\ DOMAIN j.amount \in SUBSET Products
      /\ \A p \in DOMAIN j.found : j.found[p] \in Nat
      /\ \A p \in DOMAIN j.amount : j.amount[p] \in Nat
  BY WriteJob, FoundBy
<1>3. ASSUME NEW p \in Products
      PROVE  /\ listing'[p] \in ListingRows
             /\ listing'[p].price = listing[p].price
             /\ listing'[p].dirty = listing[p].dirty
             /\ p \notin DOMAIN j.amount => /\ listing'[p].discounted = listing[p].discounted
                                            /\ listing'[p].applied = listing[p].applied
             /\ p \in DOMAIN j.amount =>
                  /\ listing'[p].discounted = Price(p)
                  /\ \A r \in Rules : listing'[p].applied[r] = Written(j, p, r)
  <2>1. /\ listing[p] \in ListingRows /\ listing[p].applied \in [Rules -> Nat]
        /\ listing[p].discounted \in Nat
    BY PricesAre
  <2>2. CASE p \in DOMAIN j.amount
    <3> DEFINE n == Price(p)
               new == Records(p)
    <3>1. n \in Nat
      BY <1>2, <2>1
    <3>2. new \in [Rules -> Nat]
      BY <1>2, <2>1, <2>2 DEF Written
    <3>3. \A r \in Rules : new[r] = Written(j, p, r)
      OBVIOUS
    <3>4. listing'[p] = [listing[p] EXCEPT !.discounted = n, !.applied = new]
      BY <1>1, <2>2
    <3>5. n = Price(p)
      OBVIOUS
    <3> HIDE DEF n, new, j, Price
    <3>6. /\ listing'[p] \in ListingRows
          /\ listing'[p].price = listing[p].price /\ listing'[p].dirty = listing[p].dirty
          /\ listing'[p].discounted = n /\ listing'[p].applied = new
      BY <2>1, <3>1, <3>2, <3>4 DEF ListingRows
    <3> QED
      BY <2>2, <3>3, <3>5, <3>6
  <2>3. CASE p \notin DOMAIN j.amount
    <3>1. listing'[p] = listing[p]
      BY <1>1, <2>3
    <3> QED
      BY <2>1, <2>3, <3>1
  <2> QED
    BY <2>2, <2>3
<1>4. listing' = [p \in Products |-> listing'[p]]
  BY <1>1
<1> HIDE DEF j, Records
<1>5. ListingsOK'
  BY <1>3, <1>4 DEF ListingsOK
<1> QED
  BY <1>2, <1>3, <1>5 DEF j

LEMMA ClearPricesEffect ==
  ASSUME PromotionAssumption, Types, NEW w \in Workers, ClearPrices(w)
  PROVE  /\ ListingsOK'
         /\ \A p \in Products : SameListing(p)
         /\ \A p \in Products :
              listing'[p].dirty = (p \notin job[w].products /\ listing[p].dirty)
<1>1. listing' = [p \in Products |-> IF p \in job[w].products
                                     THEN [listing[p] EXCEPT !.dirty = FALSE] ELSE listing[p]]
  BY DEF ClearPrices
<1>2. ASSUME NEW p \in Products
      PROVE  /\ listing'[p] \in ListingRows /\ SameListing(p)
             /\ listing'[p].dirty = (p \notin job[w].products /\ listing[p].dirty)
  <2>1. listing[p] \in ListingRows
    BY PricesAre
  <2>2. CASE p \in job[w].products
    BY <1>1, <2>1, <2>2 DEF ListingRows, SameListing
  <2>3. CASE p \notin job[w].products
    BY <1>1, <2>1, <2>3 DEF ListingRows, SameListing
  <2> QED BY <2>2, <2>3
<1>3. ListingsOK'
  BY <1>1, <1>2 DEF ListingsOK
<1> QED
  BY <1>2, <1>3

\* What requests write.
LEMMA SetPriceEffect ==
  ASSUME PromotionAssumption, Types, NEW p \in Products, NEW n \in Prices, SetPrice(p, n)
  PROVE  /\ ListingsOK'
         /\ listing'[p].price = n /\ listing'[p].discounted = n
         /\ listing'[p].dirty = listing[p].dirty /\ listing'[p].applied = listing[p].applied
         /\ \A q \in Products \ {p} : listing'[q] = listing[q]
<1>1. listing' = [listing EXCEPT ![p] = [listing[p] EXCEPT !.price = n, !.discounted = n]]
  BY DEF SetPrice, Types, ListingsOK
<1>2. listing[p] \in ListingRows /\ n \in Nat
  BY PricesAre DEF PromotionAssumption
<1> DEFINE new == [listing[p] EXCEPT !.price = n, !.discounted = n]
<1>3. /\ new \in ListingRows /\ new.price = n /\ new.discounted = n
      /\ new.dirty = listing[p].dirty /\ new.applied = listing[p].applied
  BY <1>2 DEF ListingRows
<1>4. listing' = [listing EXCEPT ![p] = new]
  BY <1>1
<1> HIDE DEF new
<1> QED
  BY <1>3, <1>4 DEF Types, ListingsOK

LEMMA UpdateRuleEffect ==
  ASSUME PromotionAssumption, Types, NEW r \in Rules, NEW predicate \in Predicates,
         NEW reward \in Rewards, UpdateRule(r, predicate, reward)
  PROVE  /\ RulesOK' /\ rule[r].exists
         /\ rule'[r].exists /\ rule'[r].dirty = rule[r].dirty
         /\ rule'[r].variants = rule[r].variants
         /\ \A q \in Rules \ {r} : rule'[q] = rule[q]
<1> DEFINE new == [rule[r] EXCEPT !.predicate = predicate, !.reward = reward]
<1>1. rule' = [rule EXCEPT ![r] = new] /\ rule[r].exists
  BY DEF UpdateRule, Types, RulesOK
<1>2. rule[r] \in RuleRows /\ predicate \in SUBSET Products
  BY RuleIs DEF Types, PromotionAssumption
<1>3. /\ new \in RuleRows /\ new.exists = rule[r].exists /\ new.dirty = rule[r].dirty
      /\ new.variants = rule[r].variants
  BY <1>2 DEF RuleRows
<1> HIDE DEF new
<1> QED
  BY <1>1, <1>3 DEF Types, RulesOK

LEMMA ChangeCatalogueEffect ==
  ASSUME Types, NEW r \in Rules, NEW p \in Products, ChangeCatalogue(r, p)
  PROVE  /\ RulesOK' /\ rule[r].exists
         /\ rule'[r].exists = rule[r].exists /\ rule'[r].dirty = rule[r].dirty
         /\ rule'[r].variants = rule[r].variants /\ rule'[r].reward = rule[r].reward
         /\ \A q \in Rules \ {r} : rule'[q] = rule[q]
<1> DEFINE set == IF p \in rule[r].predicate THEN rule[r].predicate \ {p}
                  ELSE rule[r].predicate \cup {p}
           new == [rule[r] EXCEPT !.predicate = set]
<1>1. rule' = [rule EXCEPT ![r] = new] /\ rule[r].exists
  BY DEF ChangeCatalogue, Types, RulesOK
<1>2. rule[r] \in RuleRows
  BY RuleIs DEF Types
<1>3. set \in SUBSET Products
  BY <1>2 DEF RuleRows
<1> HIDE DEF set
<1>4. /\ new \in RuleRows /\ new.exists = rule[r].exists /\ new.dirty = rule[r].dirty
      /\ new.variants = rule[r].variants /\ new.reward = rule[r].reward
  BY <1>2, <1>3 DEF RuleRows
<1> HIDE DEF new
<1> QED
  BY <1>1, <1>4 DEF Types, RulesOK

LEMMA DatesAre ==
  ASSUME PromotionAssumption, NEW dates \in Dates
  PROVE  /\ dates[1] \in 0 .. MaxTime /\ dates[2] \in 0 .. Never
         /\ dates[1] < dates[2]
BY DEF Dates

LEMMA CreatePromotionEffect ==
  ASSUME PromotionAssumption, Types, NEW r \in Rules, NEW predicate \in Predicates,
         NEW reward \in Rewards, NEW dates \in Dates,
         CreatePromotion(r, predicate, reward, dates)
  PROVE  /\ RulesOK' /\ Clock'
         /\ promotion[r] = NoPromotion
         /\ promotion'[r].start = dates[1] /\ promotion'[r].end = dates[2]
         /\ rule'[r].exists /\ rule'[r].dirty /\ rule'[r].variants = {}
         /\ \A q \in Rules \ {r} : rule'[q] = rule[q] /\ promotion'[q] = promotion[q]
<1> DEFINE seen == IF dates[1] <= now /\ now < dates[2] THEN now ELSE -1
           new == [start |-> dates[1], end |-> dates[2], notified |-> seen]
           row == [exists |-> TRUE, predicate |-> predicate, variants |-> {},
                   reward |-> reward, dirty |-> TRUE]
<1>1. /\ promotion' = [promotion EXCEPT ![r] = new] /\ rule' = [rule EXCEPT ![r] = row]
      /\ promotion[r] = NoPromotion /\ now' = now
      /\ calls' = calls + 1 /\ calls < MaxCalls
  BY DEF CreatePromotion, Call
<1>2. seen \in -1 .. MaxTime /\ seen <= now
  BY DEF Types, Clock
<1> HIDE DEF seen
<1>3. new \in Promotions /\ new.start = dates[1] /\ new.end = dates[2] /\ new.notified = seen
  <2>1. dates[1] \in -1 .. MaxTime /\ dates[2] \in -1 .. Never
    BY DatesAre DEF PromotionAssumption, Never
  <2> QED BY <1>2, <2>1 DEF Promotions
<1>4. row \in RuleRows /\ row.exists /\ row.dirty /\ row.variants = {}
  BY DEF RuleRows, PromotionAssumption
<1> HIDE DEF new, row
<1>5. promotion' \in [Rules -> Promotions]
  BY <1>1, <1>3 DEF Types, Clock
<1>6. \A q \in Rules : promotion'[q].notified <= now
  BY <1>1, <1>2, <1>3 DEF Types, Clock
<1>7. calls' \in 0 .. MaxCalls
  BY <1>1 DEF Types, Clock, PromotionAssumption
<1>8. Clock'
  BY <1>1, <1>5, <1>6, <1>7 DEF Types, Clock
<1> QED
  BY <1>1, <1>3, <1>4, <1>8 DEF Types, RulesOK, Clock

LEMMA UpdatePromotionEffect ==
  ASSUME PromotionAssumption, Types, NEW r \in Rules, NEW dates \in Dates,
         UpdatePromotion(r, dates)
  PROVE  /\ Clock' /\ rule[r].exists
         /\ promotion'[r].start = dates[1] /\ promotion'[r].end = dates[2]
         /\ promotion'[r].notified =
              IF \/ dates[1] <= now /\ promotion[r].notified < dates[1] /\ now < dates[2]
                 \/ dates[2] <= now /\ (promotion[r].notified < dates[2]
                                        \/ promotion[r].end = Never)
              THEN now ELSE promotion[r].notified
         /\ \A q \in Rules \ {r} : promotion'[q] = promotion[q]
<1> DEFINE seen ==
             IF \/ dates[1] <= now /\ promotion[r].notified < dates[1] /\ now < dates[2]
                \/ dates[2] <= now /\ (promotion[r].notified < dates[2]
                                       \/ promotion[r].end = Never)
             THEN now ELSE promotion[r].notified
           new == [start |-> dates[1], end |-> dates[2], notified |-> seen]
<1>1. /\ promotion' = [promotion EXCEPT ![r] = new] /\ rule[r].exists /\ now' = now
      /\ calls' = calls + 1 /\ calls < MaxCalls
  BY DEF UpdatePromotion, Call
<1>2. seen \in -1 .. MaxTime /\ seen <= now
  <2>1. promotion[r] \in Promotions /\ promotion[r].notified <= now /\ now \in 0 .. MaxTime
    BY DEF Types, Clock
  <2>2. promotion[r].notified \in -1 .. MaxTime
    BY <2>1 DEF Promotions
  <2>3. seen = now \/ seen = promotion[r].notified
    OBVIOUS
  <2> HIDE DEF seen
  <2> QED BY <2>1, <2>2, <2>3 DEF PromotionAssumption
<1>a. seen = IF \/ dates[1] <= now /\ promotion[r].notified < dates[1] /\ now < dates[2]
                \/ dates[2] <= now /\ (promotion[r].notified < dates[2]
                                       \/ promotion[r].end = Never)
             THEN now ELSE promotion[r].notified
  OBVIOUS
<1> HIDE DEF seen
<1>3. new \in Promotions /\ new.start = dates[1] /\ new.end = dates[2] /\ new.notified = seen
  <2>1. dates[1] \in -1 .. MaxTime /\ dates[2] \in -1 .. Never
    BY DatesAre DEF PromotionAssumption, Never
  <2> QED BY <1>2, <2>1 DEF Promotions
<1> HIDE DEF new
<1>5. promotion' \in [Rules -> Promotions]
  BY <1>1, <1>3 DEF Types, Clock
<1>6. \A q \in Rules : promotion'[q].notified <= now
  BY <1>1, <1>2, <1>3 DEF Types, Clock
<1>7. calls' \in 0 .. MaxCalls
  BY <1>1 DEF Types, Clock, PromotionAssumption
<1>8. Clock'
  BY <1>1, <1>5, <1>6, <1>7 DEF Types, Clock
<1>9. promotion'[r] = new /\ \A q \in Rules \ {r} : promotion'[q] = promotion[q]
  BY <1>1 DEF Types, Clock
<1> QED
  BY <1>1, <1>3, <1>8, <1>9, <1>a

LEMMA NotifyEffect ==
  ASSUME PromotionAssumption, Types, NEW w \in Workers, Notify(w)
  PROVE  /\ Clock'
         /\ \A r \in Rules :
              /\ promotion'[r].start = promotion[r].start
              /\ promotion'[r].end = promotion[r].end
              /\ promotion'[r].notified = IF r \in job[w].rules /\ rule[r].exists THEN now
                                          ELSE promotion[r].notified
<1>1. /\ promotion' = [r \in Rules |-> IF r \in job[w].rules /\ rule[r].exists
                                       THEN [promotion[r] EXCEPT !.notified = now]
                                       ELSE promotion[r]]
      /\ now' = now /\ calls' = calls
  BY DEF Notify
<1>2. now \in 0 .. MaxTime /\ now <= now
  BY DEF Types, Clock, PromotionAssumption
<1>3. ASSUME NEW r \in Rules
      PROVE  /\ promotion'[r] \in Promotions
             /\ promotion'[r].start = promotion[r].start
             /\ promotion'[r].end = promotion[r].end
             /\ promotion'[r].notified = IF r \in job[w].rules /\ rule[r].exists THEN now
                                         ELSE promotion[r].notified
  <2>1. promotion[r] \in Promotions
    BY DEF Types, Clock
  <2>2. now \in -1 .. MaxTime
    BY <1>2 DEF PromotionAssumption
  <2> QED BY <1>1, <2>1, <2>2 DEF Promotions
<1>4. promotion' \in [Rules -> Promotions]
  BY <1>1, <1>3
<1>5. Clock'
  BY <1>1, <1>2, <1>3, <1>4 DEF Types, Clock
<1> QED
  BY <1>3, <1>5

-----------------------------------------------------------------------------
(* Types.                                                                  *)

\* What does not change keeps its type.
LEMMA Unchanged ==
  ASSUME Types
  PROVE  /\ rule' = rule => RulesOK'
         /\ listing' = listing => ListingsOK'
         /\ todo' = todo => TodoOK'
         /\ job' = job => JobsOK'
         /\ now' = now /\ promotion' = promotion /\ calls' = calls => Clock'
         /\ clearing' = clearing /\ missed' = missed /\ withdrawn' = withdrawn
            /\ crossed' = crossed => HistoryOK'
BY DEF Types, Clock, RulesOK, ListingsOK, TodoOK, JobsOK, HistoryOK

\* A call counts as one.
LEMMA CallClock ==
  ASSUME PromotionAssumption, Types, Call, now' = now, promotion' = promotion
  PROVE  Clock'
BY DEF Types, Clock, Call, PromotionAssumption

LEMMA LaterTodo ==
  ASSUME Types, NEW item \in Items, todo' = todo \cup {item}
  PROVE  TodoOK'
BY DEF Types, TodoOK

LEMMA RequestTypes ==
  ASSUME PromotionAssumption, Types, Request
  PROVE  Types'
<1>1. ASSUME NEW r \in Rules, NEW reward \in Rewards, NEW predicate \in Predicates,
             NEW dates \in Dates, CreatePromotion(r, predicate, reward, dates)
      PROVE  Types'
  <2>1. RulesOK' /\ Clock'
    BY <1>1, CreatePromotionEffect
  <2>2. UNCHANGED <<listing, todo, clearing, job, missed, crossed, withdrawn>>
    BY <1>1 DEF CreatePromotion, history
  <2> QED BY <2>1, <2>2, Unchanged DEF Types
<1>2. ASSUME NEW r \in Rules, NEW reward \in Rewards, NEW predicate \in Predicates,
             UpdateRule(r, predicate, reward)
      PROVE  Types'
  <2>1. RulesOK'
    BY <1>2, UpdateRuleEffect
  <2>2. /\ UNCHANGED <<now, promotion, listing, clearing, job, missed, crossed, withdrawn>>
        /\ Call /\ todo' = todo \cup {Item("set variants", {r}, rule[r].variants)}
    BY <1>2 DEF UpdateRule, Later
  <2>3. Item("set variants", {r}, rule[r].variants) \in Items
    BY ItemsAre, RuleIs DEF Types
  <2> QED BY <2>1, <2>2, <2>3, Unchanged, CallClock, LaterTodo DEF Types
<1>3. ASSUME NEW r \in Rules, NEW dates \in Dates, UpdatePromotion(r, dates)
      PROVE  Types'
  <2>1. Clock'
    BY <1>3, UpdatePromotionEffect
  <2>2. /\ UNCHANGED <<rule, listing, clearing, job, crossed>>
        /\ todo' = todo \cup {Item("mark rules", {r}, {})}
        /\ withdrawn' = (withdrawn \/ /\ rule[r].variants # {}
                                      /\ ~(dates[1] <= now /\ now < dates[2]))
        /\ missed' = (missed \/ \E v \in Clearing(r) : job[v].since < dates[2])
    BY <1>3 DEF UpdatePromotion
  <2>3. Item("mark rules", {r}, {}) \in Items
    BY ItemsAre
  <2>4. withdrawn' \in BOOLEAN /\ missed' \in BOOLEAN
    BY <2>2
  <2>5. HistoryOK'
    BY <2>2, <2>4 DEF Types, HistoryOK
  <2> QED BY <2>1, <2>2, <2>3, <2>5, Unchanged, LaterTodo DEF Types
<1>4. ASSUME NEW r \in Rules, DeleteRule(r)
      PROVE  Types'
  <2>1. /\ UNCHANGED <<now, promotion, rule, listing, clearing, job, missed, crossed, withdrawn>>
        /\ Call /\ todo' = todo \cup {Item("delete", {r}, rule[r].variants)}
    BY <1>4 DEF DeleteRule, Later, rows
  <2>2. Item("delete", {r}, rule[r].variants) \in Items
    BY ItemsAre, RuleIs DEF Types
  <2> QED BY <2>1, <2>2, Unchanged, CallClock, LaterTodo DEF Types
<1>5. ASSUME NEW r \in Rules, NEW p \in Products, ChangeCatalogue(r, p)
      PROVE  Types'
  <2>1. RulesOK'
    BY <1>5, ChangeCatalogueEffect
  <2>2. /\ UNCHANGED <<now, promotion, listing, clearing, job, missed, crossed, withdrawn>>
        /\ Call /\ todo' = todo \cup {Item("mark active", {}, {})}
    BY <1>5 DEF ChangeCatalogue, Later
  <2>3. Item("mark active", {}, {}) \in Items
    BY ItemsAre
  <2> QED BY <2>1, <2>2, <2>3, Unchanged, CallClock, LaterTodo DEF Types
<1>6. ASSUME NEW p \in Products, NEW n \in Prices, SetPrice(p, n)
      PROVE  Types'
  <2>1. ListingsOK'
    BY <1>6, SetPriceEffect
  <2>2. /\ UNCHANGED <<now, promotion, rule, clearing, job, missed, withdrawn>>
        /\ Call /\ todo' = todo \cup {Item("mark products", {}, {p})}
        /\ crossed' = crossed \cup ({p} \cap InHand({"write"}))
    BY <1>6 DEF SetPrice, Later
  <2>3. Item("mark products", {}, {p}) \in Items
    BY ItemsAre
  <2>4. HistoryOK'
    BY <2>2 DEF Types, HistoryOK
  <2> QED BY <2>1, <2>2, <2>3, <2>4, Unchanged, CallClock, LaterTodo DEF Types
<1> QED
  BY <1>1, <1>2, <1>3, <1>4, <1>5, <1>6 DEF Request

LEMMA ItemTypes ==
  ASSUME PromotionAssumption, Types, NEW item \in todo, GoOn(item) \/ Forget(item)
  PROVE  Types'
<1>1. CASE Forget(item)
  <2>1. /\ UNCHANGED <<now, promotion, rule, listing, clearing, job, crossed, withdrawn>>
        /\ Call /\ todo' = Remaining(item) /\ missed' = TRUE
    BY <1>1 DEF Forget, rows
  <2>2. TodoOK' /\ HistoryOK'
    BY <2>1 DEF Types, TodoOK, Remaining, HistoryOK
  <2> QED BY <2>1, <2>2, Unchanged, CallClock DEF Types
<1>2. CASE GoOn(item)
  <2>0. UNCHANGED <<now, clearing, crossed, withdrawn, calls>>
    BY <1>2 DEF GoOn
  <2>1. CASE Delete(item)
    <3>1. /\ RulesOK' /\ ListingsOK' /\ TodoOK' /\ promotion' = promotion /\ job' = job
          /\ \E b \in BOOLEAN : missed' = (missed \/ b)
      BY <2>1, DeleteEffect
    <3>2. HistoryOK'
      BY <2>0, <3>1 DEF Types, HistoryOK
    <3> QED BY <2>0, <3>1, <3>2, Unchanged DEF Types
  <2>2. CASE SetVariants(item)
    <3>1. /\ RulesOK' /\ TodoOK' /\ JobsOK' /\ promotion' = promotion /\ listing' = listing
          /\ \E b \in BOOLEAN : missed' = (missed \/ b)
      BY <2>2, SetVariantsEffect
    <3>2. HistoryOK'
      BY <2>0, <3>1 DEF Types, HistoryOK
    <3> QED BY <2>0, <3>1, <3>2, Unchanged DEF Types
  <2>3. CASE MarkAfter(item)
    <3>1. /\ RulesOK' /\ ListingsOK' /\ TodoOK' /\ JobsOK' /\ promotion' = promotion
          /\ missed' = missed
      BY <2>3, MarkAfterEffect
    <3> QED BY <2>0, <3>1, Unchanged DEF Types
  <2> QED
    BY <1>2, <2>1, <2>2, <2>3 DEF GoOn
<1> QED
  BY <1>1, <1>2

LEMMA ToggleTypes ==
  ASSUME PromotionAssumption, Types, NEW w \in Workers, Toggle(w)
  PROVE  Types'
<1>1. CASE ReadToggles(w)
  <2>1. JobsOK'
    BY <1>1, ReadTogglesJob
  <2>2. UNCHANGED <<now, promotion, rule, listing, todo, calls, missed, crossed, withdrawn>>
    BY <1>1 DEF ReadToggles, rows, history
  <2>3. HistoryOK'
    <3>1. clearing' \in BOOLEAN
      BY <1>1 DEF ReadToggles
    <3> QED BY <2>2, <3>1 DEF Types, HistoryOK
  <2> QED BY <2>1, <2>2, <2>3, Unchanged DEF Types
<1>2. CASE MarkToggled(w)
  <2>1. JobsOK' /\ job[w].rules \in SUBSET Rules
    BY <1>2, MarkToggledJob DEF ToggleJobs
  <2>2. /\ UNCHANGED <<now, todo, clearing, calls, missed, crossed, withdrawn>>
        /\ MarkRules(job[w].rules)
    BY <1>2 DEF MarkToggled, history
  <2>3. promotion' = promotion /\ listing' = listing
    BY <2>2 DEF MarkRules
  <2>4. RulesOK'
    BY <2>1, <2>2, MarkRulesEffect DEF Types
  <2> QED BY <2>1, <2>2, <2>3, <2>4, Unchanged DEF Types
<1>3. CASE Notify(w)
  <2>1. JobsOK' /\ Clock'
    BY <1>3, NotifyJob, NotifyEffect
  <2>2. UNCHANGED <<rule, listing, todo, clearing, crossed, withdrawn>>
    BY <1>3 DEF Notify
  <2>3. HistoryOK'
    <3>1. missed' \in BOOLEAN
      BY <1>3 DEF Notify
    <3> QED BY <2>2, <3>1 DEF Types, HistoryOK
  <2> QED BY <2>1, <2>2, <2>3, Unchanged DEF Types
<1> QED
  BY <1>1, <1>2, <1>3 DEF Toggle

LEMMA ClearVariantsTypes ==
  ASSUME PromotionAssumption, Types, NEW w \in Workers, ClearVariants(w)
  PROVE  Types'
<1>1. CASE ClearRead(w)
  <2>1. JobsOK'
    BY <1>1, ClearReadJob
  <2>2. /\ UNCHANGED <<now, promotion, rule, listing, todo, calls, missed, crossed, withdrawn>>
        /\ clearing' = FALSE
    BY <1>1 DEF ClearRead, rows, history
  <2>3. HistoryOK'
    BY <2>2 DEF Types, HistoryOK
  <2> QED BY <2>1, <2>2, <2>3, Unchanged DEF Types
<1>2. CASE ClearMark(w)
  <2>1. JobsOK'
    BY <1>2, ClearMarkJob
  <2>2. /\ UNCHANGED <<now, todo, clearing, calls, missed, crossed, withdrawn>>
        /\ MarkProducts(OfExpired(job[w].since))
    BY <1>2 DEF ClearMark, history, OfExpired
  <2>3. promotion' = promotion /\ rule' = rule
    BY <2>2 DEF MarkProducts
  <2>4. ListingsOK'
    BY <2>2, MarkProductsEffect, OfExpiredIs DEF Types
  <2> QED BY <2>1, <2>2, <2>3, <2>4, Unchanged DEF Types
<1>3. CASE ClearDelete(w)
  <2>1. JobsOK' /\ RulesOK'
    BY <1>3, ClearDeleteJob, ClearDeleteEffect
  <2>2. /\ UNCHANGED <<now, promotion, listing, todo, calls, missed, crossed, withdrawn>>
        /\ clearing' = TRUE
    BY <1>3 DEF ClearDelete, history
  <2>3. HistoryOK'
    BY <2>2 DEF Types, HistoryOK
  <2> QED BY <2>1, <2>2, <2>3, Unchanged DEF Types
<1> QED
  BY <1>1, <1>2, <1>3 DEF ClearVariants

LEMMA UpdateVariantsTypes ==
  ASSUME PromotionAssumption, Types, NEW w \in Workers, UpdateVariants(w)
  PROVE  Types'
<1>1. CASE Select(w)
  <2>1. JobsOK'
    BY <1>1, SelectJob
  <2>2. UNCHANGED <<now, promotion, rule, listing, todo, clearing, calls, missed, crossed,
                    withdrawn>>
    BY <1>1 DEF Select, rows, history
  <2> QED BY <2>1, <2>2, Unchanged DEF Types
<1>2. CASE Relate(w)
  <2>1. JobsOK' /\ RulesOK'
    BY <1>2, RelateJob, RelateEffect
  <2>2. UNCHANGED <<now, promotion, listing, todo, clearing, crossed, withdrawn, calls>>
    BY <1>2 DEF Relate
  <2>3. HistoryOK'
    <3>1. missed' \in BOOLEAN
      BY <1>2 DEF Relate
    <3> QED BY <2>2, <3>1 DEF Types, HistoryOK
  <2> QED BY <2>1, <2>2, <2>3, Unchanged DEF Types
<1>3. CASE ClearRules(w)
  <2>1. JobsOK' /\ RulesOK'
    BY <1>3, ClearRulesJob, ClearRulesEffect
  <2>2. UNCHANGED <<now, promotion, listing, todo, clearing, crossed, withdrawn, calls>>
    BY <1>3 DEF ClearRules
  <2>3. HistoryOK'
    <3>1. missed' \in BOOLEAN
      BY <1>3 DEF ClearRules
    <3> QED BY <2>2, <3>1 DEF Types, HistoryOK
  <2> QED BY <2>1, <2>2, <2>3, Unchanged DEF Types
<1>4. CASE MarkTouched(w)
  <2>1. JobsOK' /\ job[w].products \in SUBSET Products
    BY <1>4, MarkTouchedJob
  <2>2. /\ UNCHANGED <<now, todo, clearing, calls, missed, crossed, withdrawn>>
        /\ MarkProducts(job[w].products)
    BY <1>4 DEF MarkTouched, history
  <2>3. promotion' = promotion /\ rule' = rule
    BY <2>2 DEF MarkProducts
  <2>4. ListingsOK'
    BY <2>1, <2>2, MarkProductsEffect DEF Types
  <2> QED BY <2>1, <2>2, <2>3, <2>4, Unchanged DEF Types
<1> QED
  BY <1>1, <1>2, <1>3, <1>4 DEF UpdateVariants

LEMMA RecalculateTypes ==
  ASSUME PromotionAssumption, Types, NEW w \in Workers, Recalculate(w)
  PROVE  Types'
<1>1. CASE Compute(w)
  <2>1. JobsOK' /\ ListingsOK'
    BY <1>1, ComputeJob, ComputeEffect
  <2>2. /\ UNCHANGED <<now, promotion, rule, todo, clearing, missed, withdrawn, calls>>
        /\ crossed' = crossed \cup (Dirty \cap InHand({"write", "clear prices"}))
    BY <1>1 DEF Compute, Dirty
  <2>3. HistoryOK'
    BY <2>2 DEF Types, HistoryOK, Dirty
  <2> QED BY <2>1, <2>2, <2>3, Unchanged DEF Types
<1>2. CASE Write(w)
  <2>1. JobsOK' /\ ListingsOK'
    BY <1>2, WriteJob, WriteEffect
  <2>2. UNCHANGED <<now, promotion, rule, todo, clearing, crossed, withdrawn, calls>>
    BY <1>2 DEF Write
  <2>3. HistoryOK'
    <3>1. missed' \in BOOLEAN
      BY <1>2 DEF Write
    <3> QED BY <2>2, <3>1 DEF Types, HistoryOK
  <2> QED BY <2>1, <2>2, <2>3, Unchanged DEF Types
<1>3. CASE ClearPrices(w)
  <2>1. JobsOK' /\ ListingsOK'
    BY <1>3, ClearPricesJob, ClearPricesEffect
  <2>2. UNCHANGED <<now, promotion, rule, todo, clearing, crossed, withdrawn, calls>>
    BY <1>3 DEF ClearPrices
  <2>3. HistoryOK'
    <3>1. missed' \in BOOLEAN
      BY <1>3 DEF ClearPrices
    <3> QED BY <2>2, <3>1 DEF Types, HistoryOK
  <2> QED BY <2>1, <2>2, <2>3, Unchanged DEF Types
<1> QED
  BY <1>1, <1>2, <1>3 DEF Recalculate

LEMMA DieTypes ==
  ASSUME PromotionAssumption, Types, NEW w \in Workers, Die(w)
  PROVE  Types'
<1>1. JobsOK'
  BY DieJob
<1>2. /\ UNCHANGED <<now, promotion, rule, listing, todo, clearing, crossed, withdrawn>>
      /\ Call
  BY DEF Die, rows
<1>3. HistoryOK'
  <2>1. missed' \in BOOLEAN
    BY DEF Die
  <2> QED BY <1>2, <2>1 DEF Types, HistoryOK
<1> QED
  BY <1>1, <1>2, <1>3, Unchanged, CallClock DEF Types

LEMMA TickTypes ==
  ASSUME PromotionAssumption, Types, Tick
  PROVE  Types'
<1>1. /\ UNCHANGED <<promotion, rule, listing, todo, clearing, job, calls, missed, crossed,
                     withdrawn>>
      /\ now < MaxTime /\ now' = now + 1
  BY DEF Tick, rows, history
<1>2. Clock'
  <2>1. now \in Nat /\ now' \in 0 .. MaxTime
    BY <1>1 DEF Types, Clock, PromotionAssumption
  <2>2. ASSUME NEW r \in Rules
        PROVE  promotion'[r].notified <= now'
    <3>1. promotion[r] \in Promotions /\ promotion[r].notified <= now
      BY DEF Types, Clock
    <3>2. promotion[r].notified \in -1 .. MaxTime
      BY <3>1 DEF Promotions
    <3> QED BY <1>1, <2>1, <3>1, <3>2 DEF PromotionAssumption
  <2> QED BY <1>1, <2>1, <2>2 DEF Types, Clock
<1> QED
  BY <1>1, <1>2, Unchanged DEF Types

LEMMA TypesNext ==
  ASSUME PromotionAssumption, Types, [Next]_vars
  PROVE  Types'
<1>1. CASE Request
  BY <1>1, RequestTypes
<1>2. CASE Tick
  BY <1>2, TickTypes
<1>3. CASE UNCHANGED vars
  BY <1>3, Unchanged DEF vars, rows, history, Types
<1>4. ASSUME NEW item \in todo, GoOn(item) \/ Forget(item)
      PROVE  Types'
  BY <1>4, ItemTypes
<1>5. ASSUME NEW w \in Workers, Task(w) \/ Die(w)
      PROVE  Types'
  BY <1>5, ToggleTypes, ClearVariantsTypes, UpdateVariantsTypes, RecalculateTypes, DieTypes
     DEF Task
<1> QED
  BY <1>1, <1>2, <1>3, <1>4, <1>5 DEF Next, Pause

LEMMA TypesInit ==
  ASSUME PromotionAssumption, Init
  PROVE  Types
<1>1. Clock
  <2>1. NoPromotion \in Promotions /\ NoPromotion.notified = -1
    BY DEF NoPromotion, Promotions, PromotionAssumption, Never
  <2> QED BY <2>1 DEF Init, Clock, PromotionAssumption
<1>2. RulesOK
  <2>1. \A r \in Rules : Gone(r) \in RuleRows
    BY DEF Gone, RuleRows
  <2> QED BY <2>1 DEF Init, RulesOK
<1>3. ListingsOK
  <2>1. ASSUME NEW n \in Prices
        PROVE  [price |-> n, discounted |-> n, dirty |-> FALSE,
                applied |-> [r \in Rules |-> 0]] \in ListingRows
    BY DEF ListingRows, PromotionAssumption
  <2> QED BY <2>1 DEF Init, ListingsOK
<1>4. JobsOK
  BY DEF Init, JobsOK, Jobs
<1> QED
  BY <1>1, <1>2, <1>3, <1>4 DEF Init, Types, TodoOK, HistoryOK

\* The types imply what the runs check.
LEMMA TypesTypeOK ==
  ASSUME PromotionAssumption, Types
  PROVE  TypeOK
<1>1. ASSUME NEW r \in Rules
      PROVE  /\ promotion[r].start \in -1 .. MaxTime
             /\ promotion[r].end \in -1 .. Never
             /\ promotion[r].notified \in -1 .. now
             /\ rule[r].variants \cup rule[r].predicate \subseteq Products
             /\ rule[r].reward \in Rewards \cup {0}
             /\ {rule[r].exists, rule[r].dirty} \subseteq BOOLEAN
  <2>1. promotion[r] \in Promotions /\ promotion[r].notified <= now /\ now \in 0 .. MaxTime
    BY DEF Types, Clock
  <2>2. /\ promotion[r].start \in -1 .. MaxTime /\ promotion[r].end \in -1 .. Never
        /\ promotion[r].notified \in -1 .. MaxTime
    BY <2>1 DEF Promotions
  <2>3. promotion[r].notified \in -1 .. now
    BY <2>1, <2>2 DEF PromotionAssumption
  <2>4. /\ rule[r].variants \cup rule[r].predicate \subseteq Products
        /\ rule[r].reward \in Rewards \cup {0}
        /\ rule[r].exists \in BOOLEAN /\ rule[r].dirty \in BOOLEAN
    BY RuleIs DEF Types
  <2> QED BY <2>2, <2>3, <2>4
<1>2. \A p \in Products : /\ listing[p].price \in Prices
                          /\ listing[p].discounted \in Nat
                          /\ listing[p].applied \in [Rules -> Nat]
                          /\ listing[p].dirty \in BOOLEAN
  BY DEF Types, ListingsOK, ListingRows
<1>3. \A item \in todo : item.rules \subseteq Rules /\ item.products \subseteq Products
  BY ItemIs DEF Types, TodoOK
<1>4. \A w \in Workers : job[w].at \in {"idle", "toggled", "notify", "mark expired",
        "clear expired", "relate", "clear rules", "mark touched", "write", "clear prices"}
  <2>1. ASSUME NEW j \in Jobs
        PROVE  j.at \in {"idle", "toggled", "notify", "mark expired",
                 "clear expired", "relate", "clear rules", "mark touched", "write", "clear prices"}
    BY StageOf DEF Jobs
  <2> QED BY <2>1 DEF Types, JobsOK
<1> QED
  BY <1>1, <1>2, <1>3, <1>4 DEF Types, Clock, HistoryOK, TypeOK

\* Rows, marks and the tasks' stages stay what the code allows, for any rules,
\* products, workers and requests: no discount makes a price negative.
THEOREM PromotionTypeOKAlways == Spec => []TypeOK
<1>1. Init => Types
  BY TypesInit, PromotionAssumption
<1>2. Types /\ [Next]_vars => Types'
  BY TypesNext, PromotionAssumption
<1>3. Types => TypeOK
  BY TypesTypeOK, PromotionAssumption
<1> QED
  BY <1>1, <1>2, <1>3, PTL DEF Spec

-----------------------------------------------------------------------------
(* What the rows, the items and the jobs know of rules.                    *)

\* A rule that was created, whether or not it was deleted since.
Born(r) == promotion[r].start >= 0

Mentions(j, r) ==
  \/ j.at \in {"toggled", "notify"} /\ r \in j.rules
  \/ j.at \in {"mark expired", "clear expired"} /\ r \in DOMAIN j.pairs
  \/ j.at \in RuleKinds /\ r \in DOMAIN j.picks

BornRules == \A r \in Rules : /\ rule[r].exists => Born(r)
                              /\ Born(r) => promotion[r].start < promotion[r].end
BornItems == \A item \in todo : \A r \in item.rules : Born(r)
BornJobs == \A w \in Workers : \A r \in Rules : Mentions(job[w], r) => Born(r)
SeenBefore == \A w \in Workers : job[w].at \in {"toggled", "notify"} => job[w].seen <= now

\* Deleted rules have no discount on record.
RowsGone == \A r \in Rules : ~rule[r].exists =>
              \A p \in Products : listing[p].applied[r] = 0

Known == BornRules /\ BornItems /\ BornJobs /\ SeenBefore /\ RowsGone

\* A task picks only products that it will have marked.
Covered ==
  \A w \in Workers : At(w, "relate") =>
    \A r \in DOMAIN job[w].picks \ job[w].stale :
      rule[r].variants \cup job[w].picks[r] \subseteq job[w].products

\* What is taken for expired had expired when the task began.
ClearsExpired ==
  ~missed => \A w \in Workers : job[w].at \in {"mark expired", "clear expired"} =>
    /\ job[w].since <= now
    /\ \A r \in DOMAIN job[w].pairs : promotion[r].end <= job[w].since

\* What an overtaken task still does.
LEMMA GrownMeans ==
  ASSUME JobsOK, NEW v \in Workers, NEW k, NEW marked, Grown(job[v], k, marked)
  PROVE  /\ k.at = job[v].at
         /\ k.at \in {"toggled", "notify"} => k.rules = job[v].rules /\ k.seen = job[v].seen
         /\ k.at \in {"mark expired", "clear expired"} =>
              k.pairs = job[v].pairs /\ k.since = job[v].since
         /\ k.at \in RuleKinds => /\ k.picks = job[v].picks /\ k.products = job[v].products
                                  /\ k.stale = job[v].stale \cup marked
         /\ k.at = "mark touched" => k.products = job[v].products
         /\ k.at = "write" => /\ k.winner = job[v].winner /\ k.had = job[v].had
                              /\ k.found = job[v].found /\ k.amount = job[v].amount
                              /\ k.stale = job[v].stale \cup marked
         /\ k.at = "clear prices" => /\ k.products = job[v].products
                                     /\ k.stale = job[v].stale \cup marked
         /\ \A r : Mentions(k, r) <=> Mentions(job[v], r)
<1>1. /\ k.at = job[v].at
      /\ k.at \in {"toggled", "notify"} => k.rules = job[v].rules /\ k.seen = job[v].seen
      /\ k.at \in {"mark expired", "clear expired"} =>
              k.pairs = job[v].pairs /\ k.since = job[v].since
      /\ k.at \in RuleKinds => /\ k.picks = job[v].picks /\ k.products = job[v].products
                               /\ k.stale = job[v].stale \cup marked
      /\ k.at = "mark touched" => k.products = job[v].products
      /\ k.at = "write" => /\ k.winner = job[v].winner /\ k.had = job[v].had
                           /\ k.found = job[v].found /\ k.amount = job[v].amount
                           /\ k.stale = job[v].stale \cup marked
      /\ k.at = "clear prices" => /\ k.products = job[v].products
                                  /\ k.stale = job[v].stale \cup marked
  BY JobIs DEF Grown, RuleKinds
<1>2. \A r : Mentions(k, r) <=> Mentions(job[v], r)
  BY <1>1 DEF Mentions
<1> QED
  BY <1>1, <1>2

\* Promotions change in three actions, and rules come to exist in one.
PromotionsStay == /\ promotion' = promotion
                  /\ \A r \in Rules : rule'[r].exists => rule[r].exists

LEMMA PromotionSteps ==
  ASSUME PromotionAssumption, Types, [Next]_vars
  PROVE  \/ PromotionsStay
         \/ \E r \in Rules, reward \in Rewards, predicate \in Predicates, dates \in Dates :
              CreatePromotion(r, predicate, reward, dates)
         \/ \E r \in Rules, dates \in Dates : UpdatePromotion(r, dates)
         \/ \E w \in Workers : Notify(w)
<1>1. ASSUME NEW r \in Rules, NEW reward \in Rewards, NEW predicate \in Predicates,
             UpdateRule(r, predicate, reward)
      PROVE  PromotionsStay
  BY <1>1, UpdateRuleEffect DEF PromotionsStay, UpdateRule
<1>2. ASSUME NEW r \in Rules, DeleteRule(r)
      PROVE  PromotionsStay
  BY <1>2 DEF PromotionsStay, DeleteRule, rows
<1>3. ASSUME NEW r \in Rules, NEW p \in Products, ChangeCatalogue(r, p)
      PROVE  PromotionsStay
  BY <1>3, ChangeCatalogueEffect DEF PromotionsStay, ChangeCatalogue
<1>4. ASSUME NEW p \in Products, NEW n \in Prices, SetPrice(p, n)
      PROVE  PromotionsStay
  BY <1>4 DEF PromotionsStay, SetPrice
<1>5. CASE Tick
  BY <1>5 DEF PromotionsStay, Tick, rows
<1>6. CASE UNCHANGED vars
  BY <1>6 DEF PromotionsStay, vars, rows
<1>7. ASSUME NEW item \in todo, GoOn(item) \/ Forget(item)
      PROVE  PromotionsStay
  <2>1. CASE Forget(item)
    BY <2>1 DEF Forget, PromotionsStay, rows
  <2>2. CASE Delete(item)
    <3>1. PICK r \in Rules : rule' = [rule EXCEPT ![r] = Gone(r)] /\ promotion' = promotion
      BY <2>2, DeleteEffect
    <3>2. \A q \in Rules : rule'[q] = IF q = r THEN Gone(r) ELSE rule[q]
      BY <3>1 DEF Types, RulesOK
    <3> QED BY <3>1, <3>2 DEF PromotionsStay, Gone
  <2>3. CASE SetVariants(item)
    <3>1. PICK r \in Rules : /\ rule' = [rule EXCEPT ![r].variants = rule[r].predicate]
                             /\ promotion' = promotion
      BY <2>3, SetVariantsEffect
    <3>2. \A q \in Rules : rule'[q].exists = rule[q].exists
      BY <3>1 DEF Types, RulesOK, RuleRows
    <3> QED BY <3>1, <3>2 DEF PromotionsStay
  <2>4. CASE MarkAfter(item)
    BY <2>4, MarkAfterEffect, MarkRulesEffect DEF PromotionsStay, SameRule, Types
  <2> QED BY <1>7, <2>1, <2>2, <2>3, <2>4 DEF GoOn
<1>8. ASSUME NEW w \in Workers, Task(w) \/ Die(w)
      PROVE  PromotionsStay \/ Notify(w)
  <2>1. CASE ReadToggles(w) \/ ClearRead(w) \/ Select(w) \/ Die(w)
    BY <2>1 DEF ReadToggles, ClearRead, Select, Die, rows, PromotionsStay
  <2>2. CASE MarkToggled(w)
    <3>1. job[w].rules \in SUBSET Rules /\ MarkRules(job[w].rules)
      BY <2>2, MarkToggledJob DEF ToggleJobs, MarkToggled
    <3> QED BY <3>1, MarkRulesEffect DEF MarkRules, PromotionsStay, SameRule, Types
  <2>3. CASE ClearMark(w) \/ MarkTouched(w)
    BY <2>3 DEF ClearMark, MarkTouched, MarkProducts, PromotionsStay
  <2>4. CASE ClearDelete(w)
    BY <2>4, ClearDeleteEffect DEF ClearDelete, PromotionsStay
  <2>5. CASE Relate(w)
    BY <2>5, RelateEffect DEF Relate, PromotionsStay
  <2>6. CASE ClearRules(w)
    BY <2>6, ClearRulesEffect DEF ClearRules, PromotionsStay, SameRule
  <2>7. CASE Compute(w) \/ Write(w) \/ ClearPrices(w)
    BY <2>7 DEF Compute, Write, ClearPrices, PromotionsStay
  <2> QED
    BY <1>8, <2>1, <2>2, <2>3, <2>4, <2>5, <2>6, <2>7
       DEF Task, Toggle, ClearVariants, UpdateVariants, Recalculate
<1> QED
  BY <1>1, <1>2, <1>3, <1>4, <1>5, <1>6, <1>7, <1>8 DEF Next, Request, Pause

LEMMA BornGrows ==
  ASSUME PromotionAssumption, Types, [Next]_vars, BornRules
  PROVE  BornRules' /\ \A r \in Rules : Born(r) => Born(r)'
<1>1. CASE PromotionsStay
  BY <1>1 DEF PromotionsStay, BornRules, Born
<1>2. ASSUME NEW r \in Rules, NEW reward \in Rewards, NEW predicate \in Predicates,
             NEW dates \in Dates, CreatePromotion(r, predicate, reward, dates)
      PROVE  BornRules' /\ \A q \in Rules : Born(q) => Born(q)'
  <2>1. /\ promotion'[r].start >= 0 /\ promotion'[r].start < promotion'[r].end
        /\ \A q \in Rules \ {r} : rule'[q] = rule[q] /\ promotion'[q] = promotion[q]
    BY <1>2, CreatePromotionEffect, DatesAre
  <2> QED BY <2>1 DEF BornRules, Born
<1>3. ASSUME NEW r \in Rules, NEW dates \in Dates, UpdatePromotion(r, dates)
      PROVE  BornRules' /\ \A q \in Rules : Born(q) => Born(q)'
  <2>1. /\ promotion'[r].start = dates[1] /\ promotion'[r].end = dates[2]
        /\ \A q \in Rules \ {r} : promotion'[q] = promotion[q]
    BY <1>3, UpdatePromotionEffect
  <2>2. dates[1] >= 0 /\ dates[1] < dates[2]
    BY DatesAre
  <2>3. rule' = rule
    BY <1>3 DEF UpdatePromotion
  <2> QED BY <2>1, <2>2, <2>3 DEF BornRules, Born
<1>4. ASSUME NEW w \in Workers, Notify(w)
      PROVE  BornRules' /\ \A q \in Rules : Born(q) => Born(q)'
  <2>1. rule' = rule
    BY <1>4 DEF Notify
  <2> QED BY <1>4, <2>1, NotifyEffect DEF BornRules, Born
<1> QED
  BY <1>1, <1>2, <1>3, <1>4, PromotionSteps

\* A job mentions rules that it mentioned before, or that exist.
Remembers(w) ==
  /\ \A r \in Rules : Mentions(job'[w], r) => Mentions(job[w], r) \/ rule[r].exists
  /\ job'[w].at \in {"toggled", "notify"} =>
       \/ job'[w].seen = now
       \/ job[w].at \in {"toggled", "notify"} /\ job'[w].seen = job[w].seen
  /\ job'[w].at \in {"mark expired", "clear expired"} =>
       \/ /\ job[w].at \in {"mark expired", "clear expired"}
          /\ job'[w].pairs = job[w].pairs /\ job'[w].since = job[w].since
       \/ /\ \A r \in DOMAIN job'[w].pairs : r \in Rules /\ Expired(r)
          /\ job'[w].since = now

LEMMA GrownRemembers ==
  ASSUME JobsOK, NEW v \in Workers, NEW marked, Grown(job[v], job'[v], marked)
  PROVE  Remembers(v)
BY GrownMeans DEF Remembers

LEMMA OthersRemember ==
  ASSUME JobsOK, NEW w \in Workers, NEW kind, NEW marked, Others(w, kind, marked)
  PROVE  \A v \in Workers \ {w} : Remembers(v)
<1>1. ASSUME NEW v \in Workers \ {w}
      PROVE  Remembers(v)
  <2>1. Grown(job[v], job'[v], IF job[v].at \in kind THEN marked ELSE {})
    BY DEF Others
  <2> QED BY <2>1, GrownRemembers
<1> QED BY <1>1

LEMMA EveryoneRemembers ==
  ASSUME JobsOK, NEW kind, NEW marked, Everyone(kind, marked)
  PROVE  \A v \in Workers : Remembers(v)
<1>1. ASSUME NEW v \in Workers
      PROVE  Remembers(v)
  <2>1. Grown(job[v], job'[v], IF job[v].at \in kind THEN marked ELSE {})
    BY DEF Everyone
  <2> QED BY <2>1, GrownRemembers
<1> QED BY <1>1

\* A worker whose job mentions no rule remembers nothing wrong.
LEMMA FreeRemembers ==
  ASSUME NEW w, job'[w].at \notin {"toggled", "notify", "mark expired", "clear expired",
                                   "relate", "clear rules"}
  PROVE  Remembers(w)
BY DEF Remembers, Mentions, RuleKinds

LEMMA TaskRemembers ==
  ASSUME PromotionAssumption, Types, NEW w \in Workers, Task(w) \/ Die(w)
  PROVE  \A v \in Workers : Remembers(v)
<1>0. JobsOK
  BY DEF Types
<1>1. CASE ReadToggles(w)
  <2>1. /\ Others(w, {}, {})
        /\ job'[w] = [at |-> "toggled", rules |-> Starting \cup Ending, seen |-> now]
    BY <1>1, ReadTogglesJob
  <2>2. \A r \in Starting \cup Ending : rule[r].exists
    BY DEF Starting, Ending
  <2>4. job'[w].at = "toggled" /\ job'[w].rules = Starting \cup Ending /\ job'[w].seen = now
    <3> DEFINE state == [at |-> "toggled", rules |-> Starting \cup Ending, seen |-> now]
    <3>1. state.at = "toggled" /\ state.rules = Starting \cup Ending /\ state.seen = now
      OBVIOUS
    <3>2. job'[w] = state
      BY <2>1
    <3> HIDE DEF state
    <3> QED BY <3>1, <3>2
  <2>5. \A r : Mentions(job'[w], r) => r \in Starting \cup Ending
    BY <2>4 DEF Mentions, RuleKinds
  <2>3. Remembers(w)
    BY <2>2, <2>4, <2>5 DEF Remembers
  <2> QED BY <1>0, <2>1, <2>3, OthersRemember
<1>2. CASE MarkToggled(w)
  <2>1. /\ Others(w, RuleKinds, job[w].rules)
        /\ job[w].at = "toggled" /\ job'[w].at = "notify"
        /\ job'[w].rules = job[w].rules /\ job'[w].seen = job[w].seen
    BY <1>2, MarkToggledJob
  <2>2. Remembers(w)
    BY <2>1 DEF Remembers, Mentions, RuleKinds
  <2> QED BY <1>0, <2>1, <2>2, OthersRemember
<1>3. CASE ClearRead(w)
  <2>1. /\ Others(w, {}, {})
        /\ \/ job' = job
           \/ /\ job'[w].at = "mark expired"
              /\ \A r \in DOMAIN job'[w].pairs : r \in Rules /\ Expired(r)
              /\ job'[w].since = now
    BY <1>3, ClearReadJob
  <2>2. Remembers(w)
    BY <2>1 DEF Remembers, Mentions, RuleKinds, Expired
  <2> QED BY <1>0, <2>1, <2>2, OthersRemember
<1>4. CASE ClearMark(w)
  <2>1. /\ Others(w, PriceKinds, OfExpired(job[w].since))
        /\ job[w].at = "mark expired" /\ job'[w].at = "clear expired"
        /\ job'[w].pairs = job[w].pairs /\ job'[w].since = job[w].since
    BY <1>4, ClearMarkJob
  <2>2. Remembers(w)
    BY <2>1 DEF Remembers, Mentions, RuleKinds
  <2> QED BY <1>0, <2>1, <2>2, OthersRemember
<1>5. CASE Select(w)
  <2>1. /\ Others(w, {}, {}) /\ job'[w].at = "relate" /\ DOMAIN job'[w].picks = Selected
    BY <1>5, SelectJob
  <2>2. Remembers(w)
    BY <2>1 DEF Remembers, Mentions, RuleKinds, Selected, Active
  <2> QED BY <1>0, <2>1, <2>2, OthersRemember
<1>6. CASE Relate(w)
  <2>1. /\ Others(w, {"relate"}, DOMAIN job[w].picks)
        /\ job[w].at = "relate" /\ job'[w].at = "clear rules"
        /\ job'[w].picks = job[w].picks
    BY <1>6, RelateJob
  <2>2. Remembers(w)
    BY <2>1 DEF Remembers, Mentions, RuleKinds
  <2> QED BY <1>0, <2>1, <2>2, OthersRemember
<1>7. CASE Notify(w) \/ ClearDelete(w) \/ MarkTouched(w) \/ ClearPrices(w) \/ Die(w)
  <2>1. job'[w] = Idle /\ \E kind, marked : Others(w, kind, marked)
    BY <1>7, NotifyJob, ClearDeleteJob, MarkTouchedJob, ClearPricesJob, DieJob
  <2>2. job'[w].at = "idle"
    BY <2>1 DEF Idle
  <2>3. Remembers(w)
    BY <2>2, FreeRemembers
  <2> QED BY <1>0, <2>1, <2>3, OthersRemember
<1>8. CASE ClearRules(w)
  <2>1. job'[w].at = "mark touched" /\ Others(w, {}, {})
    BY <1>8, ClearRulesJob
  <2>2. Remembers(w)
    BY <2>1, FreeRemembers
  <2> QED BY <1>0, <2>1, <2>2, OthersRemember
<1>9. CASE Compute(w)
  <2>1. Others(w, {}, {}) /\ job'[w].at = "write"
    BY <1>9, ComputeJob DEF ComputedJob
  <2>2. Remembers(w)
    BY <2>1, FreeRemembers
  <2> QED BY <1>0, <2>1, <2>2, OthersRemember
<1>10. CASE Write(w)
  <2>1. job'[w].at = "clear prices" /\ Others(w, {}, {})
    BY <1>10, WriteJob
  <2>2. Remembers(w)
    BY <2>1, FreeRemembers
  <2> QED BY <1>0, <2>1, <2>2, OthersRemember
<1> QED
  BY <1>1, <1>2, <1>3, <1>4, <1>5, <1>6, <1>7, <1>8, <1>9, <1>10
     DEF Task, Toggle, ClearVariants, UpdateVariants, Recalculate

\* Requests, and what follows them, leave the jobs, or overtake them.
LEMMA RequestJobs ==
  ASSUME Types, Request \/ Tick \/ UNCHANGED vars \/ \E item \in todo : Forget(item)
  PROVE  job' = job
BY DEF Request, CreatePromotion, UpdateRule, UpdatePromotion, DeleteRule, ChangeCatalogue,
       SetPrice, Later, Tick, vars, Forget

LEMMA GoOnJobs ==
  ASSUME PromotionAssumption, Types, NEW item \in todo, GoOn(item)
  PROVE  \E kind, marked : Everyone(kind, marked)
<1>1. CASE Delete(item)
  <2>1. job' = job
    BY <1>1, DeleteEffect
  <2>2. Everyone({}, {})
    BY <2>1, GrownSelf, JobIs DEF Everyone, Types
  <2> QED BY <2>2
<1>2. CASE SetVariants(item)
  BY <1>2, SetVariantsEffect
<1>3. CASE MarkAfter(item)
  BY <1>3, MarkAfterEffect
<1> QED
  BY <1>1, <1>2, <1>3 DEF GoOn

LEMMA JobsRemember ==
  ASSUME PromotionAssumption, Types, [Next]_vars
  PROVE  \A v \in Workers : Remembers(v)
<1>0. JobsOK
  BY DEF Types
<1>1. CASE job' = job
  BY <1>1 DEF Remembers
<1>2. ASSUME NEW item \in todo, GoOn(item)
      PROVE  \A v \in Workers : Remembers(v)
  <2>1. PICK kind, marked : Everyone(kind, marked)
    BY <1>2, GoOnJobs
  <2> QED BY <1>0, <2>1, EveryoneRemembers
<1>3. ASSUME NEW w \in Workers, Task(w) \/ Die(w)
      PROVE  \A v \in Workers : Remembers(v)
  BY <1>3, TaskRemembers
<1> QED
  BY <1>1, <1>2, <1>3, RequestJobs DEF Next, Pause

\* Items name rules that exist when they are added.
LEMMA NewItems ==
  ASSUME PromotionAssumption, Types, [Next]_vars
  PROVE  \A item \in todo' : item \in todo \/ \A r \in item.rules : rule[r].exists
<1> DEFINE Goal == \A item \in todo' : item \in todo \/ \A r \in item.rules : rule[r].exists
<1>1. ASSUME todo' = todo
      PROVE  Goal
  BY <1>1
<1>2. ASSUME NEW r \in Rules, rule[r].exists, NEW do, NEW products,
             todo' = todo \cup {Item(do, {r}, products)}
      PROVE  Goal
  BY <1>2, ItemHas
<1>3. ASSUME NEW do, NEW products,
             todo' \subseteq todo \cup {Item(do, {}, products)}
      PROVE  Goal
  BY <1>3, ItemHas
<1>4. ASSUME Request
      PROVE  Goal
  <2> HIDE DEF Goal
  <2>1. ASSUME NEW r \in Rules, NEW reward \in Rewards, NEW predicate \in Predicates,
               NEW dates \in Dates, CreatePromotion(r, predicate, reward, dates)
        PROVE  Goal
    BY <2>1, <1>1 DEF CreatePromotion
  <2>2. ASSUME NEW r \in Rules, NEW reward \in Rewards, NEW predicate \in Predicates,
               UpdateRule(r, predicate, reward)
        PROVE  Goal
    <3>1. rule[r].exists /\ todo' = todo \cup {Item("set variants", {r}, rule[r].variants)}
      BY <2>2 DEF UpdateRule, Later
    <3> QED BY <3>1, <1>2
  <2>3. ASSUME NEW r \in Rules, NEW dates \in Dates, UpdatePromotion(r, dates)
        PROVE  Goal
    <3>1. rule[r].exists /\ todo' = todo \cup {Item("mark rules", {r}, {})}
      BY <2>3 DEF UpdatePromotion
    <3> QED BY <3>1, <1>2
  <2>4. ASSUME NEW r \in Rules, DeleteRule(r)
        PROVE  Goal
    <3>1. rule[r].exists /\ todo' = todo \cup {Item("delete", {r}, rule[r].variants)}
      BY <2>4 DEF DeleteRule, Later
    <3> QED BY <3>1, <1>2
  <2>5. ASSUME NEW r \in Rules, NEW p \in Products, ChangeCatalogue(r, p)
        PROVE  Goal
    <3>1. todo' = todo \cup {Item("mark active", {}, {})}
      BY <2>5 DEF ChangeCatalogue, Later
    <3> QED BY <3>1, <1>3
  <2>6. ASSUME NEW p \in Products, NEW n \in Prices, SetPrice(p, n)
        PROVE  Goal
    <3>1. todo' = todo \cup {Item("mark products", {}, {p})}
      BY <2>6 DEF SetPrice, Later
    <3> QED BY <3>1, <1>3
  <2> QED BY <1>4, <2>1, <2>2, <2>3, <2>4, <2>5, <2>6 DEF Request
<1>5. ASSUME NEW item \in todo, GoOn(item) \/ Forget(item)
      PROVE  Goal
  <2>1. CASE Forget(item) \/ MarkAfter(item)
    BY <2>1, MarkAfterEffect DEF Forget, Remaining
  <2>2. CASE Delete(item)
    <3>1. todo' \subseteq todo \cup {Item("mark products", {}, item.products)}
      <4>1. todo' = Remaining(item) \cup {Item("mark products", {}, item.products)}
        BY <2>2, DeleteEffect
      <4> QED BY <4>1 DEF Remaining
    <3> HIDE DEF Goal
    <3> QED BY <1>3, <3>1
  <2>3. CASE SetVariants(item)
    <3>1. PICK r \in Rules : todo' \subseteq todo
            \cup {Item("mark products", {}, item.products \cup rule[r].predicate)}
      BY <2>3, SetVariantsEffect DEF Remaining
    <3> HIDE DEF Goal
    <3> QED BY <1>3, <3>1
  <2> QED BY <1>5, <2>1, <2>2, <2>3 DEF GoOn
<1>6. ASSUME NEW w \in Workers, Task(w) \/ Die(w)
      PROVE  todo' = todo
  BY <1>6 DEF Task, Toggle, ClearVariants, UpdateVariants, Recalculate, ReadToggles, MarkToggled,
              Notify, ClearRead, ClearMark, ClearDelete, Select, Relate, ClearRules, MarkTouched,
              Compute, Write, ClearPrices, Die
<1>7. ASSUME Tick \/ UNCHANGED vars
      PROVE  todo' = todo
  BY <1>7 DEF Tick, vars
<1> HIDE DEF Goal
<1>8. Goal
  BY <1>1, <1>4, <1>5, <1>6, <1>7 DEF Next, Pause
<1> QED
  BY <1>8 DEF Goal

\* The clock does not go back.
LEMMA NowGrows ==
  ASSUME PromotionAssumption, Types, [Next]_vars
  PROVE  now \in Nat /\ now' \in Nat /\ now <= now' /\ (now' # now => Tick)
<1>1. now \in 0 .. MaxTime /\ now' \in 0 .. MaxTime
  BY TypesNext DEF Types, Clock
<1>2. now' = now \/ Tick
  BY DEF Next, Request, Pause, CreatePromotion, UpdateRule, UpdatePromotion, DeleteRule,
         ChangeCatalogue, SetPrice, Later, GoOn, Forget, Task, Toggle, ClearVariants,
         UpdateVariants, Recalculate, ReadToggles, MarkToggled, Notify, ClearRead, ClearMark,
         ClearDelete, Select, Relate, ClearRules, MarkTouched, Compute, Write, ClearPrices, Die,
         vars
<1> QED
  BY <1>1, <1>2 DEF Tick, PromotionAssumption

LEMMA BornItemsNext ==
  ASSUME PromotionAssumption, Types, [Next]_vars, BornRules, BornItems
  PROVE  BornItems'
<1>1. \A r \in Rules : Born(r) => Born(r)'
  BY BornGrows
<1>2. \A item \in todo : item.rules \in SUBSET Rules
  BY ItemIs DEF Types, TodoOK
<1>3. todo' \subseteq Items
  BY TypesNext DEF Types, TodoOK
<1>4. \A item \in todo' : item.rules \in SUBSET Rules
  BY <1>3, ItemIs
<1> QED
  BY <1>1, <1>2, <1>4, NewItems DEF BornItems, BornRules

LEMMA BornJobsNext ==
  ASSUME PromotionAssumption, Types, [Next]_vars, BornRules, BornJobs, SeenBefore
  PROVE  BornJobs' /\ SeenBefore'
<1>1. \A r \in Rules : Born(r) => Born(r)'
  BY BornGrows
<1>2. \A v \in Workers : Remembers(v)
  BY JobsRemember
<1>3. BornJobs'
  BY <1>1, <1>2 DEF BornJobs, Remembers, BornRules, Mentions
<1>4. now \in Nat /\ now' \in Nat /\ now <= now'
  BY NowGrows
<1>5. \A v \in Workers : job[v].at \in {"toggled", "notify"} => job[v].seen \in Nat
  BY JobIs DEF Types, ToggleJobs
<1>6. ASSUME NEW v \in Workers, job'[v].at \in {"toggled", "notify"}
      PROVE  job'[v].seen <= now'
  <2>1. CASE job'[v].seen = now
    BY <1>4, <2>1
  <2>2. CASE job[v].at \in {"toggled", "notify"} /\ job'[v].seen = job[v].seen
    <3>1. job'[v].seen <= now /\ job'[v].seen \in Nat
      BY <1>5, <2>2 DEF SeenBefore
    <3> QED BY ONLY <1>4, <3>1
  <2> QED BY <1>2, <1>6, <2>1, <2>2 DEF Remembers
<1> QED
  BY <1>3, <1>6 DEF SeenBefore

\* Records of rules stay, or come from the price tasks, or go.
LEMMA RowsGoneNext ==
  ASSUME PromotionAssumption, Types, [Next]_vars, RowsGone
  PROVE  RowsGone'
<1>0. RulesOK /\ ListingsOK /\ \A p \in Products : listing[p].applied \in [Rules -> Nat]
  BY PricesAre DEF Types
<1> DEFINE Applied == \A p \in Products : listing'[p].applied = listing[p].applied
           Exists == \A r \in Rules : rule[r].exists => rule'[r].exists
<1>1. ASSUME Applied, Exists
      PROVE  RowsGone'
  BY <1>1 DEF RowsGone
<1>2. CASE Request
  <2>1. ASSUME NEW r \in Rules, NEW reward \in Rewards, NEW predicate \in Predicates,
               NEW dates \in Dates, CreatePromotion(r, predicate, reward, dates)
        PROVE  Applied /\ Exists
    BY <2>1, CreatePromotionEffect DEF CreatePromotion
  <2>2. ASSUME NEW r \in Rules, NEW reward \in Rewards, NEW predicate \in Predicates,
               UpdateRule(r, predicate, reward)
        PROVE  Applied /\ Exists
    BY <2>2, UpdateRuleEffect DEF UpdateRule
  <2>3. ASSUME NEW r \in Rules, NEW dates \in Dates, UpdatePromotion(r, dates)
        PROVE  Applied /\ Exists
    BY <2>3 DEF UpdatePromotion
  <2>4. ASSUME NEW r \in Rules, DeleteRule(r)
        PROVE  Applied /\ Exists
    BY <2>4 DEF DeleteRule, rows
  <2>5. ASSUME NEW r \in Rules, NEW p \in Products, ChangeCatalogue(r, p)
        PROVE  Applied /\ Exists
    BY <2>5, ChangeCatalogueEffect DEF ChangeCatalogue
  <2>6. ASSUME NEW p \in Products, NEW n \in Prices, SetPrice(p, n)
        PROVE  Applied /\ Exists
    BY <2>6, SetPriceEffect DEF SetPrice
  <2> HIDE DEF Applied, Exists
  <2> QED BY <1>1, <1>2, <2>1, <2>2, <2>3, <2>4, <2>5, <2>6 DEF Request
<1>3. ASSUME NEW item \in todo, GoOn(item) \/ Forget(item)
      PROVE  RowsGone'
  <2>1. CASE Forget(item)
    BY <2>1 DEF Forget, rows, RowsGone
  <2>2. CASE SetVariants(item)
    <3>1. PICK r \in Rules : /\ rule' = [rule EXCEPT ![r].variants = rule[r].predicate]
                             /\ listing' = listing
      BY <2>2, SetVariantsEffect
    <3>2. Exists
      BY <1>0, <3>1 DEF RulesOK, RuleRows
    <3> QED BY <1>1, <3>1, <3>2
  <2>3. CASE MarkAfter(item)
    <3>1. CASE item.do = "mark products"
      <4>1. item.products \in SUBSET Products /\ MarkProducts(item.products) /\ rule' = rule
        BY <2>3, <3>1, MarkAfterEffect
      <4>2. Applied
        BY <1>0, <4>1, MarkProductsEffect DEF SameListing
      <4> QED BY <1>1, <4>1, <4>2
    <3>2. CASE item.do # "mark products"
      <4>1. PICK marked \in SUBSET Rules : MarkRules(marked) /\ listing' = listing
        BY <2>3, <3>2, MarkAfterEffect
      <4>2. Exists
        BY <1>0, <4>1, MarkRulesEffect DEF SameRule
      <4> QED BY <1>1, <4>1, <4>2
    <3> QED BY <3>1, <3>2
  <2>4. CASE Delete(item)
    <3>1. PICK r \in Rules :
            /\ rule' = [rule EXCEPT ![r] = Gone(r)]
            /\ \A p \in Products :
                 /\ listing'[p].price = listing[p].price
                 /\ listing'[p].discounted = listing[p].discounted
                 /\ listing'[p].dirty = listing[p].dirty
                 /\ listing'[p].applied = [listing[p].applied EXCEPT ![r] = 0]
      BY <2>4, DeleteEffect
    <3>2. \A q \in Rules : rule'[q] = IF q = r THEN Gone(r) ELSE rule[q]
      BY <1>0, <3>1 DEF RulesOK
    <3>3. \A p \in Products, q \in Rules :
            listing'[p].applied[q] = IF q = r THEN 0 ELSE listing[p].applied[q]
      BY ZenonT(40), <1>0, <3>1
    <3> QED BY <3>2, <3>3 DEF RowsGone
  <2> QED BY <1>3, <2>1, <2>2, <2>3, <2>4 DEF GoOn
<1>4. ASSUME NEW w \in Workers, Task(w) \/ Die(w)
      PROVE  RowsGone'
  <2>1. CASE ReadToggles(w) \/ ClearRead(w) \/ Select(w) \/ Die(w) \/ Notify(w)
    BY <2>1 DEF ReadToggles, ClearRead, Select, Die, Notify, rows, RowsGone
  <2>2. CASE MarkToggled(w)
    <3>1. job[w].rules \in SUBSET Rules /\ MarkRules(job[w].rules)
      BY <2>2, MarkToggledJob DEF ToggleJobs, MarkToggled
    <3> QED BY <1>0, <3>1, MarkRulesEffect DEF MarkRules, RowsGone, SameRule
  <2>3. CASE ClearMark(w)
    <3>1. OfExpired(job[w].since) \in SUBSET Products /\ MarkProducts(OfExpired(job[w].since))
      BY <2>3, <1>0, OfExpiredIs DEF ClearMark, OfExpired
    <3> QED BY <1>0, <3>1, MarkProductsEffect DEF MarkProducts, RowsGone, SameListing
  <2>4. CASE MarkTouched(w)
    <3>1. job[w].products \in SUBSET Products /\ MarkProducts(job[w].products)
      BY <2>4, MarkTouchedJob DEF MarkTouched
    <3> QED BY <1>0, <3>1, MarkProductsEffect DEF MarkProducts, RowsGone, SameListing
  <2>5. CASE ClearDelete(w)
    BY <2>5, ClearDeleteEffect DEF ClearDelete, RowsGone
  <2>6. CASE Relate(w)
    BY <2>6, RelateEffect DEF Relate, RowsGone
  <2>7. CASE ClearRules(w)
    BY <2>7, ClearRulesEffect DEF ClearRules, RowsGone, SameRule
  <2>8. CASE ClearPrices(w)
    <3>1. Applied
      BY <2>8, ClearPricesEffect DEF SameListing
    <3>2. Exists
      BY <2>8 DEF ClearPrices
    <3> QED BY <1>1, <3>1, <3>2
  <2>9. CASE Compute(w)
    <3>1. rule' = rule
      BY <2>9 DEF Compute
    <3>2. \A p \in Products : \A r \in Rules :
            listing'[p].applied[r] = listing[p].applied[r] \/ listing'[p].applied[r] = 0
      BY <2>9, ComputeJob, ComputeEffect
    <3> QED BY <3>1, <3>2 DEF RowsGone
  <2>10. CASE Write(w)
    <3>1. rule' = rule
      BY <2>10 DEF Write
    <3>2. \A p \in Products : \A r \in Rules : ~rule[r].exists =>
            listing'[p].applied[r] = listing[p].applied[r]
      BY <2>10, WriteEffect DEF Written
    <3> QED BY <3>1, <3>2 DEF RowsGone
  <2> QED
    BY <1>4, <2>1, <2>2, <2>3, <2>4, <2>5, <2>6, <2>7, <2>8, <2>9, <2>10
       DEF Task, Toggle, ClearVariants, UpdateVariants, Recalculate
<1>5. CASE Tick \/ UNCHANGED vars
  BY <1>5 DEF Tick, vars, rows, RowsGone
<1> QED
  BY <1>2, <1>3, <1>4, <1>5 DEF Next, Pause

LEMMA KnownNext ==
  ASSUME PromotionAssumption, Types, [Next]_vars, Known
  PROVE  Known'
BY BornGrows, BornItemsNext, BornJobsNext, RowsGoneNext DEF Known

\* Who has read a rule stays covered, if its variants only shrink, or it is told.
CoveredBy(w) == At(w, "relate") =>
  \A r \in DOMAIN job[w].picks \ job[w].stale :
    rule[r].variants \cup job[w].picks[r] \subseteq job[w].products

LEMMA GrownPicks ==
  ASSUME JobsOK, NEW v \in Workers, NEW marked, Grown(job[v], job'[v], marked),
         job'[v].at \in RuleKinds
  PROVE  /\ job'[v].at = job[v].at
         /\ job'[v].picks = job[v].picks /\ job'[v].products = job[v].products
         /\ job'[v].stale = job[v].stale \cup marked
<1>1. job'[v].at = job[v].at
  BY DEF Grown
<1>2. job[v] \in RuleJobs
  BY <1>1, JobIs DEF RuleKinds
<1> QED
  BY <1>1, <1>2 DEF Grown

LEMMA CoveredStays ==
  ASSUME JobsOK, BornJobs, NEW v \in Workers, CoveredBy(v), NEW kind, NEW marked,
         Grown(job[v], job'[v], IF job[v].at \in kind THEN marked ELSE {}),
         \A r \in Rules : Born(r) => \/ rule'[r].variants \subseteq rule[r].variants
                                     \/ "relate" \in kind /\ r \in marked
  PROVE  CoveredBy(v)'
<1> SUFFICES ASSUME job'[v].at = "relate", NEW r \in DOMAIN job'[v].picks \ job'[v].stale
             PROVE  rule'[r].variants \cup job'[v].picks[r] \subseteq job'[v].products
  BY DEF CoveredBy, At
<1>1. /\ job[v].at = "relate" /\ job'[v].picks = job[v].picks
      /\ job'[v].products = job[v].products
      /\ job'[v].stale = job[v].stale \cup (IF job[v].at \in kind THEN marked ELSE {})
  <2>1. job'[v].at \in RuleKinds
    BY DEF RuleKinds
  <2> QED BY <2>1, GrownPicks
<1>2. r \in Rules /\ Born(r)
  <2>1. job[v] \in RuleJobs
    BY <1>1, JobIs
  <2>2. r \in Rules
    BY <1>1, <2>1, PicksOf
  <2> QED BY <1>1, <2>2 DEF BornJobs, Mentions, RuleKinds
<1>3. rule'[r].variants \subseteq rule[r].variants
  BY <1>1, <1>2
<1>4. rule[r].variants \cup job[v].picks[r] \subseteq job[v].products
  BY <1>1 DEF CoveredBy, At
<1> QED
  BY <1>1, <1>3, <1>4

\* Only SetVariants and Relate give a rule variants that it did not have.
Shrinks == \A r \in Rules : Born(r) => rule'[r].variants \subseteq rule[r].variants

LEMMA CoveredNext ==
  ASSUME PromotionAssumption, Types, [Next]_vars, BornJobs, Covered
  PROVE  Covered'
<1>0. JobsOK /\ RulesOK /\ \A v \in Workers : CoveredBy(v)
  BY DEF Types, Covered, CoveredBy
<1>1. SUFFICES \A v \in Workers : CoveredBy(v)'
  BY DEF Covered, CoveredBy
<1>2. ASSUME NEW w \in Workers, NEW kind, NEW marked, Others(w, kind, marked), Shrinks
      PROVE  \A v \in Workers \ {w} : CoveredBy(v)'
  BY <1>0, <1>2, CoveredStays DEF Others, Shrinks
<1>3. ASSUME NEW w \in Workers, job'[w].at # "relate"
      PROVE  CoveredBy(w)'
  BY <1>3 DEF CoveredBy, At
<1>4. ASSUME job' = job, Shrinks
      PROVE  \A v \in Workers : CoveredBy(v)'
  <2>1. ASSUME NEW v \in Workers
        PROVE  Grown(job[v], job'[v], IF job[v].at \in {} THEN {} ELSE {})
    BY <1>0, <1>4, GrownSelf, JobIs
  <2> QED BY <1>0, <1>4, <2>1, CoveredStays DEF Shrinks
<1>5. ASSUME NEW kind, NEW marked, Everyone(kind, marked), Shrinks
      PROVE  \A v \in Workers : CoveredBy(v)'
  BY <1>0, <1>5, CoveredStays DEF Everyone, Shrinks
<1>6. ASSUME rule' = rule
      PROVE  Shrinks
  BY <1>6 DEF Shrinks
<1>7. CASE Request \/ Tick \/ UNCHANGED vars \/ \E item \in todo : Forget(item)
  <2>1. job' = job
    BY <1>7, RequestJobs
  <2>2. ASSUME NEW r \in Rules, NEW reward \in Rewards, NEW predicate \in Predicates,
               NEW dates \in Dates, CreatePromotion(r, predicate, reward, dates)
        PROVE  Shrinks
    BY <2>2, CreatePromotionEffect DEF Shrinks
  <2>3. ASSUME NEW r \in Rules, NEW reward \in Rewards, NEW predicate \in Predicates,
               UpdateRule(r, predicate, reward)
        PROVE  Shrinks
    BY <2>3, UpdateRuleEffect DEF Shrinks
  <2>4. ASSUME NEW r \in Rules, NEW p \in Products, ChangeCatalogue(r, p)
        PROVE  Shrinks
    BY <2>4, ChangeCatalogueEffect DEF Shrinks
  <2>5. ASSUME \/ \E r \in Rules, dates \in Dates : UpdatePromotion(r, dates)
               \/ \E r \in Rules : DeleteRule(r)
               \/ \E p \in Products, n \in Prices : SetPrice(p, n)
               \/ Tick \/ UNCHANGED vars \/ \E item \in todo : Forget(item)
        PROVE  Shrinks
    BY <2>5 DEF UpdatePromotion, DeleteRule, SetPrice, Tick, vars, rows, Forget, Shrinks
  <2> QED BY <1>4, <1>7, <2>1, <2>2, <2>3, <2>4, <2>5 DEF Request
<1>8. ASSUME NEW item \in todo, GoOn(item)
      PROVE  \A v \in Workers : CoveredBy(v)'
  <2>1. CASE Delete(item)
    <3>1. PICK r \in Rules : rule' = [rule EXCEPT ![r] = Gone(r)] /\ job' = job
      BY <2>1, DeleteEffect
    <3>2. \A q \in Rules : rule'[q] = IF q = r THEN Gone(r) ELSE rule[q]
      BY <1>0, <3>1 DEF RulesOK
    <3>3. Shrinks
      BY <3>2 DEF Shrinks, Gone
    <3> QED BY <1>4, <3>1, <3>3
  <2>2. CASE SetVariants(item)
    <3>1. PICK r \in Rules : /\ rule' = [rule EXCEPT ![r].variants = rule[r].predicate]
                             /\ Everyone({"relate"}, {r})
      BY <2>2, SetVariantsEffect
    <3>2. \A q \in Rules : rule'[q].variants = rule[q].variants \/ q \in {r}
      BY <1>0, <3>1 DEF RulesOK
    <3> QED BY <1>0, <3>1, <3>2, CoveredStays DEF Everyone
  <2>3. CASE MarkAfter(item)
    <3>1. CASE item.do = "mark products"
      <4>1. rule' = rule /\ Everyone(PriceKinds, item.products)
        BY <2>3, <3>1, MarkAfterEffect
      <4> QED BY <1>5, <1>6, <4>1
    <3>2. CASE item.do # "mark products"
      <4>1. PICK marked \in SUBSET Rules : MarkRules(marked) /\ Everyone(RuleKinds, marked)
        BY <2>3, <3>2, MarkAfterEffect
      <4>2. Shrinks
        BY <1>0, <4>1, MarkRulesEffect DEF SameRule, Shrinks
      <4> QED BY <1>5, <4>1, <4>2
    <3> QED BY <3>1, <3>2
  <2> QED BY <1>8, <2>1, <2>2, <2>3 DEF GoOn
<1>9. ASSUME NEW w \in Workers, Task(w) \/ Die(w)
      PROVE  \A v \in Workers : CoveredBy(v)'
  <2>1. ASSUME Shrinks, job'[w].at # "relate", NEW kind, NEW marked, Others(w, kind, marked)
        PROVE  \A v \in Workers : CoveredBy(v)'
    BY <1>2, <1>3, <2>1
  <2>2. CASE ReadToggles(w)
    <3>1. Others(w, {}, {}) /\ rule' = rule
      BY <2>2, ReadTogglesJob DEF ReadToggles, rows
    <3>2. job'[w].at # "relate"
      BY <2>2, ReadTogglesJob
    <3> QED BY <1>6, <2>1, <3>1, <3>2
  <2>3. CASE MarkToggled(w)
    <3>1. /\ Others(w, RuleKinds, job[w].rules) /\ job'[w].at # "relate"
          /\ job[w].rules \in SUBSET Rules /\ MarkRules(job[w].rules)
      BY <2>3, MarkToggledJob DEF ToggleJobs, MarkToggled
    <3>2. Shrinks
      BY <1>0, <3>1, MarkRulesEffect DEF SameRule, Shrinks
    <3> QED BY <2>1, <3>1, <3>2
  <2>4. CASE Notify(w)
    <3>1. Others(w, {}, {}) /\ job'[w] = Idle /\ rule' = rule
      BY <2>4, NotifyJob DEF Notify
    <3> QED BY <1>6, <2>1, <3>1, StageOf
  <2>5. CASE ClearRead(w)
    <3>1. /\ Others(w, {}, {}) /\ rule' = rule
          /\ job' = job \/ job'[w].at = "mark expired"
      BY <2>5, ClearReadJob DEF ClearRead, rows
    <3> QED BY <1>4, <1>6, <2>1, <3>1
  <2>6. CASE ClearMark(w)
    <3>1. /\ Others(w, PriceKinds, OfExpired(job[w].since))
          /\ job'[w].at = "clear expired" /\ rule' = rule
      BY <2>6, ClearMarkJob DEF ClearMark, MarkProducts
    <3> QED BY <1>6, <2>1, <3>1
  <2>7. CASE ClearDelete(w)
    <3>1. Others(w, {}, {}) /\ job'[w] = Idle
      BY <2>7, ClearDeleteJob
    <3>2. Shrinks
      BY <2>7, ClearDeleteEffect DEF Shrinks
    <3> QED BY <2>1, <3>1, <3>2, StageOf
  <2>8. CASE Select(w)
    <3>1. /\ Others(w, {}, {}) /\ rule' = rule
          /\ DOMAIN job'[w].picks = Selected
          /\ \A r \in Selected : /\ job'[w].picks[r] = rule[r].predicate
                                 /\ Touched(r) \subseteq job'[w].products
      BY <2>8, SelectJob DEF Select, rows
    <3>2. CoveredBy(w)'
      BY <3>1 DEF CoveredBy, Touched
    <3> QED BY <1>2, <1>6, <3>1, <3>2
  <2>9. CASE Relate(w)
    <3>1. /\ Others(w, {"relate"}, DOMAIN job[w].picks)
          /\ job'[w].at = "clear rules"
      BY <2>9, RelateJob
    <3>2. \A r \in Rules : /\ r \notin DOMAIN job[w].picks
                           => rule'[r].variants = rule[r].variants
      BY <2>9, RelateEffect
    <3>3. CoveredBy(w)'
      BY <1>3, <3>1
    <3> DEFINE marked == DOMAIN job[w].picks
    <3>4. ASSUME NEW v \in Workers \ {w}
          PROVE  CoveredBy(v)'
      <4>1. Grown(job[v], job'[v], IF job[v].at \in {"relate"} THEN marked ELSE {})
        BY <3>1 DEF Others
      <4>2. \A r \in Rules : rule'[r].variants \subseteq rule[r].variants \/ r \in marked
        BY <3>2
      <4> HIDE DEF marked
      <4> QED BY <1>0, <4>1, <4>2, CoveredStays
    <3> QED BY <3>3, <3>4
  <2>10. CASE ClearRules(w)
    <3>1. Others(w, {}, {}) /\ job'[w].at = "mark touched"
      BY <2>10, ClearRulesJob
    <3>2. Shrinks
      BY <2>10, ClearRulesEffect DEF SameRule, Shrinks
    <3> QED BY <2>1, <3>1, <3>2
  <2>11. CASE MarkTouched(w)
    <3>1. Others(w, PriceKinds, job[w].products) /\ job'[w] = Idle /\ rule' = rule
      BY <2>11, MarkTouchedJob DEF MarkTouched, MarkProducts
    <3> QED BY <1>6, <2>1, <3>1, StageOf
  <2>12. CASE Compute(w)
    <3>1. Others(w, {}, {}) /\ job'[w].at = "write" /\ rule' = rule
      BY <2>12, ComputeJob DEF ComputedJob, Compute
    <3> QED BY <1>6, <2>1, <3>1
  <2>13. CASE Write(w)
    <3>1. Others(w, {}, {}) /\ job'[w].at = "clear prices" /\ rule' = rule
      BY <2>13, WriteJob DEF Write
    <3> QED BY <1>6, <2>1, <3>1
  <2>14. CASE ClearPrices(w) \/ Die(w)
    <3>1. Others(w, {}, {}) /\ job'[w] = Idle /\ rule' = rule
      BY <2>14, ClearPricesJob, DieJob DEF ClearPrices, Die, rows
    <3> QED BY <1>6, <2>1, <3>1, StageOf
  <2> QED
    BY <1>9, <2>2, <2>3, <2>4, <2>5, <2>6, <2>7, <2>8, <2>9, <2>10, <2>11, <2>12, <2>13, <2>14
       DEF Task, Toggle, ClearVariants, UpdateVariants, Recalculate
<1> QED
  BY <1>7, <1>8, <1>9 DEF Next, Pause

\* What was missed stays missed, and what was withdrawn.
LEMMA HistoryGrows ==
  ASSUME PromotionAssumption, Types, [Next]_vars
  PROVE  /\ missed => missed'
         /\ withdrawn => withdrawn'
         /\ crossed \subseteq crossed'
<1>0. missed' \in BOOLEAN /\ withdrawn' \in BOOLEAN /\ missed \in BOOLEAN /\ withdrawn \in BOOLEAN
  BY TypesNext DEF Types, HistoryOK
<1>1. CASE Request
  BY ZenonT(40), <1>0, <1>1 DEF Request, CreatePromotion, UpdateRule, UpdatePromotion, DeleteRule,
                    ChangeCatalogue, SetPrice, Later, history
<1>2. ASSUME NEW item \in todo, GoOn(item) \/ Forget(item)
      PROVE  /\ missed => missed'
             /\ withdrawn => withdrawn'
             /\ crossed \subseteq crossed'
  BY <1>0, <1>2 DEF GoOn, Forget, Delete, SetVariants, MarkAfter
<1>3. ASSUME NEW w \in Workers, Task(w) \/ Die(w)
      PROVE  /\ missed => missed'
             /\ withdrawn => withdrawn'
             /\ crossed \subseteq crossed'
  BY <1>0, <1>3 DEF Task, Toggle, ClearVariants, UpdateVariants, Recalculate, ReadToggles,
              MarkToggled, Notify, ClearRead, ClearMark, ClearDelete, Select, Relate, ClearRules,
              MarkTouched, Compute, Write, ClearPrices, Die, history
<1>4. CASE Tick \/ UNCHANGED vars
  BY <1>4 DEF Tick, vars, history
<1> QED
  BY <1>1, <1>2, <1>3, <1>4 DEF Next, Pause

LEMMA TimesAre ==
  ASSUME PromotionAssumption, Types, NEW r \in Rules
  PROVE  /\ promotion[r].start \in Int /\ promotion[r].end \in Int
         /\ promotion[r].notified \in Int /\ promotion[r].notified <= now
         /\ now \in Nat /\ promotion[r].end <= Never /\ now < Never /\ Never \in Nat
<1>1. promotion[r] \in Promotions /\ promotion[r].notified <= now
  BY DEF Types, Clock
<1>2. now \in 0 .. MaxTime /\ MaxTime \in Nat
  BY DEF Types, Clock, PromotionAssumption
<1>3. /\ promotion[r].start \in -1 .. MaxTime /\ promotion[r].end \in -1 .. Never
      /\ promotion[r].notified \in -1 .. MaxTime
  BY <1>1 DEF Promotions
<1> QED
  BY <1>1, <1>2, <1>3 DEF Never

\* Only a request changes the dates of a promotion that was created.
LEMMA DatesStay ==
  ASSUME PromotionAssumption, Types, [Next]_vars, NEW r \in Rules, Born(r)
  PROVE  \/ promotion'[r].start = promotion[r].start /\ promotion'[r].end = promotion[r].end
         \/ \E dates \in Dates : UpdatePromotion(r, dates)
<1> DEFINE Goal == \/ promotion'[r].start = promotion[r].start
                      /\ promotion'[r].end = promotion[r].end
                   \/ \E dates \in Dates : UpdatePromotion(r, dates)
<1>1. ASSUME PromotionsStay
      PROVE  Goal
  BY <1>1 DEF PromotionsStay
<1>2. ASSUME NEW q \in Rules, NEW reward \in Rewards, NEW predicate \in Predicates,
             NEW dates \in Dates, CreatePromotion(q, predicate, reward, dates)
      PROVE  Goal
  <2>1. ~Born(q)
    <3>1. promotion[q] = NoPromotion
      BY <1>2, CreatePromotionEffect
    <3>2. promotion[q].start = -1
      BY <3>1 DEF NoPromotion
    <3> QED BY <3>2 DEF Born
  <2>2. q # r
    BY <2>1
  <2> QED BY <1>2, <2>2, CreatePromotionEffect
<1>3. ASSUME NEW q \in Rules, NEW dates \in Dates, UpdatePromotion(q, dates)
      PROVE  Goal
  <2>1. CASE q # r
    BY <1>3, <2>1, UpdatePromotionEffect
  <2>2. CASE q = r
    BY <1>3, <2>2
  <2> QED BY <2>1, <2>2
<1>4. ASSUME NEW v \in Workers, Notify(v)
      PROVE  Goal
  BY <1>4, NotifyEffect
<1> HIDE DEF Goal
<1>5. Goal
  BY <1>1, <1>2, <1>3, <1>4, PromotionSteps
<1> QED BY <1>5 DEF Goal

LEMMA ClearsExpiredNext ==
  ASSUME PromotionAssumption, Types, [Next]_vars, Known, ClearsExpired
  PROVE  ClearsExpired'
<1> SUFFICES ASSUME ~missed', NEW w \in Workers,
                    job'[w].at \in {"mark expired", "clear expired"}
             PROVE  /\ job'[w].since <= now'
                    /\ \A r \in DOMAIN job'[w].pairs : promotion'[r].end <= job'[w].since
  BY DEF ClearsExpired
<1>1. ~missed
  BY HistoryGrows
<1>2. now \in Nat /\ now' \in Nat /\ now <= now'
  BY NowGrows
<1>3. JobsOK'
  BY TypesNext DEF Types
<1>4. job'[w] \in ClearJobs
  <2>1. job'[w] \in Jobs
    BY <1>3 DEF JobsOK
  <2> QED BY <2>1, ClearKind
<1>5. job'[w].since \in Nat
  BY <1>4 DEF ClearJobs
<1>6. \/ /\ job[w].at \in {"mark expired", "clear expired"}
         /\ job'[w].pairs = job[w].pairs /\ job'[w].since = job[w].since
      \/ /\ \A q \in DOMAIN job'[w].pairs : q \in Rules /\ Expired(q)
         /\ job'[w].since = now
  <2>1. Remembers(w)
    BY JobsRemember
  <2> QED BY <2>1 DEF Remembers
<1>7. job'[w].since <= now
  <2>1. CASE /\ job[w].at \in {"mark expired", "clear expired"}
             /\ job'[w].since = job[w].since
    <3>1. job[w].since <= now
      BY <1>1, <2>1 DEF ClearsExpired
    <3> QED BY <2>1, <3>1
  <2>2. CASE job'[w].since = now
    BY ONLY <1>2, <2>2
  <2> QED BY <1>6, <2>1, <2>2
<1>8. job'[w].since <= now'
  BY ONLY <1>2, <1>5, <1>7
<1>9. ASSUME NEW r \in DOMAIN job'[w].pairs
      PROVE  promotion'[r].end <= job'[w].since
  <2>1. /\ r \in Rules /\ promotion[r].end <= job'[w].since
        /\ \/ /\ job[w].at \in {"mark expired", "clear expired"}
              /\ r \in DOMAIN job[w].pairs
           \/ rule[r].exists
    <3>1. r \in Rules
      BY <1>4, PairsOf
    <3>2. CASE /\ job[w].at \in {"mark expired", "clear expired"}
               /\ job'[w].pairs = job[w].pairs /\ job'[w].since = job[w].since
      BY <1>1, <3>1, <3>2 DEF ClearsExpired
    <3>3. CASE /\ \A q \in DOMAIN job'[w].pairs : q \in Rules /\ Expired(q)
               /\ job'[w].since = now
      BY <3>3 DEF Expired
    <3> QED BY <1>6, <3>2, <3>3
  <2>2. Born(r)
    BY <2>1 DEF Known, BornRules, BornJobs, Mentions
  <2>3. CASE promotion'[r].end = promotion[r].end
    BY <2>1, <2>3
  <2>4. ASSUME NEW dates \in Dates, UpdatePromotion(r, dates)
        PROVE  promotion'[r].end <= job'[w].since
    <3>1. /\ missed' = (missed \/ \E v \in Clearing(r) : job[v].since < dates[2])
          /\ job' = job
      BY <2>4 DEF UpdatePromotion
    <3>2. w \in Clearing(r)
      BY <3>1 DEF Clearing
    <3>3. ~(job[w].since < dates[2])
      BY <3>1, <3>2
    <3>4. dates[2] \in Int
      <4>1. Never \in Nat /\ dates[2] \in 0 .. Never
        BY DatesAre, TimesAre, <2>1
      <4> QED BY ONLY <4>1
    <3>5. job[w].since \in Nat
      BY <1>5, <3>1
    <3>6. dates[2] <= job[w].since
      BY ONLY <3>3, <3>4, <3>5
    <3>7. promotion'[r].end = dates[2]
      BY <2>1, <2>4, UpdatePromotionEffect
    <3> QED BY <3>1, <3>6, <3>7
  <2> QED
    BY <2>1, <2>2, <2>3, <2>4, DatesStay
<1> QED
  BY <1>8, <1>9

\* What a task clears is over.
LEMMA ClearedEnded ==
  ASSUME PromotionAssumption, Types, ClearsExpired, ~missed, NEW w \in Workers,
         job[w].at \in {"mark expired", "clear expired"}, NEW r \in DOMAIN job[w].pairs
  PROVE  r \in Rules /\ promotion[r].end <= now
<1>1. job[w] \in ClearJobs
  BY JobIs DEF Types
<1>2. r \in Rules
  BY <1>1, PairsOf
<1>3. job[w].since \in Nat /\ promotion[r].end \in Int /\ now \in Nat
  BY <1>1, <1>2, TimesAre DEF ClearJobs
<1>4. job[w].since <= now /\ promotion[r].end <= job[w].since
  BY DEF ClearsExpired
<1> QED
  BY ONLY <1>2, <1>3, <1>4

-----------------------------------------------------------------------------
(* Variants of active rules are those of their predicates, unless a mark,  *)
(* an item of a request or a task will make them so.                       *)

ToMark(r) == \E item \in todo : item.do = "mark rules" /\ r \in item.rules

ItemFor(r) == \/ ToMark(r)
              \/ \E item \in todo : \/ item.do = "mark active"
                                    \/ item.do = "set variants" /\ r \in item.rules

Picked(w, r) == job[w].at \in RuleKinds /\ r \in DOMAIN job[w].picks

\* Tasks that have picked the rule will give it, or gave it, what it selects.
InTouch(r) ==
  \A w \in Workers : Picked(w, r) =>
    \/ r \in job[w].stale
    \/ rule[r].predicate = IF job[w].at = "relate" THEN job[w].picks[r] ELSE rule[r].variants

Sound(r) == \/ ItemFor(r)
            \/ InTouch(r) /\ (rule[r].dirty \/ rule[r].variants = rule[r].predicate)

\* A mark that no task will clear.
Marked(r) == \/ ToMark(r)
             \/ rule[r].dirty /\ \A w \in Workers : Picked(w, r) => r \in job[w].stale

NoticedBy(w, stages, r) == job[w].at \in stages /\ r \in job[w].rules
Noticing(r, stages) == \E w \in Workers : NoticedBy(w, stages, r)

\* A rule that starts is noticed, unless it was marked when its date was changed.
SoundInTime(r) ==
  /\ Active(r) => Sound(r) \/ (r \in Starting /\ ~Noticing(r, {"notify"}))
  /\ promotion[r].start > now /\ Noticing(r, {"toggled", "notify"}) => Marked(r)

VariantsRight == ~missed => \A r \in Rules : rule[r].exists => SoundInTime(r)

LEMMA MarkedSound ==
  ASSUME NEW r, Marked(r)
  PROVE  Sound(r)
BY DEF Marked, Sound, ItemFor, InTouch

\* What keeps a rule right: neither it nor what is done about it changes.
SteadyRule(r) == /\ rule'[r].exists = rule[r].exists
                 /\ rule'[r].predicate = rule[r].predicate
                 /\ rule'[r].variants = rule[r].variants
                 /\ rule[r].dirty => rule'[r].dirty

SteadyPick(w, r) == Picked(w, r)' => /\ Picked(w, r)
                                     /\ job'[w].at = job[w].at
                                     /\ job'[w].picks = job[w].picks
                                     /\ r \in job[w].stale => r \in job'[w].stale

SteadyNotice(w, r) == \A stages \in SUBSET {"toggled", "notify"} :
                        NoticedBy(w, stages, r)' => NoticedBy(w, stages, r)

SteadyItems(r) == (ItemFor(r) => ItemFor(r)') /\ (ToMark(r) => ToMark(r)')

SteadyDates(r) == promotion' = promotion /\ now' = now

LEMMA SteadyMeans ==
  ASSUME NEW r, SteadyRule(r), SteadyItems(r), \A w \in Workers : SteadyPick(w, r)
  PROVE  (Sound(r) => Sound(r)') /\ (Marked(r) => Marked(r)')
<1>1. InTouch(r) => InTouch(r)'
  <2> SUFFICES ASSUME InTouch(r), NEW w \in Workers, Picked(w, r)'
               PROVE  \/ r \in job'[w].stale
                      \/ rule'[r].predicate = IF job'[w].at = "relate" THEN job'[w].picks[r]
                                              ELSE rule'[r].variants
    BY DEF InTouch
  <2>1. /\ Picked(w, r) /\ job'[w].at = job[w].at
        /\ job'[w].picks = job[w].picks
        /\ r \in job[w].stale => r \in job'[w].stale
    BY DEF SteadyPick
  <2> QED BY <2>1 DEF InTouch, SteadyRule
<1>2. Sound(r) => Sound(r)'
  BY <1>1 DEF Sound, SteadyItems, SteadyRule
<1>3. Marked(r) => Marked(r)'
  BY DEF Marked, SteadyItems, SteadyRule, SteadyPick
<1> QED
  BY <1>2, <1>3

LEMMA SteadySound ==
  ASSUME NEW r \in Rules, SteadyRule(r), SteadyItems(r), SteadyDates(r), SoundInTime(r),
         \A w \in Workers : SteadyPick(w, r) /\ SteadyNotice(w, r)
  PROVE  SoundInTime(r)'
<1>1. (Sound(r) => Sound(r)') /\ (Marked(r) => Marked(r)')
  BY SteadyMeans
<1>2. \A stages \in SUBSET {"toggled", "notify"} : Noticing(r, stages)' => Noticing(r, stages)
  BY DEF Noticing, SteadyNotice
<1>3. /\ Noticing(r, {"notify"})' => Noticing(r, {"notify"})
      /\ Noticing(r, {"toggled", "notify"})' => Noticing(r, {"toggled", "notify"})
  BY <1>2
<1>4. Active(r)' <=> Active(r)
  BY DEF Active, SteadyRule, SteadyDates
<1>5. r \in Starting => r \in Starting'
  BY DEF Starting, SteadyRule, SteadyDates
<1>6. promotion'[r].start > now' => promotion[r].start > now
  BY DEF SteadyDates
<1> QED
  BY <1>1, <1>3, <1>4, <1>5, <1>6 DEF SoundInTime

\* Jobs that stay, or are overtaken, keep a rule right; so do jobs of other kinds.
LEMMA GrownSteady ==
  ASSUME JobsOK, NEW v \in Workers, NEW marked, Grown(job[v], job'[v], marked)
  PROVE  \A r : SteadyPick(v, r) /\ SteadyNotice(v, r)
<1>1. job'[v].at \in RuleKinds => /\ job'[v].at = job[v].at /\ job'[v].picks = job[v].picks
                                  /\ job'[v].stale = job[v].stale \cup marked
  BY GrownPicks
<1>2. job'[v].at \in {"toggled", "notify"} => job'[v].at = job[v].at /\ job'[v].rules = job[v].rules
  BY GrownMeans
<1>3. \A r : SteadyPick(v, r)
  BY <1>1 DEF SteadyPick, Picked
<1>4. \A r : SteadyNotice(v, r)
  BY <1>2 DEF SteadyNotice, NoticedBy
<1> QED
  BY <1>3, <1>4

LEMMA OtherSteady ==
  ASSUME NEW w
  PROVE  /\ job'[w].at \notin RuleKinds => \A r : SteadyPick(w, r)
         /\ job'[w].at \notin {"toggled", "notify"} => \A r : SteadyNotice(w, r)
BY DEF SteadyPick, Picked, SteadyNotice, NoticedBy

LEMMA OthersSteady ==
  ASSUME JobsOK, NEW w \in Workers, NEW kind, NEW marked, Others(w, kind, marked)
  PROVE  \A v \in Workers \ {w} : \A r : SteadyPick(v, r) /\ SteadyNotice(v, r)
<1> SUFFICES ASSUME NEW v \in Workers \ {w}
             PROVE  \A r : SteadyPick(v, r) /\ SteadyNotice(v, r)
  OBVIOUS
<1>1. Grown(job[v], job'[v], IF job[v].at \in kind THEN marked ELSE {})
  BY DEF Others
<1> QED
  BY <1>1, GrownSteady

LEMMA EveryoneSteady ==
  ASSUME JobsOK, NEW kind, NEW marked, Everyone(kind, marked)
  PROVE  \A v \in Workers : \A r : SteadyPick(v, r) /\ SteadyNotice(v, r)
<1> SUFFICES ASSUME NEW v \in Workers
             PROVE  \A r : SteadyPick(v, r) /\ SteadyNotice(v, r)
  OBVIOUS
<1>1. Grown(job[v], job'[v], IF job[v].at \in kind THEN marked ELSE {})
  BY DEF Everyone
<1> QED
  BY <1>1, GrownSteady

LEMMA SameSteady ==
  ASSUME NEW r
  PROVE  /\ job' = job => \A w \in Workers : SteadyPick(w, r) /\ SteadyNotice(w, r)
         /\ rule' = rule => SteadyRule(r)
         /\ todo \subseteq todo' => SteadyItems(r)
<1>1. todo \subseteq todo' => SteadyItems(r)
  BY DEF SteadyItems, ItemFor, ToMark
<1> QED
  BY <1>1 DEF SteadyPick, SteadyNotice, SteadyRule, Picked, NoticedBy

LEMMA NotMentioned ==
  ASSUME Types, Known, NEW r \in Rules, ~Born(r)
  PROVE  /\ ~rule[r].exists
         /\ \A w \in Workers : ~Picked(w, r) /\ ~NoticedBy(w, {"toggled", "notify"}, r)
         /\ \A item \in todo : r \notin item.rules
BY DEF Known, BornRules, BornJobs, BornItems, Mentions, Picked, NoticedBy

LEMMA RequestSound ==
  ASSUME PromotionAssumption, Types, Known, Request, NEW r \in Rules, rule'[r].exists,
         rule[r].exists => SoundInTime(r)
  PROVE  SoundInTime(r)'
<1>1. ASSUME NEW q \in Rules, NEW reward \in Rewards, NEW predicate \in Predicates,
             NEW dates \in Dates, CreatePromotion(q, predicate, reward, dates)
      PROVE  SoundInTime(r)'
  <2>1. /\ job' = job /\ todo' = todo /\ now' = now
        /\ promotion[q] = NoPromotion
        /\ rule'[q].exists /\ rule'[q].dirty
        /\ \A s \in Rules \ {q} : rule'[s] = rule[s] /\ promotion'[s] = promotion[s]
    BY <1>1, CreatePromotionEffect DEF CreatePromotion
  <2>2. CASE r = q
    <3>1. promotion[q].start = -1
      BY <2>1 DEF NoPromotion
    <3>2. ~Born(q)
      BY <3>1 DEF Born
    <3>3. \A w \in Workers : ~Picked(w, r)' /\ ~NoticedBy(w, {"toggled", "notify"}, r)'
      BY <2>1, <2>2, <3>2, NotMentioned DEF Picked, NoticedBy
    <3>4. Marked(r)'
      BY <2>1, <2>2, <3>3 DEF Marked
    <3>5. Sound(r)'
      BY <2>1, <2>2, <3>3 DEF Sound, InTouch
    <3> QED BY <3>4, <3>5 DEF SoundInTime
  <2>3. CASE r # q
    <3>1. rule'[r] = rule[r] /\ promotion'[r] = promotion[r]
      BY <2>1, <2>3
    <3>2. SteadyItems(r) /\ \A w \in Workers : SteadyPick(w, r) /\ SteadyNotice(w, r)
      BY <2>1, SameSteady
    <3>3. SteadyRule(r)
      BY <3>1 DEF SteadyRule
    <3>4. (Sound(r) => Sound(r)') /\ (Marked(r) => Marked(r)')
      BY <3>2, <3>3, SteadyMeans
    <3>5. \A stages : Noticing(r, stages)' <=> Noticing(r, stages)
      BY <2>1 DEF Noticing, NoticedBy
    <3>6. Active(r)' <=> Active(r)
      BY <2>1, <3>1 DEF Active
    <3>7. r \in Starting => r \in Starting'
      BY <2>1, <3>1 DEF Starting
    <3> QED BY <2>1, <3>1, <3>4, <3>5, <3>6, <3>7 DEF SoundInTime
  <2> QED BY <2>2, <2>3
<1>2. ASSUME NEW q \in Rules, NEW dates \in Dates, UpdatePromotion(q, dates)
      PROVE  SoundInTime(r)'
  <2>1. /\ job' = job /\ rule' = rule /\ now' = now
        /\ todo' = todo \cup {Item("mark rules", {q}, {})}
        /\ \A s \in Rules \ {q} : promotion'[s] = promotion[s]
    BY <1>2, UpdatePromotionEffect DEF UpdatePromotion
  <2>2. CASE r = q
    <3>1. ToMark(r)'
      <4>1. \E item \in todo' : item.do = "mark rules" /\ item.rules = {q}
        <5>1. Item("mark rules", {q}, {}) \in todo'
          BY <2>1
        <5> QED BY ONLY <5>1 DEF Item
      <4> QED BY <2>2, <4>1 DEF ToMark
    <3>2. Marked(r)' /\ Sound(r)'
      BY <3>1 DEF Marked, Sound, ItemFor
    <3> QED BY <3>2 DEF SoundInTime
  <2>3. CASE r # q
    <3>1. promotion'[r] = promotion[r]
      BY <2>1, <2>3
    <3>2. /\ SteadyItems(r) /\ SteadyRule(r)
          /\ \A w \in Workers : SteadyPick(w, r) /\ SteadyNotice(w, r)
      BY <2>1, SameSteady
    <3>4. (Sound(r) => Sound(r)') /\ (Marked(r) => Marked(r)')
      BY <3>2, SteadyMeans
    <3>5. \A stages : Noticing(r, stages)' <=> Noticing(r, stages)
      BY <2>1 DEF Noticing, NoticedBy
    <3>6. Active(r)' <=> Active(r)
      BY <2>1, <3>1 DEF Active
    <3>7. r \in Starting => r \in Starting'
      BY <2>1, <3>1 DEF Starting
    <3> QED BY <2>1, <3>1, <3>4, <3>5, <3>6, <3>7 DEF SoundInTime
  <2> QED BY <2>2, <2>3
<1>3. ASSUME job' = job, promotion' = promotion, now' = now, todo \subseteq todo',
             rule[r].exists, rule'[r].dirty = rule[r].dirty, SteadyRule(r) \/ ItemFor(r)'
      PROVE  SoundInTime(r)'
  <2>1. \A w \in Workers : SteadyPick(w, r) /\ SteadyNotice(w, r)
    BY <1>3, SameSteady
  <2>2. SteadyItems(r)
    BY <1>3, SameSteady
  <2>3. CASE SteadyRule(r)
    BY <1>3, <2>1, <2>2, <2>3, SteadySound DEF SteadyDates
  <2>4. CASE ItemFor(r)'
    <3>1. Marked(r) => Marked(r)'
      BY <1>3, <2>1, <2>2 DEF Marked, SteadyItems, SteadyPick
    <3>2. Noticing(r, {"toggled", "notify"})' => Noticing(r, {"toggled", "notify"})
      BY <1>3 DEF Noticing, NoticedBy
    <3> QED BY <1>3, <2>4, <3>1, <3>2 DEF SoundInTime, Sound
  <2> QED BY <1>3, <2>3, <2>4
<1>4. ASSUME NEW q \in Rules, NEW reward \in Rewards, NEW predicate \in Predicates,
             UpdateRule(q, predicate, reward)
      PROVE  SoundInTime(r)'
  <2>1. /\ job' = job /\ promotion' = promotion /\ now' = now
        /\ todo' = todo \cup {Item("set variants", {q}, rule[q].variants)}
    BY <1>4 DEF UpdateRule, Later
  <2>2. /\ rule[q].exists /\ rule'[q].dirty = rule[q].dirty
        /\ \A s \in Rules \ {q} : rule'[s] = rule[s]
    BY <1>4, UpdateRuleEffect
  <2>3. r = q => ItemFor(r)'
    <3>1. \E item \in todo' : item.do = "set variants" /\ item.rules = {q}
      <4>1. Item("set variants", {q}, rule[q].variants) \in todo'
        BY <2>1
      <4> QED BY ONLY <4>1 DEF Item
    <3> QED BY <3>1 DEF ItemFor
  <2>4. r # q => SteadyRule(r)
    BY <2>2 DEF SteadyRule
  <2>5. rule[r].exists /\ rule'[r].dirty = rule[r].dirty /\ todo \subseteq todo'
    BY <2>1, <2>2
  <2> QED BY <1>3, <2>1, <2>3, <2>4, <2>5
<1>5. ASSUME NEW q \in Rules, NEW p \in Products, ChangeCatalogue(q, p)
      PROVE  SoundInTime(r)'
  <2>1. /\ job' = job /\ promotion' = promotion /\ now' = now
        /\ todo' = todo \cup {Item("mark active", {}, {})}
    BY <1>5 DEF ChangeCatalogue, Later
  <2>2. /\ rule[q].exists /\ rule'[q].dirty = rule[q].dirty
        /\ \A s \in Rules \ {q} : rule'[s] = rule[s]
    BY <1>5, ChangeCatalogueEffect
  <2>3. ItemFor(r)'
    <3>1. \E item \in todo' : item.do = "mark active"
      <4>1. Item("mark active", {}, {}) \in todo'
        BY <2>1
      <4> QED BY ONLY <4>1 DEF Item
    <3> QED BY <3>1 DEF ItemFor
  <2>5. rule[r].exists /\ rule'[r].dirty = rule[r].dirty /\ todo \subseteq todo'
    BY <2>1, <2>2
  <2> QED BY <1>3, <2>1, <2>3, <2>5
<1>6. ASSUME \/ \E q \in Rules : DeleteRule(q)
             \/ \E p \in Products, n \in Prices : SetPrice(p, n)
      PROVE  SoundInTime(r)'
  <2>1. /\ job' = job /\ promotion' = promotion /\ now' = now
        /\ todo \subseteq todo' /\ rule' = rule
    BY <1>6 DEF DeleteRule, SetPrice, Later, rows
  <2>2. SteadyRule(r)
    BY <2>1, SameSteady
  <2> QED BY <1>3, <2>1, <2>2
<1> QED
  BY <1>1, <1>2, <1>4, <1>5, <1>6 DEF Request

LEMMA TickSound ==
  ASSUME PromotionAssumption, Types, Known, Tick, NEW r \in Rules, rule'[r].exists,
         rule[r].exists => SoundInTime(r)
  PROVE  SoundInTime(r)'
<1>1. /\ job' = job /\ promotion' = promotion /\ todo' = todo /\ rule' = rule
      /\ now' = now + 1 /\ now \in Nat
  BY TimesAre DEF Tick, rows
<1>2. (Sound(r)' <=> Sound(r)) /\ (Marked(r)' <=> Marked(r))
  BY <1>1 DEF Sound, Marked, ItemFor, ToMark, InTouch, Picked
<1>3. \A stages : Noticing(r, stages)' <=> Noticing(r, stages)
  BY <1>1 DEF Noticing, NoticedBy
<1>4. /\ promotion[r].start \in Int /\ promotion[r].end \in Int
      /\ promotion[r].notified \in Int /\ promotion[r].notified <= now
  BY TimesAre
<1>5. SoundInTime(r)
  BY <1>1
<1>6. promotion'[r].start > now' => promotion[r].start > now
  BY <1>1, <1>4
<1>7. ASSUME Active(r)'
      PROVE  Sound(r)' \/ (r \in Starting' /\ ~Noticing(r, {"notify"})')
  <2>1. rule[r].exists /\ promotion[r].start <= now + 1 /\ now + 1 < promotion[r].end
    BY <1>1, <1>7 DEF Active
  <2>2. CASE promotion[r].start <= now
    <3>1. Active(r)
      BY <1>1, <1>4, <2>1, <2>2 DEF Active
    <3>2. r \in Starting => r \in Starting'
      BY <1>1, <1>4 DEF Starting
    <3> QED BY <1>2, <1>3, <1>5, <3>1, <3>2 DEF SoundInTime
  <2>3. CASE promotion[r].start > now
    <3>1. promotion[r].notified < promotion[r].start
      BY <1>1, <1>4, <2>3
    <3>2. r \in Starting'
      BY <1>1, <2>1, <3>1 DEF Starting
    <3>3. Noticing(r, {"notify"}) => Sound(r)
      BY <1>5, <2>3, MarkedSound DEF SoundInTime, Noticing, NoticedBy
    <3> QED BY <1>2, <1>3, <3>2, <3>3
  <2> QED BY <1>1, <1>4, <2>2, <2>3
<1> QED
  BY <1>2, <1>3, <1>5, <1>6, <1>7 DEF SoundInTime

LEMMA ItemSound ==
  ASSUME PromotionAssumption, Types, Known, NEW item \in todo, GoOn(item), NEW r \in Rules,
         rule'[r].exists, rule[r].exists => SoundInTime(r)
  PROVE  SoundInTime(r)'
<1>0. RulesOK /\ ListingsOK /\ JobsOK /\ now' = now
  BY DEF Types, GoOn
<1>1. ASSUME Remaining(item) \subseteq todo',
             item.do \in {"delete", "mark products"} \/ r \notin item.rules,
             item.do # "mark active"
      PROVE  SteadyItems(r)
  BY <1>1 DEF SteadyItems, ItemFor, ToMark, Remaining
<1>2. CASE Delete(item)
  <2>1. PICK q \in Rules : /\ item.do = "delete" /\ rule' = [rule EXCEPT ![q] = Gone(q)]
                           /\ Remaining(item) \subseteq todo' /\ UNCHANGED <<promotion, job>>
    BY <1>2, DeleteEffect
  <2>2. \A s \in Rules : rule'[s] = IF s = q THEN Gone(q) ELSE rule[s]
    BY <1>0, <2>1 DEF RulesOK
  <2>3. r # q /\ rule'[r] = rule[r]
    BY <2>2 DEF Gone
  <2>4. SteadyRule(r) /\ SteadyItems(r)
    BY <1>1, <2>1, <2>3 DEF SteadyRule
  <2>5. \A w \in Workers : SteadyPick(w, r) /\ SteadyNotice(w, r)
    BY <2>1, SameSteady
  <2> QED BY <1>0, <2>1, <2>3, <2>4, <2>5, SteadySound DEF SteadyDates
<1>3. CASE SetVariants(item)
  <2>1. PICK q \in Rules : /\ item.do = "set variants" /\ item.rules = {q}
                           /\ rule' = [rule EXCEPT ![q].variants = rule[q].predicate]
                           /\ Remaining(item) \subseteq todo'
                           /\ Everyone({"relate"}, {q}) /\ promotion' = promotion
    BY <1>3, SetVariantsEffect
  <2>2. \A w \in Workers : SteadyPick(w, r) /\ SteadyNotice(w, r)
    BY <1>0, <2>1, EveryoneSteady
  <2>3. CASE r # q
    <3>1. SteadyRule(r)
      BY <1>0, <2>1, <2>3 DEF SteadyRule, RulesOK, RuleRows
    <3>2. SteadyItems(r)
      BY <1>1, <2>1, <2>3
    <3>3. rule[r].exists
      BY <3>1 DEF SteadyRule
    <3> QED BY <1>0, <2>1, <2>2, <3>1, <3>2, <3>3, SteadySound DEF SteadyDates
  <2>4. CASE r = q
    <3>1. /\ rule'[r].exists = rule[r].exists /\ rule'[r].dirty = rule[r].dirty
          /\ rule'[r].predicate = rule[r].predicate /\ rule'[r].variants = rule[r].predicate
      <4>1. rule' = [rule EXCEPT ![r].variants = rule[r].predicate]
        BY <2>1, <2>4
      <4>2. rule'[r] = [rule[r] EXCEPT !.variants = rule[r].predicate]
        BY <1>0, <4>1 DEF RulesOK
      <4> QED BY ZenonT(40), <1>0, <4>2 DEF RulesOK, RuleRows
    <3>2. InTouch(r)'
      <4> SUFFICES ASSUME NEW w \in Workers, Picked(w, r)'
                   PROVE  \/ r \in job'[w].stale
                          \/ rule'[r].predicate = IF job'[w].at = "relate"
                                                  THEN job'[w].picks[r]
                                                  ELSE rule'[r].variants
        BY DEF InTouch
      <4>1. CASE job'[w].at = "relate"
        <5>1. Grown(job[w], job'[w], IF job[w].at \in {"relate"} THEN {q} ELSE {})
          BY <2>1 DEF Everyone
        <5>2. job[w].at = "relate"
          BY <4>1, <5>1 DEF Grown
        <5>3. Grown(job[w], job'[w], {q})
          BY <5>1, <5>2
        <5>4. job'[w].stale = job[w].stale \cup {q}
          BY <1>0, <4>1, <5>3, GrownPicks DEF RuleKinds
        <5> QED BY <2>4, <5>4
      <4>2. CASE job'[w].at # "relate"
        BY <3>1, <4>2
      <4> QED BY <4>1, <4>2
    <3>3. Sound(r)'
      BY <3>1, <3>2 DEF Sound
    <3>4. ToMark(r) => ToMark(r)'
      BY <2>1 DEF ToMark, Remaining
    <3>5. Marked(r) => Marked(r)'
      BY <2>2, <3>1, <3>4 DEF Marked, SteadyPick
    <3>6. Noticing(r, {"toggled", "notify"})' => Noticing(r, {"toggled", "notify"})
      BY <2>2 DEF Noticing, SteadyNotice
    <3> QED BY <1>0, <2>1, <3>1, <3>3, <3>5, <3>6 DEF SoundInTime
  <2> QED BY <2>3, <2>4
<1>4. CASE MarkAfter(item)
  <2>0. Remaining(item) \subseteq todo' /\ promotion' = promotion
    BY <1>4, MarkAfterEffect
  <2>1. CASE item.do = "mark products"
    <3>1. rule' = rule /\ Everyone(PriceKinds, item.products)
      BY <1>4, <2>1, MarkAfterEffect
    <3>2. \A w \in Workers : SteadyPick(w, r) /\ SteadyNotice(w, r)
      BY <1>0, <3>1, EveryoneSteady
    <3>3. SteadyRule(r) /\ SteadyItems(r) /\ rule[r].exists
      BY <1>1, <2>0, <2>1, <3>1, SameSteady
    <3> QED BY <1>0, <2>0, <3>2, <3>3, SteadySound DEF SteadyDates
  <2>2. CASE item.do # "mark products"
    <3>1. PICK marked \in SUBSET Rules :
            /\ item.do \in {"mark active", "mark rules"}
            /\ \A s \in Rules : s \in marked <=> IF item.do = "mark active" THEN Active(s)
                                                 ELSE s \in item.rules
            /\ MarkRules(marked) /\ Everyone(RuleKinds, marked)
      BY <1>4, <2>2, MarkAfterEffect
    <3>2. \A w \in Workers : SteadyPick(w, r) /\ SteadyNotice(w, r)
      BY <1>0, <3>1, EveryoneSteady
    <3>3. /\ SameRule(r)
          /\ rule'[r].dirty = IF r \in marked THEN rule[r].exists ELSE rule[r].dirty
      BY <1>0, <3>1, MarkRulesEffect
    <3>4. SteadyRule(r) /\ rule[r].exists
      BY <3>3 DEF SteadyRule, SameRule
    <3>5. CASE r \in marked
      <4>1. ASSUME NEW w \in Workers, Picked(w, r)'
            PROVE  r \in job'[w].stale
        <5>1. Grown(job[w], job'[w], IF job[w].at \in RuleKinds THEN marked ELSE {})
          BY <3>1 DEF Everyone
        <5>2. job'[w].at \in RuleKinds /\ job[w].at = job'[w].at
          BY <4>1, <5>1 DEF Grown, Picked
        <5>3. Grown(job[w], job'[w], marked)
          BY <5>1, <5>2
        <5>4. job'[w].stale = job[w].stale \cup marked
          BY <1>0, <5>2, <5>3, GrownPicks
        <5> QED BY <3>5, <5>4
      <4>2. Marked(r)'
        BY <3>3, <3>4, <3>5, <4>1 DEF Marked
      <4>3. Sound(r)'
        BY <3>3, <3>4, <3>5, <4>1 DEF Sound, InTouch
      <4> QED BY <4>2, <4>3 DEF SoundInTime
    <3>6. CASE r \notin marked /\ item.do = "mark rules"
      <4>1. r \notin item.rules
        BY <3>1, <3>6
      <4>2. SteadyItems(r)
        BY <1>1, <2>0, <3>6, <4>1
      <4> QED BY <1>0, <2>0, <3>2, <3>4, <4>2, SteadySound DEF SteadyDates
    <3>7. CASE r \notin marked /\ item.do = "mark active"
      <4>1. ~Active(r)
        BY <3>1, <3>7
      <4>2. ~Active(r)'
        BY <1>0, <2>0, <3>4, <4>1 DEF Active
      <4>3. ToMark(r) => ToMark(r)'
        BY <2>0, <3>7 DEF ToMark, Remaining
      <4>4. Marked(r) => Marked(r)'
        BY <3>2, <3>4, <4>3 DEF Marked, SteadyPick, SteadyRule
      <4>5. Noticing(r, {"toggled", "notify"})' => Noticing(r, {"toggled", "notify"})
        BY <3>2 DEF Noticing, SteadyNotice
      <4> QED BY <1>0, <2>0, <3>4, <4>2, <4>4, <4>5 DEF SoundInTime
    <3> QED BY <3>1, <3>5, <3>6, <3>7
  <2> QED BY <2>1, <2>2
<1> QED
  BY <1>2, <1>3, <1>4 DEF GoOn

LEMMA ToggleSound ==
  ASSUME PromotionAssumption, Types, Known, NEW w \in Workers, Toggle(w), NEW r \in Rules,
         rule'[r].exists, rule[r].exists => SoundInTime(r)
  PROVE  SoundInTime(r)'
<1>0. RulesOK /\ JobsOK
  BY DEF Types
<1>1. CASE ReadToggles(w)
  <2>1. /\ Others(w, {}, {})
        /\ job'[w] = [at |-> "toggled", rules |-> Starting \cup Ending, seen |-> now]
    BY <1>1, ReadTogglesJob
  <2>2. job'[w].at = "toggled" /\ job'[w].rules = Starting \cup Ending
    <3> DEFINE state == [at |-> "toggled", rules |-> Starting \cup Ending, seen |-> now]
    <3>1. state.at = "toggled" /\ state.rules = Starting \cup Ending
      OBVIOUS
    <3>2. job'[w] = state
      BY <2>1
    <3> HIDE DEF state
    <3> QED BY <3>1, <3>2
  <2>3. /\ rule' = rule /\ promotion' = promotion /\ now' = now /\ todo' = todo
    BY <1>1 DEF ReadToggles, rows
  <2>4. \A v \in Workers : SteadyPick(v, r)
    BY <1>0, <2>1, <2>2, OthersSteady, OtherSteady DEF RuleKinds
  <2>5. SteadyRule(r) /\ SteadyItems(r) /\ rule[r].exists
    BY <2>3, SameSteady
  <2>6. (Sound(r) => Sound(r)') /\ (Marked(r) => Marked(r)')
    BY <2>4, <2>5, SteadyMeans
  <2>7. Noticing(r, {"notify"})' => Noticing(r, {"notify"})
    <3>1. \A v \in Workers \ {w} : SteadyNotice(v, r)
      BY <1>0, <2>1, OthersSteady
    <3> QED BY <2>2, <3>1 DEF Noticing, SteadyNotice, NoticedBy
  <2>8. ASSUME promotion'[r].start > now', Noticing(r, {"toggled", "notify"})'
        PROVE  Noticing(r, {"toggled", "notify"})
    <3>1. \A v \in Workers \ {w} : SteadyNotice(v, r)
      BY <1>0, <2>1, OthersSteady
    <3>2. r \notin Starting \cup Ending
      <4>1. promotion[r].start < promotion[r].end
        BY <2>5 DEF Known, BornRules
      <4>2. promotion[r].start > now
        BY <2>3, <2>8
      <4>3. /\ promotion[r].start \in Int /\ promotion[r].end \in Int /\ now \in Nat
        BY TimesAre
      <4>4. ~(promotion[r].start <= now) /\ ~(promotion[r].end <= now)
        BY ONLY <4>1, <4>2, <4>3
      <4> QED BY ONLY <4>4 DEF Starting, Ending
    <3> QED BY <2>2, <2>8, <3>1, <3>2 DEF Noticing, SteadyNotice, NoticedBy
  <2>9. (Active(r)' <=> Active(r)) /\ (r \in Starting => r \in Starting')
    BY <2>3 DEF Active, Starting
  <2> QED BY <2>3, <2>5, <2>6, <2>7, <2>8, <2>9 DEF SoundInTime
<1>2. CASE MarkToggled(w)
  <2>1. /\ Others(w, RuleKinds, job[w].rules) /\ job'[w].rules = job[w].rules
        /\ job[w].at = "toggled" /\ job'[w].at = "notify"
        /\ job[w].rules \in SUBSET Rules /\ MarkRules(job[w].rules)
    BY <1>2, MarkToggledJob DEF ToggleJobs, MarkToggled
  <2>2. /\ SameRule(r)
        /\ rule'[r].dirty = IF r \in job[w].rules THEN rule[r].exists ELSE rule[r].dirty
    BY <1>0, <2>1, MarkRulesEffect
  <2>3. SteadyRule(r) /\ rule[r].exists
    BY <2>2 DEF SteadyRule, SameRule
  <2>4. promotion' = promotion /\ now' = now /\ todo' = todo
    BY <1>2 DEF MarkToggled, MarkRules
  <2>5. \A v \in Workers : SteadyPick(v, r)
    BY <1>0, <2>1, OthersSteady, OtherSteady DEF RuleKinds
  <2>6. CASE r \in job[w].rules
    <3>1. ASSUME NEW v \in Workers, Picked(v, r)'
          PROVE  r \in job'[v].stale
      <4>1. v # w
        BY <2>1, <3>1 DEF Picked, RuleKinds
      <4>2. Grown(job[v], job'[v], IF job[v].at \in RuleKinds THEN job[w].rules ELSE {})
        BY <2>1, <4>1 DEF Others
      <4>3. job'[v].at \in RuleKinds /\ job[v].at = job'[v].at
        BY <3>1, <4>2 DEF Grown, Picked
      <4>4. Grown(job[v], job'[v], job[w].rules)
        BY <4>2, <4>3
      <4>5. job'[v].stale = job[v].stale \cup job[w].rules
        BY <1>0, <4>3, <4>4, GrownPicks
      <4> QED BY <2>6, <4>5
    <3>2. Marked(r)'
      BY <2>2, <2>3, <2>6, <3>1 DEF Marked
    <3>3. Sound(r)'
      BY <2>2, <2>3, <2>6, <3>1 DEF Sound, InTouch
    <3> QED BY <3>2, <3>3 DEF SoundInTime
  <2>7. CASE r \notin job[w].rules
    <3>1. \A v \in Workers : SteadyNotice(v, r)
      <4>1. SteadyNotice(w, r)
        BY <2>1, <2>7 DEF SteadyNotice, NoticedBy
      <4> QED BY <1>0, <2>1, <4>1, OthersSteady
    <3>2. SteadyItems(r)
      BY <2>4, SameSteady
    <3> QED BY <2>3, <2>4, <2>5, <3>1, <3>2, SteadySound DEF SteadyDates
  <2> QED BY <2>6, <2>7
<1>3. CASE Notify(w)
  <2>1. /\ Others(w, {}, {}) /\ job'[w] = Idle /\ job[w].at = "notify"
        /\ rule' = rule /\ todo' = todo /\ now' = now
    BY <1>3, NotifyJob DEF Notify
  <2>2. job'[w].at = "idle"
    BY <2>1, StageOf
  <2>3. \A v \in Workers : SteadyPick(v, r) /\ SteadyNotice(v, r)
    BY <1>0, <2>1, <2>2, OthersSteady, OtherSteady DEF RuleKinds
  <2>4. SteadyRule(r) /\ SteadyItems(r) /\ rule[r].exists
    BY <2>1, SameSteady
  <2>5. (Sound(r) => Sound(r)') /\ (Marked(r) => Marked(r)')
    BY <2>3, <2>4, SteadyMeans
  <2>6. /\ promotion'[r].start = promotion[r].start /\ promotion'[r].end = promotion[r].end
        /\ promotion'[r].notified = IF r \in job[w].rules /\ rule[r].exists THEN now
                                    ELSE promotion[r].notified
    BY <1>3, NotifyEffect
  <2>7. Active(r)' <=> Active(r)
    BY <2>1, <2>6 DEF Active
  <2>8. /\ Noticing(r, {"notify"})' => Noticing(r, {"notify"})
        /\ Noticing(r, {"toggled", "notify"})' => Noticing(r, {"toggled", "notify"})
    <3>1. \A stages \in SUBSET {"toggled", "notify"} : Noticing(r, stages)' => Noticing(r, stages)
      BY <2>3 DEF Noticing, SteadyNotice
    <3> QED BY <3>1
  <2>9. ~Noticing(r, {"notify"}) => (r \in Starting => r \in Starting')
    <3>1. ~Noticing(r, {"notify"}) => r \notin job[w].rules
      BY <2>1 DEF Noticing, NoticedBy
    <3> QED BY <2>1, <2>6, <3>1 DEF Starting
  <2> QED BY <2>1, <2>4, <2>5, <2>6, <2>7, <2>8, <2>9 DEF SoundInTime
<1> QED
  BY <1>1, <1>2, <1>3 DEF Toggle

\* A step that changes jobs only, to stages that are not those of rules.
LEMMA JobOnlySound ==
  ASSUME PromotionAssumption, Types, NEW w \in Workers, NEW kind, NEW marked,
         Others(w, kind, marked), job'[w].at \notin RuleKinds \cup {"toggled", "notify"},
         promotion' = promotion, now' = now, todo' = todo, NEW r \in Rules, SteadyRule(r),
         rule'[r].exists, rule[r].exists => SoundInTime(r)
  PROVE  SoundInTime(r)'
<1>1. \A v \in Workers : SteadyPick(v, r) /\ SteadyNotice(v, r)
  <2>1. SteadyPick(w, r) /\ SteadyNotice(w, r)
    BY OtherSteady
  <2> QED BY <2>1, OthersSteady DEF Types
<1>2. SteadyItems(r)
  BY SameSteady
<1>3. rule[r].exists
  BY DEF SteadyRule
<1> QED
  BY <1>1, <1>2, <1>3, SteadySound DEF SteadyDates

LEMMA ClearVariantsSound ==
  ASSUME PromotionAssumption, Types, Known, ClearsExpired, ~missed, NEW w \in Workers,
         ClearVariants(w), NEW r \in Rules,
         rule'[r].exists, rule[r].exists => SoundInTime(r)
  PROVE  SoundInTime(r)'
<1>1. CASE ClearRead(w)
  <2>1. /\ Others(w, {}, {}) /\ rule' = rule /\ promotion' = promotion
        /\ now' = now /\ todo' = todo
        /\ job' = job \/ job'[w].at = "mark expired"
    BY <1>1, ClearReadJob DEF ClearRead, rows
  <2>2. SteadyRule(r) /\ SteadyItems(r) /\ rule[r].exists
    BY <2>1, SameSteady
  <2>3. CASE job' = job
    BY <2>1, <2>2, <2>3, SameSteady, SteadySound DEF SteadyDates
  <2>4. CASE job'[w].at = "mark expired"
    BY <2>1, <2>2, <2>4, JobOnlySound DEF RuleKinds
  <2> QED BY <2>1, <2>3, <2>4
<1>2. CASE ClearMark(w)
  <2>1. /\ Others(w, PriceKinds, OfExpired(job[w].since))
        /\ job'[w].at = "clear expired" /\ rule' = rule
        /\ promotion' = promotion /\ now' = now /\ todo' = todo
    BY <1>2, ClearMarkJob DEF ClearMark, MarkProducts
  <2>2. SteadyRule(r)
    BY <2>1, SameSteady
  <2> QED BY <2>1, <2>2, JobOnlySound DEF RuleKinds
<1>3. CASE ClearDelete(w)
  <2>1. /\ Others(w, {}, {}) /\ job'[w].at = "idle" /\ job[w].at = "clear expired"
        /\ promotion' = promotion /\ now' = now /\ todo' = todo
    BY <1>3, ClearDeleteJob, StageOf DEF ClearDelete
  <2>2. /\ rule'[r].exists = rule[r].exists
        /\ rule'[r].predicate = rule[r].predicate /\ rule'[r].dirty = rule[r].dirty
        /\ r \notin DOMAIN job[w].pairs => rule'[r].variants = rule[r].variants
    BY <1>3, ClearDeleteEffect
  <2>3. CASE r \notin DOMAIN job[w].pairs
    <3>1. SteadyRule(r)
      BY <2>2, <2>3 DEF SteadyRule
    <3> QED BY <2>1, <3>1, JobOnlySound DEF RuleKinds
  <2>4. CASE r \in DOMAIN job[w].pairs
    <3>1. promotion[r].end <= now
      BY <2>1, <2>4, ClearedEnded
    <3>2. promotion[r].start < promotion[r].end
      BY <2>2 DEF Known, BornRules
    <3>3. /\ promotion[r].start \in Int /\ promotion[r].end \in Int /\ now \in Nat
      BY TimesAre
    <3>4. ~(now < promotion[r].end) /\ ~(promotion[r].start > now)
      BY ONLY <3>1, <3>2, <3>3
    <3> QED BY <2>1, <3>4 DEF SoundInTime, Active
  <2> QED BY <2>3, <2>4
<1> QED
  BY <1>1, <1>2, <1>3 DEF ClearVariants

LEMMA RecalculateSound ==
  ASSUME PromotionAssumption, Types, NEW w \in Workers, Recalculate(w), NEW r \in Rules,
         rule'[r].exists, rule[r].exists => SoundInTime(r)
  PROVE  SoundInTime(r)'
<1>1. /\ Others(w, {}, {}) /\ job'[w].at \in {"write", "clear prices", "idle"}
      /\ rule' = rule /\ promotion' = promotion /\ now' = now /\ todo' = todo
  <2>1. CASE Compute(w)
    BY <2>1, ComputeJob DEF ComputedJob, Compute
  <2>2. CASE Write(w)
    BY <2>2, WriteJob DEF Write
  <2>3. CASE ClearPrices(w)
    BY <2>3, ClearPricesJob, StageOf DEF ClearPrices
  <2> QED BY <2>1, <2>2, <2>3 DEF Recalculate
<1>2. SteadyRule(r)
  BY <1>1, SameSteady
<1> QED
  BY <1>1, <1>2, JobOnlySound DEF RuleKinds

LEMMA DieSound ==
  ASSUME PromotionAssumption, Types, NEW w \in Workers, Die(w), NEW r \in Rules,
         rule'[r].exists, rule[r].exists => SoundInTime(r)
  PROVE  SoundInTime(r)'
<1>1. /\ Others(w, {}, {}) /\ job'[w].at = "idle"
      /\ rule' = rule /\ promotion' = promotion /\ now' = now /\ todo' = todo
  BY DieJob, StageOf DEF Die, rows
<1>2. SteadyRule(r)
  BY <1>1, SameSteady
<1> QED
  BY <1>1, <1>2, JobOnlySound DEF RuleKinds

LEMMA UpdateVariantsSound ==
  ASSUME PromotionAssumption, Types, Known, ~missed', NEW w \in Workers,
         UpdateVariants(w), NEW r \in Rules,
         rule'[r].exists, rule[r].exists => SoundInTime(r)
  PROVE  SoundInTime(r)'
<1>0. RulesOK /\ JobsOK
  BY DEF Types
<1>1. CASE MarkTouched(w)
  <2>1. /\ Others(w, PriceKinds, job[w].products) /\ job'[w].at = "idle" /\ rule' = rule
        /\ promotion' = promotion /\ now' = now /\ todo' = todo
    BY <1>1, MarkTouchedJob, StageOf DEF MarkTouched, MarkProducts
  <2>2. SteadyRule(r)
    BY <2>1, SameSteady
  <2> QED BY <2>1, <2>2, JobOnlySound DEF RuleKinds
<1>2. CASE Select(w)
  <2>1. /\ Others(w, {}, {}) /\ job'[w].at = "relate"
        /\ DOMAIN job'[w].picks = Selected /\ job'[w].stale = {}
        /\ \A q \in Selected : job'[w].picks[q] = rule[q].predicate
        /\ rule' = rule /\ promotion' = promotion /\ now' = now /\ todo' = todo
    BY <1>2, SelectJob DEF Select, rows
  <2>2. \A v \in Workers : SteadyNotice(v, r)
    BY <1>0, <2>1, OthersSteady, OtherSteady
  <2>3. \A v \in Workers \ {w} : SteadyPick(v, r)
    BY <1>0, <2>1, OthersSteady
  <2>4. InTouch(r) => InTouch(r)'
    <3> SUFFICES ASSUME InTouch(r), NEW v \in Workers, Picked(v, r)'
                 PROVE  \/ r \in job'[v].stale
                        \/ rule'[r].predicate = IF job'[v].at = "relate" THEN job'[v].picks[r]
                                                ELSE rule'[r].variants
      BY DEF InTouch
    <3>1. CASE v = w
      BY <2>1, <3>1 DEF Picked
    <3>2. CASE v # w
      <4>1. /\ Picked(v, r) /\ job'[v].at = job[v].at
            /\ job'[v].picks = job[v].picks
            /\ r \in job[v].stale => r \in job'[v].stale
        BY <2>3, <3>2 DEF SteadyPick
      <4> QED BY <2>1, <4>1 DEF InTouch
    <3> QED BY <3>1, <3>2
  <2>5. Sound(r) => Sound(r)'
    BY <2>1, <2>4 DEF Sound, ItemFor, ToMark
  <2>6. promotion[r].start > now => (Marked(r) => Marked(r)')
    <3>1. promotion[r].start > now => r \notin Selected
      BY TimesAre DEF Selected, Active
    <3>2. promotion[r].start > now => SteadyPick(w, r)
      BY <2>1, <3>1 DEF SteadyPick, Picked
    <3> QED BY <2>1, <2>3, <3>2 DEF Marked, ToMark, SteadyPick
  <2>7. /\ Noticing(r, {"notify"})' => Noticing(r, {"notify"})
        /\ Noticing(r, {"toggled", "notify"})' => Noticing(r, {"toggled", "notify"})
    <3>1. \A stages \in SUBSET {"toggled", "notify"} : Noticing(r, stages)' => Noticing(r, stages)
      BY <2>2 DEF Noticing, SteadyNotice
    <3> QED BY <3>1
  <2>8. (Active(r)' <=> Active(r)) /\ (r \in Starting => r \in Starting')
    BY <2>1 DEF Active, Starting
  <2> QED BY <2>1, <2>5, <2>6, <2>7, <2>8 DEF SoundInTime
<1>3. CASE Relate(w)
  <2>1. /\ Others(w, {"relate"}, DOMAIN job[w].picks)
        /\ job[w] \in RuleJobs /\ job[w].at = "relate" /\ job'[w].at = "clear rules"
        /\ job'[w].picks = job[w].picks /\ job'[w].stale = job[w].stale
        /\ promotion' = promotion /\ now' = now /\ todo' = todo
        /\ missed' = (missed \/ job[w].stale \cap DOMAIN job[w].picks # {})
    BY <1>3, RelateJob DEF Relate
  <2>2. /\ rule'[r].exists = rule[r].exists
        /\ rule'[r].predicate = rule[r].predicate /\ rule'[r].dirty = rule[r].dirty
        /\ rule'[r].variants = IF r \in DOMAIN job[w].picks /\ rule[r].exists
                               THEN job[w].picks[r] ELSE rule[r].variants
    BY <1>3, RelateEffect
  <2>3. \A v \in Workers \ {w} : SteadyPick(v, r) /\ SteadyNotice(v, r)
    BY <1>0, <2>1, OthersSteady
  <2>4. SteadyNotice(w, r) /\ SteadyItems(r)
    BY <2>1, OtherSteady, SameSteady
  <2>5. CASE r \notin DOMAIN job[w].picks
    <3>1. SteadyPick(w, r)
      BY <2>1, <2>5 DEF SteadyPick, Picked
    <3>2. SteadyRule(r)
      BY <2>2, <2>5 DEF SteadyRule
    <3> QED BY <2>1, <2>2, <2>3, <2>4, <3>1, <3>2, SteadySound DEF SteadyDates
  <2>6. CASE r \in DOMAIN job[w].picks
    <3>1. r \notin job[w].stale
      BY <2>1, <2>6
    <3>2. rule'[r].variants = job[w].picks[r]
      BY <2>2, <2>6
    <3>3. Picked(w, r)
      BY <2>1, <2>6 DEF Picked, RuleKinds
    <3>4. Sound(r) => Sound(r)'
      <4>1. ItemFor(r) => Sound(r)'
        BY <2>4 DEF Sound, SteadyItems
      <4>2. ASSUME InTouch(r)
            PROVE  Sound(r)'
        <5>1. rule[r].predicate = job[w].picks[r]
          BY <2>1, <3>1, <3>3, <4>2 DEF InTouch
        <5>2. rule'[r].variants = rule'[r].predicate
          BY <2>2, <3>2, <5>1
        <5>3. InTouch(r)'
          <6> SUFFICES ASSUME NEW v \in Workers, Picked(v, r)', job'[v].at = "relate"
                       PROVE  r \in job'[v].stale
            BY <5>2 DEF InTouch
          <6>1. v # w
            BY <2>1
          <6>2. Grown(job[v], job'[v], IF job[v].at \in {"relate"} THEN DOMAIN job[w].picks
                                       ELSE {})
            BY <2>1, <6>1 DEF Others
          <6>3. job[v].at = "relate"
            BY <6>2 DEF Grown
          <6>4. Grown(job[v], job'[v], DOMAIN job[w].picks)
            BY <6>2, <6>3
          <6>5. job'[v].stale = job[v].stale \cup DOMAIN job[w].picks
            BY <1>0, <6>4, GrownPicks DEF RuleKinds
          <6> QED BY <2>6, <6>5
        <5> QED BY <5>2, <5>3 DEF Sound
      <4> QED BY <4>1, <4>2 DEF Sound
    <3>5. Marked(r) => Marked(r)'
      BY <2>4, <3>1, <3>3 DEF Marked, SteadyItems
    <3>6. /\ Noticing(r, {"notify"})' => Noticing(r, {"notify"})
          /\ Noticing(r, {"toggled", "notify"})' => Noticing(r, {"toggled", "notify"})
      <4>1. \A v \in Workers : SteadyNotice(v, r)
        BY <2>3, <2>4
      <4>2. \A stages \in SUBSET {"toggled", "notify"} :
              Noticing(r, stages)' => Noticing(r, stages)
        BY <4>1 DEF Noticing, SteadyNotice
      <4> QED BY <4>2
    <3>7. (Active(r)' <=> Active(r)) /\ (r \in Starting => r \in Starting')
      BY <2>1, <2>2 DEF Active, Starting
    <3> QED BY <2>1, <2>2, <3>4, <3>5, <3>6, <3>7 DEF SoundInTime
  <2> QED BY <2>5, <2>6
<1>4. CASE ClearRules(w)
  <2>1. /\ Others(w, {}, {})
        /\ job[w] \in RuleJobs /\ job[w].at = "clear rules"
        /\ job'[w].at = "mark touched"
        /\ promotion' = promotion /\ now' = now /\ todo' = todo
        /\ missed' = (missed \/ job[w].stale \cap DOMAIN job[w].picks # {})
    BY <1>4, ClearRulesJob DEF ClearRules
  <2>2. /\ SameRule(r)
        /\ rule'[r].dirty = (r \notin DOMAIN job[w].picks /\ rule[r].dirty)
    BY <1>4, ClearRulesEffect
  <2>3. CASE r \notin DOMAIN job[w].picks
    <3>1. SteadyRule(r)
      BY <2>2, <2>3 DEF SteadyRule, SameRule
    <3> QED BY <2>1, <3>1, JobOnlySound DEF RuleKinds
  <2>4. CASE r \in DOMAIN job[w].picks
    <3>1. r \notin job[w].stale
      BY <2>1, <2>4
    <3>2. Picked(w, r)
      BY <2>1, <2>4 DEF Picked, RuleKinds
    <3>3. SteadyItems(r)
      BY <2>1, SameSteady
    <3>4. \A v \in Workers : SteadyPick(v, r) /\ SteadyNotice(v, r)
      <4>1. SteadyPick(w, r) /\ SteadyNotice(w, r)
        BY <2>1, OtherSteady DEF RuleKinds
      <4> QED BY <1>0, <2>1, <4>1, OthersSteady
    <3>5. Sound(r) => Sound(r)'
      <4>1. ItemFor(r) => Sound(r)'
        BY <3>3 DEF Sound, SteadyItems
      <4>2. ASSUME InTouch(r)
            PROVE  Sound(r)'
        <5>1. rule[r].predicate = rule[r].variants
          BY <2>1, <3>1, <3>2, <4>2 DEF InTouch
        <5>2. rule'[r].variants = rule'[r].predicate
          BY <2>2, <5>1 DEF SameRule
        <5>3. InTouch(r)'
          <6> SUFFICES ASSUME NEW v \in Workers, Picked(v, r)'
                       PROVE  \/ r \in job'[v].stale
                              \/ rule'[r].predicate = IF job'[v].at = "relate"
                                                      THEN job'[v].picks[r]
                                                      ELSE rule'[r].variants
            BY DEF InTouch
          <6>1. /\ Picked(v, r) /\ job'[v].at = job[v].at
                /\ job'[v].picks = job[v].picks
                /\ r \in job[v].stale => r \in job'[v].stale
            BY <3>4 DEF SteadyPick
          <6> QED BY <2>2, <4>2, <6>1 DEF InTouch, SameRule
        <5> QED BY <5>2, <5>3 DEF Sound
      <4> QED BY <4>1, <4>2 DEF Sound
    <3>6. Marked(r) => Marked(r)'
      BY <3>1, <3>2, <3>3 DEF Marked, SteadyItems
    <3>7. /\ Noticing(r, {"notify"})' => Noticing(r, {"notify"})
          /\ Noticing(r, {"toggled", "notify"})' => Noticing(r, {"toggled", "notify"})
      <4>1. \A stages \in SUBSET {"toggled", "notify"} :
              Noticing(r, stages)' => Noticing(r, stages)
        BY <3>4 DEF Noticing, SteadyNotice
      <4> QED BY <4>1
    <3>8. (Active(r)' <=> Active(r)) /\ (r \in Starting => r \in Starting')
      BY <2>1, <2>2 DEF Active, Starting, SameRule
    <3>9. rule[r].exists
      BY <2>2 DEF SameRule
    <3> QED BY <2>1, <3>5, <3>6, <3>7, <3>8, <3>9 DEF SoundInTime
  <2> QED BY <2>3, <2>4
<1> QED
  BY <1>1, <1>2, <1>3, <1>4 DEF UpdateVariants

LEMMA VariantsRightNext ==
  ASSUME PromotionAssumption, Types, Known, ClearsExpired, VariantsRight, [Next]_vars
  PROVE  VariantsRight'
<1> SUFFICES ASSUME ~missed', NEW r \in Rules, rule'[r].exists
             PROVE  SoundInTime(r)'
  BY DEF VariantsRight
<1>1. ~missed
  BY HistoryGrows
<1>2. rule[r].exists => SoundInTime(r)
  BY <1>1 DEF VariantsRight
<1>3. CASE Request
  BY <1>2, <1>3, RequestSound
<1>4. CASE Tick
  BY <1>2, <1>4, TickSound
<1>5. CASE UNCHANGED vars
  <2>1. SteadyRule(r) /\ SteadyItems(r) /\ rule[r].exists
    BY <1>5, SameSteady DEF vars, rows
  <2>2. SteadyDates(r) /\ \A w \in Workers : SteadyPick(w, r) /\ SteadyNotice(w, r)
    BY <1>5, SameSteady DEF vars, rows, SteadyDates
  <2> QED BY <1>2, <2>1, <2>2, SteadySound
<1>6. ASSUME NEW item \in todo, GoOn(item) \/ Forget(item)
      PROVE  SoundInTime(r)'
  <2>1. ~Forget(item)
    BY DEF Forget
  <2> QED BY <1>2, <1>6, <2>1, ItemSound
<1>7. ASSUME NEW w \in Workers, Task(w) \/ Die(w)
      PROVE  SoundInTime(r)'
  BY <1>1, <1>2, <1>7, ToggleSound, ClearVariantsSound, UpdateVariantsSound, RecalculateSound,
     DieSound DEF Task
<1> QED
  BY <1>3, <1>4, <1>5, <1>6, <1>7 DEF Next, Pause

-----------------------------------------------------------------------------
(* Prices are those of the active rules, unless a mark, an item, a task or *)
(* a date that no one has noticed yet will make them so.                   *)

\* The variant is still the rule's, and no task is about to take it away.
Counted(r, p) ==
  /\ rule[r].exists /\ p \in rule[r].variants
  /\ ~ \E w \in Workers : /\ job[w].at = "clear expired"
                          /\ r \in DOMAIN job[w].pairs /\ p \in job[w].pairs[r]

ByItem(p) == \E item \in todo : /\ item.do \in {"mark products", "set variants", "delete"}
                                /\ p \in item.products

TouchKinds == {"clear rules", "mark touched"}
ByJob(p) == \E w \in Workers : job[w].at \in TouchKinds /\ p \in job[w].products

Reaches(r, p) ==
  \/ ToMark(r)
  \/ rule[r].dirty /\ \A w \in Workers : Picked(w, r) => r \in job[w].stale
                                                         \/ p \in job[w].products

ByRule(p) == \E r \in Applicable(p) : Reaches(r, p)

Clears == clearing \/ \E w \in Workers : job[w].at \in {"mark expired", "clear expired"}

ByEnd(p) == \E r \in Rules : Expired(r) /\ Counted(r, p) /\ Clears

Noticed(r) == \E w \in Workers : /\ job[w].at \in {"toggled", "notify"}
                                 /\ r \in job[w].rules /\ promotion[r].end <= job[w].seen

\* A start or an end whose effect on prices is still to be brought about.
Open(r) == \/ Active(r) /\ r \in Starting /\ ~Noticing(r, {"notify"})
           \/ r \in Ending /\ ~Noticed(r)

ByTime(p) == \E r \in Rules : Open(r) /\ Counted(r, p)

Discount(p) == Largest(Applicable(p), listing[p].price)

Outcome(w, p) == /\ job[w].amount[p] = Discount(p)
                 /\ Calc(p) = IF p \in DOMAIN job[w].found THEN job[w].found[p]
                              ELSE listing[p].discounted

\* Tasks that found the price of what they read would find it again.
UpToDateBy(w, p) ==
  /\ job[w].at = "write" /\ p \in DOMAIN job[w].amount =>
       p \in job[w].stale \/ Outcome(w, p)
  /\ job[w].at = "clear prices" /\ p \in job[w].products =>
       p \in job[w].stale \/ listing[p].discounted = Calc(p)

UpToDate(p) == \A w \in Workers : UpToDateBy(w, p)

Done(p) == UpToDate(p) /\ (listing[p].dirty \/ listing[p].discounted = Calc(p))

Priced(p) == ByItem(p) \/ ByJob(p) \/ ByRule(p) \/ ByEnd(p) \/ ByTime(p) \/ Done(p)

PricesRight == ~missed /\ ~withdrawn => \A p \in Products : Priced(p)

\* What keeps what the rules make of a price.
SteadyCalc(p) == /\ listing'[p].price = listing[p].price
                 /\ Applicable(p)' = Applicable(p)
                 /\ \A r \in Applicable(p) : rule'[r].reward = rule[r].reward

SteadyListing(p) == /\ listing'[p].discounted = listing[p].discounted
                    /\ listing[p].dirty => listing'[p].dirty

SteadyWrite(w, p) ==
  /\ job'[w].at = "write" /\ p \in DOMAIN job'[w].amount =>
       /\ job[w].at = "write" /\ job'[w].amount = job[w].amount
       /\ job'[w].found = job[w].found /\ job'[w].winner = job[w].winner
       /\ p \in job[w].stale => p \in job'[w].stale
  /\ job'[w].at = "clear prices" /\ p \in job'[w].products =>
       /\ job[w].at = "clear prices" /\ job'[w].products = job[w].products
       /\ p \in job[w].stale => p \in job'[w].stale

SteadyTouch(w, p) == job[w].at \in TouchKinds /\ p \in job[w].products =>
  job'[w].at \in TouchKinds /\ p \in job'[w].products

SteadyReach(w, r, p) == Picked(w, r)' =>
  /\ Picked(w, r)
  /\ r \in job[w].stale => r \in job'[w].stale
  /\ p \in job[w].products => p \in job'[w].products

SteadyClear(w, p) ==
  \A r : job'[w].at = "clear expired" /\ r \in DOMAIN job'[w].pairs /\ p \in job'[w].pairs[r] =>
         job[w].at = "clear expired" /\ r \in DOMAIN job[w].pairs /\ p \in job[w].pairs[r]

SteadySeen(w) == job'[w].at \in {"toggled", "notify"} =>
  job'[w].at = job[w].at /\ job'[w].rules = job[w].rules /\ job'[w].seen = job[w].seen

\* A rule that has the product keeps it, and its dates.
SteadyHas(p) ==
  \A r \in Rules : rule[r].exists /\ p \in rule[r].variants =>
    /\ rule'[r].exists /\ p \in rule'[r].variants
    /\ promotion'[r].start = promotion[r].start /\ promotion'[r].end = promotion[r].end

LEMMA DiscountStays ==
  ASSUME NEW p, SteadyCalc(p)
  PROVE  Discount(p)' = Discount(p) /\ Calc(p)' = Calc(p)
<1> DEFINE n == listing[p].price
           rs == Applicable(p)
<1>1. \A r \in rs : Cut(r, n)' = Cut(r, n)
  BY DEF SteadyCalc, Cut
<1>2. {Cut(r, listing[p].price)' : r \in rs} = {Cut(r, n) : r \in rs}
  BY <1>1
<1>3. Discount(p)' = Max({0} \cup {Cut(r, listing[p].price)' : r \in Applicable(p)'})
  BY DEF Discount, Largest
<1>4. Discount(p)' = Discount(p)
  BY <1>2, <1>3 DEF Discount, Largest, SteadyCalc
<1> QED
  BY <1>4 DEF Calc, Discount, SteadyCalc

LEMMA KeepUpToDate ==
  ASSUME NEW p, NEW w \in Workers, SteadyCalc(p), SteadyWrite(w, p),
         listing'[p].discounted = listing[p].discounted, UpToDateBy(w, p)
  PROVE  UpToDateBy(w, p)'
<1>1. Discount(p)' = Discount(p) /\ Calc(p)' = Calc(p)
  BY DiscountStays
<1>2. ASSUME job'[w].at = "write", p \in DOMAIN job'[w].amount, p \notin job'[w].stale
      PROVE  Outcome(w, p)'
  <2>1. /\ job[w].at = "write" /\ job'[w].amount = job[w].amount
        /\ job'[w].found = job[w].found /\ p \notin job[w].stale
    BY <1>2 DEF SteadyWrite
  <2>2. Outcome(w, p)
    BY <1>2, <2>1 DEF UpToDateBy
  <2> QED BY <1>1, <2>1, <2>2 DEF Outcome
<1>3. ASSUME job'[w].at = "clear prices", p \in job'[w].products, p \notin job'[w].stale
      PROVE  listing'[p].discounted = Calc(p)'
  <2>1. /\ job[w].at = "clear prices" /\ p \in job[w].products /\ p \notin job[w].stale
    BY <1>3 DEF SteadyWrite
  <2>2. listing[p].discounted = Calc(p)
    BY <2>1 DEF UpToDateBy
  <2> QED BY <1>1, <2>2
<1> QED
  BY <1>2, <1>3 DEF UpToDateBy

LEMMA KeepDone ==
  ASSUME NEW p, SteadyCalc(p), SteadyListing(p), \A w \in Workers : SteadyWrite(w, p), Done(p)
  PROVE  Done(p)'
<1>1. Calc(p)' = Calc(p)
  BY DiscountStays
<1>2. \A w \in Workers : UpToDateBy(w, p)'
  BY KeepUpToDate DEF SteadyListing, Done, UpToDate
<1> QED
  BY <1>1, <1>2 DEF Done, SteadyListing, UpToDate

LEMMA KeepJob ==
  ASSUME NEW p, \A w \in Workers : SteadyTouch(w, p), ByJob(p)
  PROVE  ByJob(p)'
BY DEF ByJob, SteadyTouch

LEMMA KeepReach ==
  ASSUME NEW r, NEW p, ToMark(r) => ToMark(r)', rule[r].dirty => rule'[r].dirty,
         \A w \in Workers : SteadyReach(w, r, p), Reaches(r, p)
  PROVE  Reaches(r, p)'
BY DEF Reaches, SteadyReach

LEMMA KeepRule ==
  ASSUME NEW p, Applicable(p)' = Applicable(p), ByRule(p),
         \A r \in Applicable(p) : Reaches(r, p) => Reaches(r, p)'
  PROVE  ByRule(p)'
BY DEF ByRule

LEMMA KeepCounted ==
  ASSUME NEW p, NEW r \in Rules, SteadyHas(p), \A w \in Workers : SteadyClear(w, p), Counted(r, p)
  PROVE  Counted(r, p)'
<1>1. rule'[r].exists /\ p \in rule'[r].variants
  BY DEF SteadyHas, Counted
<1>2. ~ \E w \in Workers : /\ job'[w].at = "clear expired"
                           /\ r \in DOMAIN job'[w].pairs /\ p \in job'[w].pairs[r]
  BY DEF SteadyClear, Counted
<1> QED
  BY <1>1, <1>2 DEF Counted

LEMMA KeepEnd ==
  ASSUME NEW p, SteadyHas(p), now' = now, \A w \in Workers : SteadyClear(w, p),
         Clears => Clears', ByEnd(p)
  PROVE  ByEnd(p)'
<1>1. PICK r \in Rules : Expired(r) /\ Counted(r, p) /\ Clears
  BY DEF ByEnd
<1>2. Counted(r, p)'
  BY <1>1, KeepCounted
<1>3. Expired(r)'
  BY <1>1 DEF Expired, SteadyHas, Counted
<1> QED
  BY <1>1, <1>2, <1>3 DEF ByEnd

LEMMA KeepTime ==
  ASSUME NEW p, SteadyHas(p), now' = now, \A w \in Workers : SteadyClear(w, p) /\ SteadySeen(w),
         \A r \in Rules : rule[r].exists /\ p \in rule[r].variants =>
           promotion'[r].notified = promotion[r].notified,
         ByTime(p)
  PROVE  ByTime(p)'
<1>1. PICK r \in Rules : Open(r) /\ Counted(r, p)
  BY DEF ByTime
<1>2. Counted(r, p)'
  BY <1>1, KeepCounted
<1>3. /\ rule'[r].exists /\ rule[r].exists /\ promotion'[r].start = promotion[r].start
      /\ promotion'[r].end = promotion[r].end /\ promotion'[r].notified = promotion[r].notified
  BY <1>1 DEF SteadyHas, Counted
<1>4. /\ Active(r) => Active(r)'
      /\ r \in Starting => r \in Starting'
      /\ r \in Ending => r \in Ending'
  BY <1>3 DEF Active, Starting, Ending
<1>5. Noticing(r, {"notify"})' => Noticing(r, {"notify"})
  BY DEF Noticing, NoticedBy, SteadySeen
<1>6. Noticed(r)' => Noticed(r)
  BY <1>3 DEF Noticed, SteadySeen
<1> QED
  BY <1>1, <1>2, <1>4, <1>5, <1>6 DEF ByTime, Open

\* What keeps all of it.
SteadyJob(w, p) == /\ SteadyTouch(w, p) /\ SteadyWrite(w, p) /\ SteadyClear(w, p)
                   /\ SteadySeen(w)
                   /\ \A r : SteadyReach(w, r, p)
                   /\ job[w].at \in {"mark expired", "clear expired"} => job'[w].at = job[w].at

LEMMA GrownKeeps ==
  ASSUME JobsOK, NEW v \in Workers, NEW marked, Grown(job[v], job'[v], marked)
  PROVE  \A p : SteadyJob(v, p)
<1>1. job'[v].at = job[v].at
  BY DEF Grown
<1>2. job'[v].at \in RuleKinds => /\ job'[v].picks = job[v].picks
                                  /\ job'[v].products = job[v].products
                                  /\ job'[v].stale = job[v].stale \cup marked
  BY GrownPicks
<1>3. job[v].at = "mark touched" => job'[v] = job[v]
  BY JobIs DEF Grown
<1>4. job[v].at = "clear expired" => job'[v] = job[v]
  BY JobIs DEF Grown
<1>5. job[v].at \in {"toggled", "notify"} => job'[v] = job[v]
  BY JobIs DEF Grown
<1>6. job[v].at = "write" => /\ job'[v].amount = job[v].amount
                             /\ job'[v].found = job[v].found
                             /\ job'[v].winner = job[v].winner
                             /\ job'[v].stale = job[v].stale \cup marked
  BY JobIs DEF Grown
<1>7. job[v].at = "clear prices" => /\ job'[v].products = job[v].products
                                    /\ job'[v].stale = job[v].stale \cup marked
  BY JobIs DEF Grown
<1> SUFFICES ASSUME NEW p
             PROVE  SteadyJob(v, p)
  OBVIOUS
<1>8. SteadyTouch(v, p)
  BY <1>1, <1>2, <1>3 DEF SteadyTouch, TouchKinds, RuleKinds
<1>9. SteadyWrite(v, p)
  BY <1>1, <1>6, <1>7 DEF SteadyWrite
<1>10. SteadyClear(v, p)
  BY <1>1, <1>4 DEF SteadyClear
<1>11. SteadySeen(v)
  BY <1>1, <1>5 DEF SteadySeen
<1>12. \A r : SteadyReach(v, r, p)
  BY <1>1, <1>2 DEF SteadyReach, Picked
<1> QED
  BY <1>1, <1>8, <1>9, <1>10, <1>11, <1>12 DEF SteadyJob

LEMMA OthersKeep ==
  ASSUME JobsOK, NEW w \in Workers, NEW kind, NEW marked, Others(w, kind, marked)
  PROVE  \A v \in Workers \ {w} : \A p : SteadyJob(v, p)
<1> SUFFICES ASSUME NEW v \in Workers \ {w}
             PROVE  \A p : SteadyJob(v, p)
  OBVIOUS
<1>1. Grown(job[v], job'[v], IF job[v].at \in kind THEN marked ELSE {})
  BY DEF Others
<1> QED
  BY <1>1, GrownKeeps

LEMMA EveryoneKeeps ==
  ASSUME JobsOK, NEW kind, NEW marked, Everyone(kind, marked)
  PROVE  \A v \in Workers : \A p : SteadyJob(v, p)
<1> SUFFICES ASSUME NEW v \in Workers
             PROVE  \A p : SteadyJob(v, p)
  OBVIOUS
<1>1. Grown(job[v], job'[v], IF job[v].at \in kind THEN marked ELSE {})
  BY DEF Everyone
<1> QED
  BY <1>1, GrownKeeps

LEMMA SameKeeps ==
  ASSUME job' = job
  PROVE  \A v \in Workers : \A p : SteadyJob(v, p)
BY ZenonT(40) DEF SteadyJob, SteadyTouch, SteadyWrite, SteadyClear, SteadySeen, SteadyReach, Picked

LEMMA PricedStays ==
  ASSUME NEW p, Priced(p), ByItem(p) => ByItem(p)', SteadyCalc(p), SteadyListing(p),
         SteadyHas(p), now' = now, clearing => clearing',
         \A w \in Workers : SteadyJob(w, p),
         \A r \in Applicable(p) : Reaches(r, p) => Reaches(r, p)',
         \A r \in Rules : rule[r].exists /\ p \in rule[r].variants =>
           promotion'[r].notified = promotion[r].notified
  PROVE  Priced(p)'
<1>1. Clears => Clears'
  BY DEF Clears, SteadyJob
<1>2. ByJob(p) => ByJob(p)'
  BY KeepJob DEF SteadyJob
<1>3. ByRule(p) => ByRule(p)'
  BY KeepRule DEF SteadyCalc
<1>4. ByEnd(p) => ByEnd(p)'
  BY <1>1, KeepEnd DEF SteadyJob
<1>5. ByTime(p) => ByTime(p)'
  BY KeepTime DEF SteadyJob
<1>6. Done(p) => Done(p)'
  BY KeepDone DEF SteadyJob
<1> QED
  BY <1>2, <1>3, <1>4, <1>5, <1>6 DEF Priced

Has(r, p) == rule[r].exists /\ p \in rule[r].variants

\* A rule that has the product, before or after the step, is the same to its price.
SteadyRow(r, p) ==
  /\ Has(r, p)' <=> Has(r, p)
  /\ Has(r, p) => /\ rule'[r].reward = rule[r].reward
                  /\ rule[r].dirty => rule'[r].dirty
                  /\ promotion'[r] = promotion[r]

LEMMA RowsKeep ==
  ASSUME NEW p, \A r \in Rules : SteadyRow(r, p), now' = now
  PROVE  /\ SteadyHas(p) /\ Applicable(p)' = Applicable(p)
         /\ \A r \in Applicable(p) : rule'[r].reward = rule[r].reward
         /\ \A r \in Rules : rule[r].exists /\ p \in rule[r].variants =>
              promotion'[r].notified = promotion[r].notified
         /\ \A r \in Applicable(p) : rule[r].dirty => rule'[r].dirty
<1>1. \A r \in Rules : r \in Applicable(p) <=> Active(r) /\ Has(r, p)
  BY DEF Applicable, Active, Has
<1>2. \A r \in Rules : r \in Applicable(p)' <=> Active(r)' /\ Has(r, p)'
  BY DEF Applicable, Active, Has
<1>3. \A r \in Rules : Has(r, p) => (Active(r)' <=> Active(r))
  BY DEF SteadyRow, Has, Active
<1>4. \A r \in Rules : r \in Applicable(p)' <=> r \in Applicable(p)
  BY <1>1, <1>2, <1>3 DEF SteadyRow
<1>5. Applicable(p) \subseteq Rules /\ Applicable(p)' \subseteq Rules
  BY DEF Applicable
<1>6. Applicable(p)' = Applicable(p)
  BY <1>4, <1>5
<1>7. SteadyHas(p)
  BY DEF SteadyHas, SteadyRow, Has
<1> QED
  BY <1>1, <1>5, <1>6, <1>7 DEF SteadyRow, Has

LEMMA PricedSteady ==
  ASSUME NEW p, Priced(p), \A r \in Rules : SteadyRow(r, p), now' = now,
         clearing => clearing', ByItem(p) => ByItem(p)',
         listing'[p].price = listing[p].price, SteadyListing(p),
         \A w \in Workers : SteadyJob(w, p),
         \A r \in Rules : Has(r, p) /\ ToMark(r) => ToMark(r)'
  PROVE  Priced(p)'
<1>1. /\ SteadyHas(p) /\ Applicable(p)' = Applicable(p)
      /\ \A r \in Applicable(p) : rule'[r].reward = rule[r].reward
      /\ \A r \in Rules : rule[r].exists /\ p \in rule[r].variants =>
           promotion'[r].notified = promotion[r].notified
      /\ \A r \in Applicable(p) : rule[r].dirty => rule'[r].dirty
  BY RowsKeep
<1>2. SteadyCalc(p)
  BY <1>1 DEF SteadyCalc
<1>3. ASSUME NEW r \in Applicable(p), Reaches(r, p)
      PROVE  Reaches(r, p)'
  <2>1. r \in Rules /\ Has(r, p)
    BY <1>3 DEF Applicable, Active, Has
  <2>2. \A w \in Workers : SteadyReach(w, r, p)
    BY DEF SteadyJob
  <2> QED BY <1>1, <1>3, <2>1, <2>2, KeepReach
<1> QED
  BY <1>1, <1>2, <1>3, PricedStays

\* Items that stay.
LEMMA ItemsStay ==
  ASSUME todo \subseteq todo'
  PROVE  /\ \A p : ByItem(p) => ByItem(p)'
         /\ \A r : ToMark(r) => ToMark(r)'
BY DEF ByItem, ToMark

LEMMA SameRows ==
  ASSUME rule' = rule, promotion' = promotion
  PROVE  \A r, p : SteadyRow(r, p)
BY DEF SteadyRow, Has

LEMMA SameListings ==
  ASSUME listing' = listing
  PROVE  \A p : SteadyListing(p) /\ listing'[p].price = listing[p].price
BY DEF SteadyListing

LEMMA CreatePriced ==
  ASSUME PromotionAssumption, Types, Known, NEW q \in Rules, NEW reward \in Rewards,
         NEW predicate \in Predicates, NEW dates \in Dates,
         CreatePromotion(q, predicate, reward, dates), NEW p \in Products, Priced(p)
  PROVE  Priced(p)'
<1>1. /\ job' = job /\ todo' = todo /\ now' = now /\ clearing' = clearing /\ listing' = listing
      /\ promotion[q] = NoPromotion /\ rule'[q].variants = {}
      /\ \A s \in Rules \ {q} : rule'[s] = rule[s] /\ promotion'[s] = promotion[s]
  BY CreatePromotionEffect DEF CreatePromotion
<1>2. promotion[q].start = -1
  BY <1>1 DEF NoPromotion
<1>3. ~rule[q].exists
  <2>1. ~Born(q)
    BY <1>2 DEF Born
  <2> QED BY <2>1 DEF Known, BornRules
<1>4. \A r \in Rules : SteadyRow(r, p)
  BY <1>1, <1>3 DEF SteadyRow, Has
<1> QED
  BY <1>1, <1>4, PricedSteady, SameKeeps, ItemsStay, SameListings

LEMMA UpdateRulePriced ==
  ASSUME PromotionAssumption, Types, NEW q \in Rules, NEW reward \in Rewards,
         NEW predicate \in Predicates, UpdateRule(q, predicate, reward),
         NEW p \in Products, Priced(p)
  PROVE  Priced(p)'
<1>1. /\ job' = job /\ promotion' = promotion /\ now' = now /\ clearing' = clearing
      /\ listing' = listing
      /\ todo' = todo \cup {Item("set variants", {q}, rule[q].variants)}
  BY DEF UpdateRule, Later
<1>2. /\ rule[q].exists /\ rule'[q].exists /\ rule'[q].variants = rule[q].variants
      /\ \A s \in Rules \ {q} : rule'[s] = rule[s]
  BY UpdateRuleEffect
<1>3. CASE p \in rule[q].variants
  <2>1. Item("set variants", {q}, rule[q].variants) \in todo'
    BY <1>1
  <2>2. \E item \in todo' : item.do = "set variants" /\ item.products = rule[q].variants
    BY ONLY <2>1 DEF Item
  <2>3. ByItem(p)'
    BY <1>3, <2>2 DEF ByItem
  <2> QED BY <2>3 DEF Priced
<1>4. CASE p \notin rule[q].variants
  <2>1. \A r \in Rules : SteadyRow(r, p)
    BY <1>1, <1>2, <1>4 DEF SteadyRow, Has
  <2>2. todo \subseteq todo'
    BY <1>1
  <2> QED BY <1>1, <2>1, <2>2, PricedSteady, SameKeeps, ItemsStay, SameListings
<1> QED
  BY <1>3, <1>4

LEMMA UpdatePromotionPriced ==
  ASSUME PromotionAssumption, Types, NEW q \in Rules, NEW dates \in Dates,
         UpdatePromotion(q, dates), ~withdrawn', NEW p \in Products, Priced(p)
  PROVE  Priced(p)'
<1>1. /\ job' = job /\ rule' = rule /\ now' = now /\ clearing' = clearing
      /\ listing' = listing
      /\ todo' = todo \cup {Item("mark rules", {q}, {})}
      /\ withdrawn' = (withdrawn \/ /\ rule[q].variants # {}
                                    /\ ~(dates[1] <= now /\ now < dates[2]))
  BY DEF UpdatePromotion
<1>2. /\ rule[q].exists /\ promotion'[q].start = dates[1] /\ promotion'[q].end = dates[2]
      /\ \A s \in Rules \ {q} : promotion'[s] = promotion[s]
  BY UpdatePromotionEffect
<1>3. CASE p \in rule[q].variants
  <2>1. Item("mark rules", {q}, {}) \in todo'
    BY <1>1
  <2>2. \E item \in todo' : item.do = "mark rules" /\ item.rules = {q}
    BY ONLY <2>1 DEF Item
  <2>3. ToMark(q)'
    BY <2>2 DEF ToMark
  <2>4. dates[1] <= now /\ now < dates[2]
    BY <1>1, <1>3
  <2>5. q \in Applicable(p)'
    BY <1>1, <1>2, <1>3, <2>4 DEF Applicable, Active
  <2>6. ByRule(p)'
    BY <2>3, <2>5 DEF ByRule, Reaches
  <2> QED BY <2>6 DEF Priced
<1>4. CASE p \notin rule[q].variants
  <2>1. \A r \in Rules : SteadyRow(r, p)
    BY <1>1, <1>2, <1>4 DEF SteadyRow, Has
  <2>2. todo \subseteq todo'
    BY <1>1
  <2> QED BY <1>1, <2>1, <2>2, PricedSteady, SameKeeps, ItemsStay, SameListings
<1> QED
  BY <1>3, <1>4

LEMMA OtherRequestPriced ==
  ASSUME PromotionAssumption, Types, NEW p \in Products, Priced(p),
         \/ \E q \in Rules : DeleteRule(q)
         \/ \E q \in Products, n \in Prices : SetPrice(q, n)
         \/ \E q \in Rules, s \in Products : ChangeCatalogue(q, s)
  PROVE  Priced(p)'
<1>1. ASSUME NEW q \in Rules, DeleteRule(q)
      PROVE  Priced(p)'
  <2>1. /\ job' = job /\ promotion' = promotion /\ rule' = rule /\ now' = now
        /\ clearing' = clearing /\ listing' = listing /\ todo \subseteq todo'
    BY <1>1 DEF DeleteRule, Later, rows
  <2> QED BY <2>1, PricedSteady, SameRows, SameKeeps, ItemsStay, SameListings
<1>2. ASSUME NEW q \in Rules, NEW s \in Products, ChangeCatalogue(q, s)
      PROVE  Priced(p)'
  <2>1. /\ job' = job /\ promotion' = promotion /\ now' = now
        /\ clearing' = clearing /\ listing' = listing /\ todo \subseteq todo'
    BY <1>2 DEF ChangeCatalogue, Later
  <2>2. \A r \in Rules : SteadyRow(r, p)
    BY <1>2, <2>1, ChangeCatalogueEffect DEF SteadyRow, Has
  <2> QED BY <2>1, <2>2, PricedSteady, SameKeeps, ItemsStay, SameListings
<1>3. ASSUME NEW q \in Products, NEW n \in Prices, SetPrice(q, n)
      PROVE  Priced(p)'
  <2>1. /\ job' = job /\ promotion' = promotion /\ rule' = rule /\ now' = now
        /\ clearing' = clearing /\ todo' = todo \cup {Item("mark products", {}, {q})}
        /\ listing' = [listing EXCEPT ![q].price = n, ![q].discounted = n]
    BY <1>3 DEF SetPrice, Later
  <2>2. CASE p = q
    <3>1. Item("mark products", {}, {q}) \in todo'
      BY <2>1
    <3>2. \E item \in todo' : item.do = "mark products" /\ item.products = {q}
      BY ONLY <3>1 DEF Item
    <3>3. ByItem(p)'
      BY <2>2, <3>2 DEF ByItem
    <3> QED BY <3>3 DEF Priced
  <2>3. CASE p # q
    <3>1. listing'[p] = listing[p]
      BY <2>1, <2>3 DEF Types, ListingsOK
    <3>2. SteadyListing(p)
      BY <3>1 DEF SteadyListing
    <3>3. todo \subseteq todo'
      BY <2>1
    <3> QED BY <2>1, <3>1, <3>2, <3>3, PricedSteady, SameRows, SameKeeps, ItemsStay
  <2> QED BY <2>2, <2>3
<1> QED
  BY <1>1, <1>2, <1>3

\* A product that is marked is up to date: whoever knows its price is overtaken.
Overtook(p) == /\ listing[p].dirty
               /\ \A w \in Workers : job[w].at \in PriceKinds => p \in job[w].stale

LEMMA MarkedDone ==
  ASSUME Types, NEW p, listing'[p].dirty,
         \A v \in Workers : job'[v].at \in PriceKinds =>
           \E marked : Grown(job[v], job'[v], marked) /\ p \in marked
  PROVE  Done(p)' /\ Overtook(p)'
<1>1. ASSUME NEW v \in Workers, job'[v].at \in PriceKinds
      PROVE  p \in job'[v].stale
  <2>1. PICK marked : Grown(job[v], job'[v], marked) /\ p \in marked
    BY <1>1
  <2>2. job[v].at = job'[v].at
    BY <2>1 DEF Grown
  <2>3. job[v] \in WriteJobs \cup PriceJobs
    BY <1>1, <2>2, JobIs DEF Types, PriceKinds
  <2>4. job'[v].stale = job[v].stale \cup marked
    BY <2>1, <2>3 DEF Grown
  <2> QED BY <2>1, <2>4
<1>2. UpToDate(p)'
  BY <1>1 DEF UpToDate, UpToDateBy, PriceKinds
<1> QED
  BY <1>1, <1>2 DEF Done, Overtook

LEMMA ProductsMarked ==
  ASSUME Types, NEW marked \in SUBSET Products, MarkProducts(marked), NEW p \in marked,
         NEW W \in SUBSET Workers,
         \A v \in W : Grown(job[v], job'[v], IF job[v].at \in PriceKinds THEN marked ELSE {}),
         \A v \in Workers \ W : job'[v].at \notin PriceKinds
  PROVE  Done(p)' /\ Overtook(p)'
<1>1. listing'[p].dirty
  BY MarkProductsEffect DEF Types
<1>2. ASSUME NEW v \in Workers, job'[v].at \in PriceKinds
      PROVE  Grown(job[v], job'[v], marked)
  <2>1. v \in W
    BY <1>2
  <2>2. job[v].at \in PriceKinds
    BY <1>2, <2>1 DEF Grown
  <2> QED BY <2>1, <2>2
<1> QED
  BY <1>1, <1>2, MarkedDone

\* A product that is not marked is as it was.
LEMMA ProductsUnmarked ==
  ASSUME Types, NEW marked \in SUBSET Products, MarkProducts(marked), NEW p \in Products
  PROVE  SteadyListing(p) /\ listing'[p].price = listing[p].price
BY MarkProductsEffect DEF Types, SteadyListing, SameListing

LEMMA ItemPriced ==
  ASSUME PromotionAssumption, Types, Known, ~missed', NEW item \in todo, GoOn(item),
         NEW p \in Products, Priced(p)
  PROVE  Priced(p)'
<1>0. RulesOK /\ ListingsOK /\ JobsOK /\ now' = now /\ clearing' = clearing
  BY DEF Types, GoOn
<1>1. Remaining(item) \subseteq todo' =>
        /\ p \notin item.products => (ByItem(p) => ByItem(p)')
        /\ item.do # "mark rules" => \A r : ToMark(r) => ToMark(r)'
  BY DEF ByItem, ToMark, Remaining
<1>2. ASSUME NEW products, p \in products, Item("mark products", {}, products) \in todo'
      PROVE  Priced(p)'
  <2>1. \E new \in todo' : new.do = "mark products" /\ new.products = products
    BY ONLY <1>2 DEF Item
  <2>2. ByItem(p)'
    BY <1>2, <2>1 DEF ByItem
  <2> QED BY <2>2 DEF Priced
<1>3. CASE Delete(item)
  <2>1. PICK q \in Rules :
          /\ item.do = "delete" /\ item.rules = {q} /\ item.products \in SUBSET Products
          /\ rule' = [rule EXCEPT ![q] = Gone(q)]
          /\ \A s \in Products :
               /\ listing'[s].price = listing[s].price
               /\ listing'[s].discounted = listing[s].discounted
               /\ listing'[s].dirty = listing[s].dirty
               /\ listing'[s].applied = [listing[s].applied EXCEPT ![q] = 0]
          /\ missed' = (missed \/ ~(rule[q].variants \subseteq item.products))
          /\ todo' = Remaining(item) \cup {Item("mark products", {}, item.products)}
          /\ UNCHANGED <<promotion, job>>
          /\ RulesOK' /\ ListingsOK' /\ TodoOK'
    BY <1>3, DeleteEffect
  <2>2. CASE p \in item.products
    BY <1>2, <2>1, <2>2
  <2>3. CASE p \notin item.products
    <3>1. \A s \in Rules : s # q => rule'[s] = rule[s]
      BY <1>0, <2>1 DEF RulesOK
    <3>2. p \notin rule[q].variants
      BY <2>1, <2>3
    <3>6. rule'[q] = Gone(q)
      BY <1>0, <2>1 DEF RulesOK
    <3>7. ~Has(q, p) /\ ~Has(q, p)'
      BY <3>2, <3>6 DEF Has, Gone
    <3>3. \A r \in Rules : SteadyRow(r, p)
      BY <2>1, <3>1, <3>7 DEF SteadyRow, Has
    <3>4. SteadyListing(p)
      BY <2>1 DEF SteadyListing
    <3>5. /\ ByItem(p) => ByItem(p)'
          /\ \A r : ToMark(r) => ToMark(r)'
      BY <1>1, <2>1, <2>3
    <3> QED BY <1>0, <2>1, <3>3, <3>4, <3>5, PricedSteady, SameKeeps
  <2> QED BY <2>2, <2>3
<1>4. CASE SetVariants(item)
  <2>1. PICK q \in Rules :
          /\ item.do = "set variants"
          /\ rule' = [rule EXCEPT ![q].variants = rule[q].predicate]
          /\ missed' = (missed \/ ~(rule[q].variants \subseteq item.products))
          /\ todo' = Remaining(item)
               \cup {Item("mark products", {}, item.products \cup rule[q].predicate)}
          /\ Everyone({"relate"}, {q}) /\ UNCHANGED <<promotion, listing>>
    BY <1>4, SetVariantsEffect
  <2>2. CASE p \in item.products \cup rule[q].predicate
    BY <1>2, <2>1, <2>2
  <2>3. CASE p \notin item.products \cup rule[q].predicate
    <3>1. \A s \in Rules : s # q => rule'[s] = rule[s]
      BY <1>0, <2>1 DEF RulesOK
    <3>2. rule'[q].variants = rule[q].predicate
      <4>1. rule'[q] = [rule[q] EXCEPT !.variants = rule[q].predicate]
        BY <1>0, <2>1 DEF RulesOK
      <4> QED BY <1>0, <4>1 DEF RulesOK, RuleRows
    <3>3. p \notin rule[q].variants /\ p \notin rule'[q].variants
      BY <2>1, <2>3, <3>2
    <3>4. \A r \in Rules : SteadyRow(r, p)
      BY <2>1, <3>1, <3>3 DEF SteadyRow, Has
    <3>5. /\ ByItem(p) => ByItem(p)'
          /\ \A r : ToMark(r) => ToMark(r)'
      BY <1>1, <2>1, <2>3
    <3>6. \A v \in Workers : SteadyJob(v, p)
      BY <1>0, <2>1, EveryoneKeeps
    <3> QED BY <1>0, <2>1, <3>4, <3>5, <3>6, PricedSteady, SameListings
  <2> QED BY <2>2, <2>3
<1>5. CASE MarkAfter(item) /\ item.do = "mark products"
  <2>1. /\ item.products \in SUBSET Products /\ MarkProducts(item.products)
        /\ Everyone(PriceKinds, item.products) /\ rule' = rule /\ promotion' = promotion
        /\ Remaining(item) \subseteq todo'
    BY <1>5, MarkAfterEffect
  <2>2. CASE p \in item.products
    <3>1. Done(p)'
      BY <2>1, <2>2, ProductsMarked DEF Everyone
    <3> QED BY <3>1 DEF Priced
  <2>3. CASE p \notin item.products
    <3>1. /\ ByItem(p) => ByItem(p)'
          /\ \A r : ToMark(r) => ToMark(r)'
      BY <1>1, <1>5, <2>1, <2>3
    <3>2. \A v \in Workers : SteadyJob(v, p)
      BY <1>0, <2>1, EveryoneKeeps
    <3>3. SteadyListing(p) /\ listing'[p].price = listing[p].price
      BY <2>1, ProductsUnmarked
    <3> QED BY <1>0, <2>1, <3>1, <3>2, <3>3, PricedSteady, SameRows
  <2> QED BY <2>2, <2>3
<1>6. CASE MarkAfter(item) /\ item.do # "mark products"
  <2>1. /\ Remaining(item) \subseteq todo' /\ promotion' = promotion
        /\ item.do \in {"mark active", "mark rules"}
    BY <1>6, MarkAfterEffect
  <2>2. PICK marked \in SUBSET Rules :
          /\ item.do = "mark rules" => \A r \in Rules : r \in item.rules => r \in marked
          /\ MarkRules(marked) /\ Everyone(RuleKinds, marked) /\ listing' = listing
    BY <1>6, MarkAfterEffect
  <2>3. \A r \in Rules : /\ SameRule(r)
                         /\ rule'[r].dirty = IF r \in marked THEN rule[r].exists
                                             ELSE rule[r].dirty
    BY <1>0, <2>2, MarkRulesEffect
  <2>4. \A v \in Workers : SteadyJob(v, p)
    BY <1>0, <2>2, EveryoneKeeps
  <2>5. \A r \in Rules : SteadyRow(r, p)
    BY <2>1, <2>3 DEF SteadyRow, Has, SameRule
  <2>6. /\ SteadyHas(p) /\ Applicable(p)' = Applicable(p)
        /\ \A r \in Applicable(p) : rule'[r].reward = rule[r].reward
        /\ \A r \in Rules : rule[r].exists /\ p \in rule[r].variants =>
             promotion'[r].notified = promotion[r].notified
        /\ \A r \in Applicable(p) : rule[r].dirty => rule'[r].dirty
    BY <1>0, <2>5, RowsKeep
  <2>7. SteadyListing(p) /\ SteadyCalc(p)
    BY <2>2, <2>6, SameListings DEF SteadyCalc
  <2>8. ByItem(p) => ByItem(p)'
    BY <2>1 DEF ByItem, Remaining
  <2>9. ASSUME NEW r \in Applicable(p), Reaches(r, p)
        PROVE  Reaches(r, p)'
    <3>1. r \in Rules /\ rule[r].exists
      BY DEF Applicable, Active
    <3>2. CASE ToMark(r) /\ item.do = "mark rules" /\ r \in item.rules
      <4>1. r \in marked
        BY <2>2, <3>1, <3>2
      <4>2. rule'[r].dirty
        BY <2>3, <3>1, <4>1
      <4>3. ASSUME NEW v \in Workers, Picked(v, r)'
            PROVE  r \in job'[v].stale
        <5>1. Grown(job[v], job'[v], IF job[v].at \in RuleKinds THEN marked ELSE {})
          BY <2>2 DEF Everyone
        <5>2. job'[v].at \in RuleKinds /\ job[v].at = job'[v].at
          BY <4>3, <5>1 DEF Grown, Picked
        <5>3. Grown(job[v], job'[v], marked)
          BY <5>1, <5>2
        <5>4. job'[v].stale = job[v].stale \cup marked
          BY <1>0, <5>2, <5>3, GrownPicks
        <5> QED BY <4>1, <5>4
      <4> QED BY <4>2, <4>3 DEF Reaches
    <3>3. CASE ~(ToMark(r) /\ item.do = "mark rules" /\ r \in item.rules)
      <4>1. ToMark(r) => ToMark(r)'
        BY <2>1, <3>3 DEF ToMark, Remaining
      <4>2. \A v \in Workers : SteadyReach(v, r, p)
        BY <2>4 DEF SteadyJob
      <4> QED BY <2>6, <2>9, <4>1, <4>2, KeepReach
    <3> QED BY <3>2, <3>3
  <2> QED BY <1>0, <2>4, <2>6, <2>7, <2>8, <2>9, PricedStays
<1> QED
  BY <1>3, <1>4, <1>5, <1>6 DEF GoOn

-----------------------------------------------------------------------------
(* The same for the tasks.  A worker keeps what it does for a price, or has *)
(* something new to do for it.                                             *)

SteadyTask(w, p) == /\ SteadyTouch(w, p) /\ SteadyWrite(w, p) /\ SteadyClear(w, p)
                    /\ \A r : SteadyReach(w, r, p)

LEMMA SteadyTasks ==
  ASSUME NEW w \in Workers, NEW p, SteadyTask(w, p),
         \A v \in Workers \ {w} : \A q : SteadyJob(v, q)
  PROVE  \A v \in Workers : SteadyTask(v, p)
BY DEF SteadyTask, SteadyJob

\* Whatever makes a price right still does, but for the two that depend on time.
LEMMA PricedUnlessTimed ==
  ASSUME NEW p, Priced(p), ByItem(p) => ByItem(p)', SteadyCalc(p), SteadyListing(p),
         \A w \in Workers : SteadyTouch(w, p) /\ SteadyWrite(w, p),
         \A r \in Applicable(p) : Reaches(r, p) => Reaches(r, p)'
  PROVE  Priced(p)' \/ ByTime(p) \/ ByEnd(p)
<1>2. ByJob(p) => ByJob(p)'
  BY KeepJob
<1>3. ByRule(p) => ByRule(p)'
  BY KeepRule DEF SteadyCalc
<1>6. Done(p) => Done(p)'
  BY KeepDone
<1> QED
  BY <1>2, <1>3, <1>6 DEF Priced

\* The same, where the end of a rule is still on its way.
LEMMA PricedUnlessDue ==
  ASSUME NEW p, Priced(p), ByItem(p) => ByItem(p)', SteadyCalc(p), SteadyListing(p),
         \A w \in Workers : SteadyTask(w, p),
         \A r \in Applicable(p) : Reaches(r, p) => Reaches(r, p)',
         SteadyHas(p), now' = now, Clears => Clears'
  PROVE  Priced(p)' \/ ByTime(p)
<1>1. ByEnd(p) => ByEnd(p)'
  BY KeepEnd DEF SteadyTask
<1> QED
  BY <1>1, PricedUnlessTimed DEF Priced, SteadyTask

\* Tasks that have nothing to do with prices now, nor had.
LEMMA FreeTask ==
  ASSUME NEW w, NEW p, job[w].at \notin TouchKinds,
         job'[w].at \notin RuleKinds \cup PriceKinds \cup {"clear expired"}
  PROVE  SteadyTask(w, p)
BY DEF SteadyTask, SteadyTouch, SteadyWrite, SteadyClear, SteadyReach, Picked, PriceKinds,
       RuleKinds, TouchKinds

\* Who marks what it clears still does when another worker goes on.
LEMMA ClearsGoesOn ==
  ASSUME NEW w \in Workers, job[w].at \notin {"mark expired", "clear expired"},
         clearing => clearing',
         \A v \in Workers \ {w} : \A q : SteadyJob(v, q), Clears
  PROVE  Clears'
BY DEF Clears, SteadyJob

\* Rules that are steady and marked in no other way.
LEMMA SameReach ==
  ASSUME NEW p, NEW r, todo \subseteq todo', rule[r].dirty => rule'[r].dirty,
         \A w \in Workers : SteadyReach(w, r, p), Reaches(r, p)
  PROVE  Reaches(r, p)'
BY KeepReach, ItemsStay

LEMMA ReadTogglesPriced ==
  ASSUME PromotionAssumption, Types, NEW w \in Workers, ReadToggles(w),
         NEW p \in Products, Priced(p)
  PROVE  Priced(p)'
<1>1. /\ now' = now /\ todo' = todo /\ rule' = rule /\ promotion' = promotion
      /\ listing' = listing /\ clearing' = (clearing \/ Ending # {})
  BY DEF ReadToggles, rows
<1>2. /\ Others(w, {}, {}) /\ job[w] = Idle
      /\ job'[w] = [at |-> "toggled", rules |-> Starting \cup Ending, seen |-> now]
  BY ReadTogglesJob
<1>3. job[w].at = "idle" /\ job'[w].at = "toggled"
  BY <1>2 DEF Idle
<1>4. \A v \in Workers \ {w} : \A q : SteadyJob(v, q)
  BY <1>2, OthersKeep DEF Types
<1>5. SteadyTask(w, p)
  BY <1>3, FreeTask DEF TouchKinds, RuleKinds, PriceKinds
<1>6. \A v \in Workers : SteadyTask(v, p)
  BY <1>4, <1>5, SteadyTasks
<1>7. \A r \in Rules : SteadyRow(r, p)
  BY <1>1, SameRows
<1>8. SteadyHas(p) /\ SteadyCalc(p) /\ SteadyListing(p)
  BY <1>1, <1>7, RowsKeep, SameListings DEF SteadyCalc
<1>9. \A r \in Applicable(p) : Reaches(r, p) => Reaches(r, p)'
  BY <1>1, <1>6, SameReach DEF SteadyTask
<1>10. Clears => Clears'
  BY <1>1, <1>3, <1>4, ClearsGoesOn
<1>11. ByItem(p) => ByItem(p)'
  BY <1>1, ItemsStay
<1>12. Priced(p)' \/ ByTime(p)
  BY <1>1, <1>6, <1>8, <1>9, <1>10, <1>11, PricedUnlessDue
<1>13. ASSUME NEW r \in Rules, Open(r), Counted(r, p)
       PROVE  Priced(p)'
  <2>1. Counted(r, p)'
    BY <1>6, <1>8, <1>13, KeepCounted DEF SteadyTask
  <2>2. CASE r \in Ending
    <3>1. Expired(r)' /\ Clears'
      BY <1>1, <2>2 DEF Ending, Expired, Clears
    <3> QED BY <2>1, <3>1 DEF Priced, ByEnd
  <2>3. CASE r \notin Ending
    <3>1. Active(r) /\ r \in Starting /\ ~Noticing(r, {"notify"})
      BY <1>13, <2>3 DEF Open
    <3>2. ~Noticing(r, {"notify"})'
      BY <1>3, <1>4, <3>1 DEF Noticing, NoticedBy, SteadyJob, SteadySeen
    <3>3. (Active(r) /\ r \in Starting)'
      BY <1>1, <3>1 DEF Active, Starting
    <3> QED BY <2>1, <3>2, <3>3 DEF Priced, ByTime, Open
  <2> QED BY <2>2, <2>3
<1> QED
  BY <1>12, <1>13 DEF ByTime

LEMMA MarkToggledPriced ==
  ASSUME PromotionAssumption, Types, NEW w \in Workers, MarkToggled(w),
         NEW p \in Products, Priced(p)
  PROVE  Priced(p)'
<1> DEFINE marked == job[w].rules
<1>1. /\ now' = now /\ todo' = todo /\ promotion' = promotion
      /\ listing' = listing /\ clearing' = clearing /\ MarkRules(marked)
  BY DEF MarkToggled, MarkRules
<1>2. /\ Others(w, RuleKinds, marked)
      /\ job[w] \in ToggleJobs /\ job[w].at = "toggled" /\ job'[w].at = "notify"
      /\ job'[w].rules = job[w].rules /\ job'[w].seen = job[w].seen
  BY MarkToggledJob
<1>3. marked \in SUBSET Rules
  BY <1>2 DEF ToggleJobs
<1> HIDE DEF marked
<1>4. \A v \in Workers \ {w} : \A q : SteadyJob(v, q)
  BY <1>2, OthersKeep DEF Types
<1>5. SteadyTask(w, p)
  BY <1>2, FreeTask DEF TouchKinds, RuleKinds, PriceKinds
<1>6. \A v \in Workers : SteadyTask(v, p)
  BY <1>4, <1>5, SteadyTasks
<1>7. \A r \in Rules : /\ SameRule(r)
                       /\ rule'[r].dirty = IF r \in marked THEN rule[r].exists
                                           ELSE rule[r].dirty
  BY <1>1, <1>3, MarkRulesEffect DEF Types
<1>71. \A r \in Rules : rule[r].exists /\ rule[r].dirty => rule'[r].dirty
  BY <1>7
<1>72. \A r \in Rules : SteadyRow(r, p)
  BY <1>1, <1>7, <1>71 DEF SteadyRow, Has, SameRule
<1>8. SteadyHas(p) /\ SteadyCalc(p) /\ SteadyListing(p) /\ Applicable(p)' = Applicable(p)
  BY <1>1, <1>72, RowsKeep, SameListings DEF SteadyCalc
<1>9. ASSUME NEW r \in Applicable(p), Reaches(r, p)
      PROVE  Reaches(r, p)'
  <2>1. r \in Rules /\ rule[r].exists
    BY DEF Applicable, Active
  <2> QED BY <1>1, <1>6, <1>71, <1>9, <2>1, SameReach DEF SteadyTask
<1>10. Clears => Clears'
  BY <1>1, <1>2, <1>4, ClearsGoesOn
<1>11. ByItem(p) => ByItem(p)'
  BY <1>1, ItemsStay
<1>12. Priced(p)' \/ ByTime(p)
  BY <1>1, <1>6, <1>8, <1>9, <1>10, <1>11, PricedUnlessDue
<1>13. ASSUME NEW r \in Rules, Open(r), Counted(r, p)
       PROVE  Priced(p)'
  <2>1. Counted(r, p)'
    BY <1>6, <1>8, <1>13, KeepCounted DEF SteadyTask
  <2>2. CASE r \in Ending
    <3>1. ~Noticed(r)
      <4>1. ~Active(r)
        BY <2>2, TimesAre DEF Ending, Active
      <4> QED BY <1>13, <4>1 DEF Open
    <3>2. ~Noticed(r)'
      BY <1>1, <1>2, <1>4, <3>1 DEF Noticed, SteadyJob, SteadySeen
    <3>3. r \in Ending'
      BY <1>1, <1>7, <2>2 DEF Ending, SameRule
    <3> QED BY <2>1, <3>2, <3>3 DEF Priced, ByTime, Open
  <2>3. CASE r \notin Ending
    <3>1. Active(r) /\ r \in Starting /\ ~Noticing(r, {"notify"})
      BY <1>13, <2>3 DEF Open
    <3>3. (Active(r) /\ r \in Starting)'
      BY <1>1, <1>7, <3>1 DEF Active, Starting, SameRule
    <3>4. CASE r \notin marked
      <4>1. ~Noticing(r, {"notify"})'
        BY <1>2, <1>4, <3>1, <3>4 DEF Noticing, NoticedBy, SteadyJob, SteadySeen, marked
      <4> QED BY <2>1, <3>3, <4>1 DEF Priced, ByTime, Open
    <3>5. CASE r \in marked
      <4>1. r \in Applicable(p)'
        BY <1>8, <1>13, <3>1 DEF Applicable, Counted
      <4>2. rule'[r].dirty
        BY <1>7, <3>1, <3>5 DEF Active
      <4>3. ASSUME NEW v \in Workers, Picked(v, r)'
            PROVE  r \in job'[v].stale
        <5>1. v \in Workers \ {w}
          BY <1>2, <4>3 DEF Picked, RuleKinds
        <5>2. Grown(job[v], job'[v], IF job[v].at \in RuleKinds THEN marked ELSE {})
          BY <1>2, <5>1 DEF Others
        <5>3. job'[v].at \in RuleKinds /\ job[v].at = job'[v].at
          BY <4>3, <5>2 DEF Grown, Picked
        <5>4. Grown(job[v], job'[v], marked)
          BY <5>2, <5>3
        <5>5. job'[v].stale = job[v].stale \cup marked
          BY <5>3, <5>4, GrownPicks DEF Types
        <5> QED BY <3>5, <5>5
      <4> QED BY <4>1, <4>2, <4>3 DEF Priced, ByRule, Reaches
    <3> QED BY <3>4, <3>5
  <2> QED BY <2>2, <2>3
<1> QED
  BY <1>12, <1>13 DEF ByTime

LEMMA NotifyPriced ==
  ASSUME PromotionAssumption, Types, NEW w \in Workers, Notify(w), ~missed',
         NEW p \in Products, Priced(p)
  PROVE  Priced(p)'
<1>1. /\ now' = now /\ todo' = todo /\ rule' = rule
      /\ listing' = listing /\ clearing' = clearing
      /\ \A r \in job[w].rules \cap Ending : ~(promotion[r].end > job[w].seen)
  BY DEF Notify
<1>2. /\ Others(w, {}, {}) /\ job'[w] = Idle
      /\ job[w] \in ToggleJobs /\ job[w].at = "notify"
  BY NotifyJob
<1>3. job'[w].at = "idle"
  BY <1>2 DEF Idle
<1>4. \A v \in Workers \ {w} : \A q : SteadyJob(v, q)
  BY <1>2, OthersKeep DEF Types
<1>5. SteadyTask(w, p)
  BY <1>2, <1>3, FreeTask DEF TouchKinds, RuleKinds, PriceKinds
<1>6. \A v \in Workers : SteadyTask(v, p)
  BY <1>4, <1>5, SteadyTasks
<1>7. \A r \in Rules : /\ promotion'[r].start = promotion[r].start
                       /\ promotion'[r].end = promotion[r].end
                       /\ r \notin job[w].rules => promotion'[r].notified = promotion[r].notified
  BY NotifyEffect
<1>71. \A r \in Rules : Active(r)' <=> Active(r)
  BY <1>1, <1>7 DEF Active
<1>72. Applicable(p)' = Applicable(p)
  BY <1>1, <1>71 DEF Applicable
<1>8. SteadyHas(p) /\ SteadyCalc(p) /\ SteadyListing(p)
  BY <1>1, <1>7, <1>72, SameListings DEF SteadyCalc, SteadyHas
<1>9. \A r \in Applicable(p) : Reaches(r, p) => Reaches(r, p)'
  BY <1>1, <1>6, SameReach DEF SteadyTask
<1>10. Clears => Clears'
  BY <1>1, <1>2, <1>4, ClearsGoesOn
<1>11. ByItem(p) => ByItem(p)'
  BY <1>1, ItemsStay
<1>12. Priced(p)' \/ ByTime(p)
  BY <1>1, <1>6, <1>8, <1>9, <1>10, <1>11, PricedUnlessDue
<1>13. ASSUME NEW r \in Rules, Open(r), Counted(r, p)
       PROVE  Priced(p)'
  <2>1. Counted(r, p)'
    BY <1>6, <1>8, <1>13, KeepCounted DEF SteadyTask
  <2>2. CASE r \in Ending
    <3>1. ~Noticed(r)
      <4>1. ~Active(r)
        BY <2>2, TimesAre DEF Ending, Active
      <4> QED BY <1>13, <4>1 DEF Open
    <3>2. r \notin job[w].rules
      <4>1. r \in job[w].rules => promotion[r].end <= job[w].seen
        <5>1. job[w].seen \in Int /\ promotion[r].end \in Int
          BY <1>2, TimesAre DEF ToggleJobs
        <5> QED BY <1>1, <2>2, <5>1
      <4> QED BY <1>2, <3>1, <4>1 DEF Noticed
    <3>3. ~Noticed(r)'
      BY <1>3, <1>4, <1>7, <3>1 DEF Noticed, SteadyJob, SteadySeen
    <3>4. r \in Ending'
      BY <1>1, <1>7, <2>2, <3>2 DEF Ending
    <3> QED BY <2>1, <3>3, <3>4 DEF Priced, ByTime, Open
  <2>3. CASE r \notin Ending
    <3>1. Active(r) /\ r \in Starting /\ ~Noticing(r, {"notify"})
      BY <1>13, <2>3 DEF Open
    <3>2. r \notin job[w].rules
      BY <1>2, <3>1 DEF Noticing, NoticedBy
    <3>3. ~Noticing(r, {"notify"})'
      BY <1>3, <1>4, <3>1 DEF Noticing, NoticedBy, SteadyJob, SteadySeen
    <3>4. (Active(r) /\ r \in Starting)'
      BY <1>1, <1>7, <3>1, <3>2 DEF Active, Starting
    <3> QED BY <2>1, <3>3, <3>4 DEF Priced, ByTime, Open
  <2> QED BY <2>2, <2>3
<1> QED
  BY <1>12, <1>13 DEF ByTime

\* Who notices dates, or does not, still does.
LEMMA OpenStays ==
  ASSUME NEW r \in Rules, now' = now, rule'[r].exists = rule[r].exists,
         promotion'[r] = promotion[r], \A w \in Workers : SteadySeen(w), Open(r)
  PROVE  Open(r)'
<1>1. /\ Active(r)' <=> Active(r)
      /\ r \in Starting' <=> r \in Starting
      /\ r \in Ending' <=> r \in Ending
  BY DEF Active, Starting, Ending
<1>2. Noticing(r, {"notify"})' => Noticing(r, {"notify"})
  BY DEF Noticing, NoticedBy, SteadySeen
<1>3. Noticed(r)' => Noticed(r)
  BY DEF Noticed, SteadySeen
<1> QED
  BY <1>1, <1>2, <1>3 DEF Open

\* What is taken for expired is not active.
LEMMA ActiveNotCleared ==
  ASSUME PromotionAssumption, Types, ClearsExpired, ~missed, NEW w \in Workers,
         job[w].at \in {"mark expired", "clear expired"}, NEW r \in Rules, Active(r)
  PROVE  r \notin DOMAIN job[w].pairs
<1>1. r \in DOMAIN job[w].pairs => promotion[r].end <= now
  BY ClearedEnded
<1>2. ~(promotion[r].end <= now)
  <2>1. promotion[r].end \in Int /\ now \in Nat
    BY TimesAre
  <2>2. now < promotion[r].end
    BY DEF Active
  <2> QED BY ONLY <2>1, <2>2
<1> QED
  BY <1>1, <1>2

LEMMA ClearReadPriced ==
  ASSUME PromotionAssumption, Types, NEW w \in Workers, ClearRead(w),
         NEW p \in Products, Priced(p)
  PROVE  Priced(p)'
<1>1. /\ now' = now /\ todo' = todo /\ rule' = rule /\ promotion' = promotion
      /\ listing' = listing
  BY DEF ClearRead, rows
<1>2. /\ Others(w, {}, {}) /\ job[w] = Idle
      /\ \/ /\ \A r \in Rules : ~(Expired(r) /\ rule[r].variants # {})
            /\ job' = job
         \/ /\ job'[w] \in ClearJobs /\ job'[w].at = "mark expired"
            /\ \A r \in DOMAIN job'[w].pairs : r \in Rules /\ Expired(r)
            /\ job'[w].since = now
  BY ClearReadJob
<1>3. job[w].at = "idle" /\ job'[w].at \in {"idle", "mark expired"}
  <2>1. job[w].at = "idle"
    BY <1>2, StageOf
  <2>2. job' = job \/ job'[w].at = "mark expired"
    BY <1>2
  <2> QED BY <2>1, <2>2
<1>4. \A v \in Workers \ {w} : \A q : SteadyJob(v, q)
  BY <1>2, OthersKeep DEF Types
<1>5. SteadyTask(w, p)
  BY <1>3, FreeTask DEF TouchKinds, RuleKinds, PriceKinds
<1>6. \A v \in Workers : SteadyTask(v, p)
  BY <1>4, <1>5, SteadyTasks
<1>7. \A r \in Rules : SteadyRow(r, p)
  BY <1>1, SameRows
<1>8. SteadyHas(p) /\ SteadyCalc(p) /\ SteadyListing(p)
  BY <1>1, <1>7, RowsKeep, SameListings DEF SteadyCalc
<1>9. \A r \in Applicable(p) : Reaches(r, p) => Reaches(r, p)'
  BY <1>1, <1>6, SameReach DEF SteadyTask
<1>10. \A v \in Workers : SteadySeen(v)
  BY <1>3, <1>4 DEF SteadyJob, SteadySeen
<1>11. ByItem(p) => ByItem(p)'
  BY <1>1, ItemsStay
<1>12. Priced(p)' \/ ByTime(p) \/ ByEnd(p)
  BY <1>6, <1>8, <1>9, <1>11, PricedUnlessTimed DEF SteadyTask
<1>13. ByTime(p) => ByTime(p)'
  BY <1>1, <1>6, <1>8, <1>10, KeepTime DEF SteadyTask
<1>14. ByEnd(p) => ByEnd(p)'
  <2>1. CASE \A r \in Rules : ~(Expired(r) /\ rule[r].variants # {})
    BY <2>1 DEF ByEnd, Counted
  <2>2. CASE job'[w].at = "mark expired"
    <3>1. Clears'
      BY <2>2 DEF Clears
    <3> QED BY <1>1, <1>6, <1>8, <3>1, KeepEnd DEF SteadyTask
  <2> QED BY <1>2, <2>1, <2>2
<1> QED
  BY <1>12, <1>13, <1>14 DEF Priced

LEMMA ClearMarkPriced ==
  ASSUME PromotionAssumption, Types, ClearsExpired, ~missed, NEW w \in Workers, ClearMark(w),
         NEW p \in Products, Priced(p)
  PROVE  Priced(p)'
<1>1. /\ now' = now /\ todo' = todo /\ rule' = rule /\ promotion' = promotion
      /\ clearing' = clearing /\ MarkProducts(OfExpired(job[w].since))
  BY DEF ClearMark, MarkProducts, OfExpired
<1>2. /\ Others(w, PriceKinds, OfExpired(job[w].since))
      /\ job[w].at = "mark expired" /\ job'[w].at = "clear expired"
      /\ job'[w].pairs = job[w].pairs /\ job'[w].since = job[w].since
  BY ClearMarkJob
<1>3. /\ OfExpired(job[w].since) \in SUBSET Products
      /\ \A r \in Rules : ExpiredBy(r, job[w].since) =>
           rule[r].variants \subseteq OfExpired(job[w].since)
  BY OfExpiredIs DEF Types
<1>4. \A v \in Workers \ {w} : \A q : SteadyJob(v, q)
  BY <1>2, OthersKeep DEF Types
<1>5. CASE p \in OfExpired(job[w].since)
  <2>1. Done(p)'
    <3>1. \A v \in Workers \ {w} :
            Grown(job[v], job'[v], IF job[v].at \in PriceKinds THEN OfExpired(job[w].since) ELSE {})
      BY <1>2 DEF Others
    <3>2. \A v \in Workers \ (Workers \ {w}) : job'[v].at \notin PriceKinds
      BY <1>2 DEF PriceKinds
    <3>3. Workers \ {w} \in SUBSET Workers
      OBVIOUS
    <3> QED BY <1>1, <1>3, <1>5, <3>1, <3>2, <3>3, ProductsMarked
  <2> QED BY <2>1 DEF Priced
<1>6. CASE p \notin OfExpired(job[w].since)
  <2>1. SteadyTouch(w, p) /\ SteadyWrite(w, p) /\ SteadySeen(w) /\ \A r : SteadyReach(w, r, p)
    BY <1>2 DEF SteadyTouch, SteadyWrite, SteadySeen, SteadyReach, Picked, TouchKinds, RuleKinds
  <2>2. \A v \in Workers : /\ SteadyTouch(v, p) /\ SteadyWrite(v, p) /\ SteadySeen(v)
                           /\ \A r : SteadyReach(v, r, p)
    BY <1>4, <2>1 DEF SteadyJob
  <2>3. \A r \in Rules : SteadyRow(r, p)
    BY <1>1, SameRows
  <2>4. SteadyHas(p) /\ SteadyCalc(p) /\ SteadyListing(p)
    BY <1>1, <1>3, <2>3, RowsKeep, ProductsUnmarked DEF SteadyCalc
  <2>5. \A r \in Applicable(p) : Reaches(r, p) => Reaches(r, p)'
    BY <1>1, <2>2, SameReach
  <2>6. ByItem(p) => ByItem(p)'
    BY <1>1, ItemsStay
  <2>7. Priced(p)' \/ ByTime(p) \/ ByEnd(p)
    BY <2>2, <2>4, <2>5, <2>6, PricedUnlessTimed
  <2>8. ASSUME NEW r \in Rules, Counted(r, p)
        PROVE  Counted(r, p)'
    <3>1. ~(promotion[r].end <= job[w].since)
      BY <1>3, <1>6, <2>8 DEF Counted, ExpiredBy
    <3>2. r \notin DOMAIN job'[w].pairs
      BY <1>2, <3>1 DEF ClearsExpired
    <3>3. \A v \in Workers : ~ /\ job'[v].at = "clear expired"
                               /\ r \in DOMAIN job'[v].pairs /\ p \in job'[v].pairs[r]
      BY <1>4, <2>8, <3>2 DEF SteadyJob, SteadyClear, Counted
    <3> QED BY <1>1, <2>8, <3>3 DEF Counted
  <2>10. ByEnd(p) => ByEnd(p)'
    <3>1. Clears'
      BY <1>2 DEF Clears
    <3> QED BY <1>1, <2>8, <3>1 DEF ByEnd, Expired
  <2>9. ASSUME NEW r \in Rules, Open(r), Counted(r, p)
        PROVE  Priced(p)'
    <3>1. Counted(r, p)'
      BY <2>8, <2>9
    <3>2. Open(r)'
      BY <1>1, <2>2, <2>9, OpenStays
    <3> QED BY <3>1, <3>2 DEF Priced, ByTime
  <2> QED BY <2>7, <2>9, <2>10 DEF ByTime, Priced
<1> QED
  BY <1>5, <1>6

LEMMA ClearDeletePriced ==
  ASSUME PromotionAssumption, Types, ClearsExpired, ~missed, NEW w \in Workers,
         ClearDelete(w), NEW p \in Products, Priced(p)
  PROVE  Priced(p)'
<1>1. /\ now' = now /\ todo' = todo /\ promotion' = promotion /\ listing' = listing
      /\ clearing' = TRUE
  BY DEF ClearDelete
<1>2. /\ Others(w, {}, {}) /\ job'[w] = Idle /\ job[w].at = "clear expired"
  BY ClearDeleteJob
<1>3. job'[w].at = "idle"
  BY <1>2, StageOf
<1>4. \A v \in Workers \ {w} : \A q : SteadyJob(v, q)
  BY <1>2, OthersKeep DEF Types
<1>5. SteadyTask(w, p)
  BY <1>2, <1>3, FreeTask DEF TouchKinds, RuleKinds, PriceKinds
<1>6. \A v \in Workers : SteadyTask(v, p)
  BY <1>4, <1>5, SteadyTasks
<1>7. \A r \in Rules :
        /\ rule'[r].exists = rule[r].exists /\ rule'[r].reward = rule[r].reward
        /\ rule'[r].dirty = rule[r].dirty
        /\ r \notin DOMAIN job[w].pairs => rule'[r].variants = rule[r].variants
        /\ r \in DOMAIN job[w].pairs =>
             rule'[r].variants = rule[r].variants \ job[w].pairs[r]
  BY ClearDeleteEffect
<1>8. \A r \in Rules : Active(r) => rule'[r].variants = rule[r].variants
  BY <1>2, <1>7, ActiveNotCleared
<1>9. \A r \in Rules : Active(r)' <=> Active(r)
  BY <1>1, <1>7 DEF Active
<1>10. Applicable(p)' = Applicable(p)
  BY <1>8, <1>9 DEF Applicable
<1>11. SteadyCalc(p) /\ SteadyListing(p)
  <2>1. \A r \in Applicable(p) : rule'[r].reward = rule[r].reward
    BY <1>7 DEF Applicable
  <2> QED BY <1>1, <1>10, <2>1, SameListings DEF SteadyCalc
<1>12. \A r \in Applicable(p) : Reaches(r, p) => Reaches(r, p)'
  <2>1. \A r \in Applicable(p) : rule'[r].dirty = rule[r].dirty
    BY <1>7 DEF Applicable
  <2> QED BY <1>1, <1>6, <2>1, SameReach DEF SteadyTask
<1>13. ByItem(p) => ByItem(p)'
  BY <1>1, ItemsStay
<1>14. Priced(p)' \/ ByTime(p) \/ ByEnd(p)
  BY <1>6, <1>11, <1>12, <1>13, PricedUnlessTimed DEF SteadyTask
<1>15. ASSUME NEW r \in Rules, Counted(r, p)
       PROVE  Counted(r, p)'
  <2>1. p \in rule'[r].variants /\ rule'[r].exists
    BY <1>2, <1>7, <1>15 DEF Counted
  <2>2. \A v \in Workers : ~ /\ job'[v].at = "clear expired"
                             /\ r \in DOMAIN job'[v].pairs /\ p \in job'[v].pairs[r]
    BY <1>6, <1>15 DEF SteadyTask, SteadyClear, Counted
  <2> QED BY <2>1, <2>2 DEF Counted
<1>16. \A v \in Workers : SteadySeen(v)
  BY <1>3, <1>4 DEF SteadyJob, SteadySeen
<1>17. \A r \in Rules : Open(r) => Open(r)'
  BY <1>1, <1>7, <1>16, OpenStays
<1>18. \A r \in Rules : Expired(r) => Expired(r)'
  BY <1>1, <1>7 DEF Expired
<1>19. Clears'
  BY <1>1 DEF Clears
<1> QED
  BY <1>14, <1>15, <1>17, <1>18, <1>19 DEF Priced, ByTime, ByEnd

LEMMA SelectPriced ==
  ASSUME PromotionAssumption, Types, NEW w \in Workers, Select(w),
         NEW p \in Products, Priced(p)
  PROVE  Priced(p)'
<1>1. /\ now' = now /\ todo' = todo /\ rule' = rule /\ promotion' = promotion
      /\ listing' = listing /\ clearing' = clearing
  BY DEF Select, rows
<1>2. /\ Others(w, {}, {}) /\ job[w] = Idle
      /\ job'[w].at = "relate" /\ DOMAIN job'[w].picks = Selected
      /\ \A r \in Selected : Touched(r) \subseteq job'[w].products
  BY SelectJob
<1>3. job[w].at = "idle"
  BY <1>2, StageOf
<1>4. \A v \in Workers \ {w} : \A q : SteadyJob(v, q)
  BY <1>2, OthersKeep DEF Types
<1>5. SteadyTouch(w, p) /\ SteadyWrite(w, p) /\ SteadySeen(w) /\ SteadyClear(w, p)
  BY <1>2, <1>3 DEF SteadyTouch, SteadyWrite, SteadySeen, SteadyClear, TouchKinds
<1>6. \A v \in Workers : SteadyTouch(v, p) /\ SteadyWrite(v, p) /\ SteadySeen(v)
                         /\ SteadyClear(v, p)
  BY <1>4, <1>5 DEF SteadyJob
<1>7. \A r \in Rules : SteadyRow(r, p)
  BY <1>1, SameRows
<1>8. SteadyHas(p) /\ SteadyCalc(p) /\ SteadyListing(p)
  BY <1>1, <1>7, RowsKeep, SameListings DEF SteadyCalc
<1>9. ASSUME NEW r \in Applicable(p), Reaches(r, p)
      PROVE  Reaches(r, p)'
  <2>1. ToMark(r) => ToMark(r)'
    BY <1>1, ItemsStay
  <2>2. p \in Touched(r)
    BY DEF Applicable, Touched
  <2>3. Picked(w, r)' => p \in job'[w].products
    BY <1>2, <2>2 DEF Picked
  <2>4. \A v \in Workers \ {w} : SteadyReach(v, r, p)
    BY <1>4 DEF SteadyJob
  <2> QED BY <1>1, <1>9, <2>1, <2>3, <2>4 DEF Reaches, SteadyReach
<1>10. Clears => Clears'
  BY <1>1, <1>3, <1>4, ClearsGoesOn
<1>11. ByItem(p) => ByItem(p)'
  BY <1>1, ItemsStay
<1>12. Priced(p)' \/ ByTime(p) \/ ByEnd(p)
  BY <1>6, <1>8, <1>9, <1>11, PricedUnlessTimed
<1>13. ByTime(p) => ByTime(p)'
  BY <1>1, <1>6, <1>8, KeepTime
<1>14. ByEnd(p) => ByEnd(p)'
  BY <1>1, <1>6, <1>8, <1>10, KeepEnd
<1> QED
  BY <1>12, <1>13, <1>14 DEF Priced

LEMMA RelatePriced ==
  ASSUME PromotionAssumption, Types, Covered, NEW w \in Workers, Relate(w), ~missed',
         NEW p \in Products, Priced(p)
  PROVE  Priced(p)'
<1>1. /\ now' = now /\ todo' = todo /\ promotion' = promotion /\ listing' = listing
      /\ clearing' = clearing /\ job[w].stale \cap DOMAIN job[w].picks = {}
  BY DEF Relate
<1>2. /\ Others(w, {"relate"}, DOMAIN job[w].picks)
      /\ job[w].at = "relate" /\ job'[w].at = "clear rules"
      /\ job'[w].picks = job[w].picks /\ job'[w].products = job[w].products
      /\ job'[w].stale = job[w].stale
  BY RelateJob
<1>3. CASE p \in job[w].products
  <2>1. ByJob(p)'
    BY <1>2, <1>3 DEF ByJob, TouchKinds
  <2> QED BY <2>1 DEF Priced
<1>4. CASE p \notin job[w].products
  <2>1. \A r \in DOMAIN job[w].picks : p \notin rule[r].variants /\ p \notin job[w].picks[r]
    BY <1>1, <1>2, <1>4 DEF Covered, At
  <2>2. \A r \in Rules :
          /\ rule'[r].exists = rule[r].exists /\ rule'[r].reward = rule[r].reward
          /\ rule'[r].dirty = rule[r].dirty
          /\ r \notin DOMAIN job[w].picks \/ ~rule[r].exists =>
               rule'[r].variants = rule[r].variants
          /\ r \in DOMAIN job[w].picks /\ rule[r].exists =>
               rule'[r].variants = job[w].picks[r]
    BY RelateEffect
  <2>3. \A r \in Rules : p \in rule'[r].variants <=> p \in rule[r].variants
    BY <2>1, <2>2
  <2>4. \A r \in Rules : SteadyRow(r, p)
    BY <1>1, <2>2, <2>3 DEF SteadyRow, Has
  <2>5. SteadyJob(w, p)
    BY <1>2 DEF SteadyJob, SteadyTouch, SteadyWrite, SteadyClear, SteadySeen, SteadyReach,
                Picked, TouchKinds, RuleKinds
  <2>6. \A v \in Workers : SteadyJob(v, p)
    <3>1. \A v \in Workers \ {w} : \A q : SteadyJob(v, q)
      BY <1>2, OthersKeep DEF Types
    <3> QED BY <2>5, <3>1
  <2>7. todo \subseteq todo'
    BY <1>1
  <2> QED BY <1>1, <2>4, <2>6, <2>7, PricedSteady, ItemsStay, SameListings
<1> QED
  BY <1>3, <1>4

LEMMA ClearRulesPriced ==
  ASSUME PromotionAssumption, Types, NEW w \in Workers, ClearRules(w), ~missed',
         NEW p \in Products, Priced(p)
  PROVE  Priced(p)'
<1>1. /\ now' = now /\ todo' = todo /\ promotion' = promotion /\ listing' = listing
      /\ clearing' = clearing /\ job[w].stale \cap DOMAIN job[w].picks = {}
  BY DEF ClearRules
<1>2. /\ Others(w, {}, {}) /\ job[w].at = "clear rules" /\ job'[w].at = "mark touched"
      /\ job'[w].products = job[w].products
  BY ClearRulesJob
<1>3. CASE p \in job[w].products
  <2>1. ByJob(p)'
    BY <1>2, <1>3 DEF ByJob, TouchKinds
  <2> QED BY <2>1 DEF Priced
<1>4. CASE p \notin job[w].products
  <2>1. \A r \in Rules : /\ SameRule(r)
                         /\ rule'[r].dirty = (r \notin DOMAIN job[w].picks /\ rule[r].dirty)
    BY ClearRulesEffect
  <2>2. \A r \in Rules : Active(r)' <=> Active(r)
    BY <1>1, <2>1 DEF Active, SameRule
  <2>3. Applicable(p)' = Applicable(p)
    BY <2>1, <2>2 DEF Applicable, SameRule
  <2>4. \A r \in Applicable(p) : rule'[r].reward = rule[r].reward
    BY <2>1 DEF Applicable, SameRule
  <2>5. SteadyHas(p) /\ SteadyCalc(p) /\ SteadyListing(p)
    BY <1>1, <2>1, <2>3, <2>4, SameListings DEF SteadyCalc, SteadyHas, SameRule
  <2>6. SteadyJob(w, p)
    BY <1>2 DEF SteadyJob, SteadyTouch, SteadyWrite, SteadyClear, SteadySeen, SteadyReach,
                Picked, TouchKinds, RuleKinds
  <2>7. \A v \in Workers : SteadyJob(v, p)
    <3>1. \A v \in Workers \ {w} : \A q : SteadyJob(v, q)
      BY <1>2, OthersKeep DEF Types
    <3> QED BY <2>6, <3>1
  <2>8. ASSUME NEW r \in Applicable(p), Reaches(r, p)
        PROVE  Reaches(r, p)'
    <3>1. r \in Rules
      BY DEF Applicable
    <3>2. ToMark(r) => ToMark(r)'
      BY <1>1, ItemsStay
    <3>3. CASE ToMark(r)
      BY <3>2, <3>3 DEF Reaches
    <3>4. CASE ~ToMark(r)
      <4>1. r \notin DOMAIN job[w].picks
        BY <1>1, <1>2, <1>4, <2>8, <3>4 DEF Reaches, Picked, RuleKinds
      <4>2. rule[r].dirty => rule'[r].dirty
        BY <2>1, <3>1, <4>1
      <4>3. \A v \in Workers : SteadyReach(v, r, p)
        BY <2>7 DEF SteadyJob
      <4> QED BY <2>8, <3>2, <4>2, <4>3, KeepReach
    <3> QED BY <3>3, <3>4
  <2>9. ByItem(p) => ByItem(p)'
    BY <1>1, ItemsStay
  <2> QED BY <1>1, <2>5, <2>7, <2>8, <2>9, PricedStays
<1> QED
  BY <1>3, <1>4

LEMMA MarkTouchedPriced ==
  ASSUME PromotionAssumption, Types, NEW w \in Workers, MarkTouched(w),
         NEW p \in Products, Priced(p)
  PROVE  Priced(p)'
<1> DEFINE marked == job[w].products
<1>1. /\ now' = now /\ todo' = todo /\ promotion' = promotion /\ rule' = rule
      /\ clearing' = clearing /\ MarkProducts(marked)
  BY DEF MarkTouched, MarkProducts
<1>2. /\ Others(w, PriceKinds, marked) /\ job'[w] = Idle
      /\ job[w].at = "mark touched" /\ marked \in SUBSET Products
  BY MarkTouchedJob
<1> HIDE DEF marked
<1>3. job'[w].at = "idle"
  BY <1>2, StageOf
<1>4. \A v \in Workers \ {w} : \A q : SteadyJob(v, q)
  BY <1>2, OthersKeep DEF Types
<1>5. CASE p \in marked
  <2>1. Done(p)'
    <3>1. \A v \in Workers \ {w} :
            Grown(job[v], job'[v], IF job[v].at \in PriceKinds THEN marked ELSE {})
      BY <1>2 DEF Others
    <3>2. \A v \in Workers \ (Workers \ {w}) : job'[v].at \notin PriceKinds
      BY <1>3 DEF PriceKinds
    <3>3. Workers \ {w} \in SUBSET Workers
      OBVIOUS
    <3> QED BY <1>1, <1>2, <1>5, <3>1, <3>2, <3>3, ProductsMarked
  <2> QED BY <2>1 DEF Priced
<1>6. CASE p \notin marked
  <2>1. SteadyJob(w, p)
    BY <1>2, <1>3, <1>6 DEF SteadyJob, SteadyTouch, SteadyWrite, SteadyClear, SteadySeen,
                            SteadyReach, Picked, RuleKinds, marked
  <2>2. \A v \in Workers : SteadyJob(v, p)
    BY <1>4, <2>1
  <2>3. \A r \in Rules : SteadyRow(r, p)
    BY <1>1, SameRows
  <2>4. todo \subseteq todo'
    BY <1>1
  <2> QED BY <1>1, <1>2, <2>2, <2>3, <2>4, PricedSteady, ItemsStay, ProductsUnmarked
<1> QED
  BY <1>5, <1>6

\* Where what makes a price right is not that it is done.
LEMMA PricedUnlessDone ==
  ASSUME NEW p, Priced(p), todo \subseteq todo', rule' = rule, promotion' = promotion,
         now' = now, clearing => clearing', Applicable(p)' = Applicable(p),
         \A w \in Workers :
           /\ SteadyTouch(w, p) /\ SteadyClear(w, p) /\ SteadySeen(w)
           /\ \A r : SteadyReach(w, r, p)
           /\ job[w].at \in {"mark expired", "clear expired"} => job'[w].at = job[w].at,
         Done(p) => Done(p)'
  PROVE  Priced(p)'
<1>1. \A r \in Rules : SteadyRow(r, p)
  BY SameRows
<1>2. SteadyHas(p)
  BY <1>1, RowsKeep
<1>3. ByItem(p) => ByItem(p)'
  BY ItemsStay
<1>4. ByJob(p) => ByJob(p)'
  BY KeepJob
<1>5. ByRule(p) => ByRule(p)'
  BY KeepRule, SameReach
<1>6. Clears => Clears'
  BY DEF Clears
<1>7. ByEnd(p) => ByEnd(p)'
  BY <1>2, <1>6, KeepEnd
<1>8. ByTime(p) => ByTime(p)'
  BY <1>2, KeepTime
<1> QED
  BY <1>3, <1>4, <1>5, <1>7, <1>8 DEF Priced

\* The stages of a recalculation.
LEMMA PriceTask ==
  ASSUME NEW w, NEW p, job[w].at \in {"idle"} \cup PriceKinds,
         job'[w].at \in {"idle"} \cup PriceKinds
  PROVE  /\ SteadyTouch(w, p) /\ SteadyClear(w, p) /\ SteadySeen(w)
         /\ \A r : SteadyReach(w, r, p)
         /\ job[w].at \in {"mark expired", "clear expired"} => job'[w].at = job[w].at
BY DEF SteadyTouch, SteadyClear, SteadySeen, SteadyReach, Picked, TouchKinds, RuleKinds, PriceKinds

LEMMA SameApplicable ==
  ASSUME rule' = rule, promotion' = promotion, now' = now
  PROVE  \A p : Applicable(p)' = Applicable(p)
BY DEF Applicable, Active

LEMMA ComputePriced ==
  ASSUME PromotionAssumption, Types, NEW w \in Workers, Compute(w),
         NEW p \in Products, Priced(p)
  PROVE  Priced(p)'
<1>1. /\ now' = now /\ todo' = todo /\ promotion' = promotion /\ rule' = rule
      /\ clearing' = clearing
  BY DEF Compute
<1>2. Others(w, {}, {}) /\ job[w] = Idle
  BY ComputeJob
<1>3. PICK winner \in [Dirty -> SUBSET Rules] :
        /\ \A q \in Dirty : winner[q] \in Winners(q)
        /\ listing' = [q \in Products |->
             IF q \in Changed
             THEN [listing[q] EXCEPT !.applied = Rest(@, winner[q])]
             ELSE listing[q]]
        /\ ComputedJob(w, winner)
  BY ComputeJob
<1>4. /\ listing'[p].price = listing[p].price
      /\ listing'[p].discounted = listing[p].discounted
      /\ listing'[p].dirty = listing[p].dirty
  BY <1>3, ComputeEffect
<1>5. job[w].at = "idle" /\ job'[w].at = "write"
  BY <1>2, <1>3, StageOf DEF ComputedJob
<1>6. Applicable(p)' = Applicable(p) /\ SteadyCalc(p) /\ SteadyListing(p)
  BY <1>1, <1>4, SameApplicable DEF SteadyCalc, SteadyListing
<1>7. \A v \in Workers \ {w} : SteadyJob(v, p)
  <2>1. \A v \in Workers \ {w} : \A q : SteadyJob(v, q)
    BY <1>2, OthersKeep DEF Types
  <2> QED BY <2>1
<1>8. Discount(p)' = Discount(p) /\ Calc(p)' = Calc(p)
  BY <1>6, DiscountStays
<1>9. UpToDateBy(w, p)'
  <2>1. ASSUME p \in Dirty
        PROVE  Outcome(w, p)'
    <3>1. /\ job'[w].amount[p] = Discount(p) /\ DOMAIN job'[w].found = Changed
          /\ p \in Changed => job'[w].found[p] = Calc(p)
      BY <1>3, <2>1 DEF ComputedJob, Discount
    <3>2. p \notin Changed => listing[p].discounted = Calc(p)
      BY <2>1 DEF Changed
    <3> QED BY <1>4, <1>8, <3>1, <3>2 DEF Outcome
  <2>2. DOMAIN job'[w].amount = Dirty
    BY <1>3 DEF ComputedJob
  <2> QED BY <1>5, <2>1, <2>2 DEF UpToDateBy
<1>10. Done(p) => Done(p)'
  <2>1. \A v \in Workers \ {w} : UpToDateBy(v, p) => UpToDateBy(v, p)'
    BY <1>4, <1>6, <1>7, KeepUpToDate DEF SteadyJob
  <2>2. UpToDate(p) => UpToDate(p)'
    BY <1>9, <2>1 DEF UpToDate
  <2> QED BY <1>4, <1>8, <2>2 DEF Done
<1>11. \A v \in Workers :
         /\ SteadyTouch(v, p) /\ SteadyClear(v, p) /\ SteadySeen(v)
         /\ \A r : SteadyReach(v, r, p)
         /\ job[v].at \in {"mark expired", "clear expired"} => job'[v].at = job[v].at
  BY <1>5, <1>7, PriceTask DEF SteadyJob, PriceKinds
<1> QED
  BY <1>1, <1>6, <1>10, <1>11, PricedUnlessDone

LEMMA WritePriced ==
  ASSUME PromotionAssumption, Types, NEW w \in Workers, Write(w), ~missed',
         NEW p \in Products, Priced(p)
  PROVE  Priced(p)'
<1>1. /\ now' = now /\ todo' = todo /\ promotion' = promotion /\ rule' = rule
      /\ clearing' = clearing /\ job[w].stale \cap DOMAIN job[w].amount = {}
  BY DEF Write
<1>2. /\ Others(w, {}, {}) /\ job[w].at = "write" /\ job'[w].at = "clear prices"
      /\ job'[w].products = DOMAIN job[w].amount
  BY WriteJob
<1>3. /\ listing'[p].price = listing[p].price
      /\ listing'[p].dirty = listing[p].dirty
      /\ p \notin DOMAIN job[w].amount => listing'[p].discounted = listing[p].discounted
      /\ p \in DOMAIN job[w].amount =>
           listing'[p].discounted = IF p \in DOMAIN job[w].found THEN job[w].found[p]
                                    ELSE listing[p].discounted
  BY WriteEffect
<1>4. Applicable(p)' = Applicable(p) /\ SteadyCalc(p)
  BY <1>1, <1>3, SameApplicable DEF SteadyCalc
<1>5. \A v \in Workers \ {w} : SteadyJob(v, p)
  <2>1. \A v \in Workers \ {w} : \A q : SteadyJob(v, q)
    BY <1>2, OthersKeep DEF Types
  <2> QED BY <2>1
<1>6. Discount(p)' = Discount(p) /\ Calc(p)' = Calc(p)
  BY <1>4, DiscountStays
<1>7. ASSUME Done(p), p \notin DOMAIN job[w].amount
      PROVE  Done(p)'
  <2>1. SteadyListing(p)
    BY <1>3, <1>7 DEF SteadyListing
  <2>2. SteadyWrite(w, p)
    BY <1>2, <1>7 DEF SteadyWrite
  <2> QED BY <1>4, <1>5, <1>7, <2>1, <2>2, KeepDone DEF SteadyJob
<1>8. ASSUME Done(p), p \in DOMAIN job[w].amount
      PROVE  Done(p)'
  <2>1. p \notin job[w].stale
    BY <1>1, <1>8
  <2>2. Outcome(w, p)
    BY <1>2, <1>8, <2>1 DEF Done, UpToDate, UpToDateBy
  <2>3. listing'[p].discounted = Calc(p)
    BY <1>3, <1>8, <2>2 DEF Outcome
  <2>4. UpToDateBy(w, p)'
    BY <1>2, <1>6, <2>3 DEF UpToDateBy
  <2>5. ASSUME NEW v \in Workers \ {w}
        PROVE  UpToDateBy(v, p)'
    <3>1. SteadyWrite(v, p) /\ UpToDateBy(v, p)
      BY <1>5, <1>8 DEF SteadyJob, Done, UpToDate
    <3>2. ASSUME job'[v].at = "write", p \in DOMAIN job'[v].amount, p \notin job'[v].stale
          PROVE  Outcome(v, p)'
      <4>1. /\ job[v].at = "write" /\ job'[v].amount = job[v].amount
            /\ job'[v].found = job[v].found /\ p \notin job[v].stale
        BY <3>1, <3>2 DEF SteadyWrite
      <4>2. Outcome(v, p)
        BY <3>1, <3>2, <4>1 DEF UpToDateBy
      <4> QED BY <1>6, <2>3, <4>1, <4>2 DEF Outcome
    <3> QED BY <1>6, <2>3, <3>2 DEF UpToDateBy
  <2>6. UpToDate(p)'
    BY <2>4, <2>5 DEF UpToDate
  <2> QED BY <1>6, <2>3, <2>6 DEF Done
<1>9. \A v \in Workers :
        /\ SteadyTouch(v, p) /\ SteadyClear(v, p) /\ SteadySeen(v)
        /\ \A r : SteadyReach(v, r, p)
        /\ job[v].at \in {"mark expired", "clear expired"} => job'[v].at = job[v].at
  BY <1>2, <1>5, PriceTask DEF SteadyJob, PriceKinds
<1> QED
  BY <1>1, <1>4, <1>7, <1>8, <1>9, PricedUnlessDone

LEMMA ClearPricesPriced ==
  ASSUME PromotionAssumption, Types, NEW w \in Workers, ClearPrices(w), ~missed',
         NEW p \in Products, Priced(p)
  PROVE  Priced(p)'
<1>1. /\ now' = now /\ todo' = todo /\ promotion' = promotion /\ rule' = rule
      /\ clearing' = clearing /\ job[w].stale \cap job[w].products = {}
  BY DEF ClearPrices
<1>2. /\ Others(w, {}, {}) /\ job[w].at = "clear prices" /\ job'[w] = Idle
  BY ClearPricesJob
<1>3. job'[w].at = "idle"
  BY <1>2, StageOf
<1>4. /\ SameListing(p)
      /\ listing'[p].dirty = (p \notin job[w].products /\ listing[p].dirty)
  BY ClearPricesEffect
<1>5. Applicable(p)' = Applicable(p) /\ SteadyCalc(p)
  BY <1>1, <1>4, SameApplicable DEF SteadyCalc, SameListing
<1>6. \A v \in Workers \ {w} : SteadyJob(v, p)
  <2>1. \A v \in Workers \ {w} : \A q : SteadyJob(v, q)
    BY <1>2, OthersKeep DEF Types
  <2> QED BY <2>1
<1>7. Discount(p)' = Discount(p) /\ Calc(p)' = Calc(p)
  BY <1>5, DiscountStays
<1>8. Done(p) => Done(p)'
  <2>1. SteadyWrite(w, p)
    BY <1>3 DEF SteadyWrite
  <2>2. UpToDate(p) => UpToDate(p)'
    BY <1>4, <1>5, <1>6, <2>1, KeepUpToDate DEF UpToDate, SteadyJob, SameListing
  <2>3. UpToDate(p) /\ p \in job[w].products => listing[p].discounted = Calc(p)
    BY <1>1, <1>2 DEF UpToDate, UpToDateBy
  <2> QED BY <1>4, <1>7, <2>2, <2>3 DEF Done, SameListing
<1>9. \A v \in Workers :
        /\ SteadyTouch(v, p) /\ SteadyClear(v, p) /\ SteadySeen(v)
        /\ \A r : SteadyReach(v, r, p)
        /\ job[v].at \in {"mark expired", "clear expired"} => job'[v].at = job[v].at
  BY <1>2, <1>3, <1>6, PriceTask DEF SteadyJob, PriceKinds
<1> QED
  BY <1>1, <1>5, <1>8, <1>9, PricedUnlessDone

LEMMA DiePriced ==
  ASSUME PromotionAssumption, Types, NEW w \in Workers, Die(w), ~missed',
         NEW p \in Products, Priced(p)
  PROVE  Priced(p)'
<1>1. /\ now' = now /\ todo' = todo /\ promotion' = promotion /\ rule' = rule
      /\ listing' = listing /\ clearing' = clearing
      /\ job[w].at \notin {"clear rules", "mark touched", "mark expired", "clear expired"}
  BY DEF Die, rows
<1>2. Others(w, {}, {}) /\ job'[w] = Idle
  BY DieJob
<1>3. job'[w].at = "idle"
  BY <1>2, StageOf
<1>4. SteadyJob(w, p)
  BY <1>1, <1>3 DEF SteadyJob, SteadyTouch, SteadyWrite, SteadyClear, SteadySeen, SteadyReach,
                    Picked, TouchKinds, RuleKinds
<1>5. \A v \in Workers : SteadyJob(v, p)
  <2>1. \A v \in Workers \ {w} : \A q : SteadyJob(v, q)
    BY <1>2, OthersKeep DEF Types
  <2> QED BY <1>4, <2>1
<1>6. \A r \in Rules : SteadyRow(r, p)
  BY <1>1, SameRows
<1> QED
  BY <1>1, <1>5, <1>6, PricedSteady, ItemsStay, SameListings

\* A rule that time ends.
LEMMA EndsInTime ==
  ASSUME PromotionAssumption, Types, Known, ClearsExpired, ~missed, Tick,
         NEW p \in Products, NEW r \in Applicable(p), ~Active(r)'
  PROVE  ByTime(p)'
<1>1. /\ now' = now + 1 /\ rule' = rule /\ promotion' = promotion /\ job' = job
  BY DEF Tick, rows
<1>2. r \in Rules /\ Active(r) /\ p \in rule[r].variants
  BY DEF Applicable
<1>3. /\ promotion[r].end \in Int /\ promotion[r].start \in Int /\ now \in Nat
      /\ promotion[r].notified \in Int /\ promotion[r].notified <= now
  BY <1>2, TimesAre
<1>4. rule[r].exists /\ promotion[r].start <= now /\ now < promotion[r].end
  BY <1>2 DEF Active
<1>5. ~(promotion[r].start <= now + 1 /\ now + 1 < promotion[r].end)
  BY <1>1, <1>4 DEF Active
<1>6. promotion[r].notified < promotion[r].end /\ promotion[r].end <= now + 1
  BY ONLY <1>3, <1>4, <1>5
<1>7. r \in Ending'
  BY <1>1, <1>2, <1>4, <1>6 DEF Ending
<1>8. ~Noticed(r)'
  <2>1. ASSUME NEW w \in Workers, job[w].at \in {"toggled", "notify"}
        PROVE  ~(promotion[r].end <= job[w].seen)
    <3>1. job[w].seen <= now
      BY <2>1 DEF Known, SeenBefore
    <3>2. job[w].seen \in Nat
      <4>1. job[w] \in ToggleJobs
        BY <2>1, JobIs DEF Types
      <4> QED BY <4>1 DEF ToggleJobs
    <3> QED BY ONLY <1>3, <1>4, <3>1, <3>2
  <2> QED BY <1>1, <2>1 DEF Noticed
<1>9. Counted(r, p)'
  <2>1. ~ \E w \in Workers : job[w].at = "clear expired" /\ r \in DOMAIN job[w].pairs
    BY <1>2, ActiveNotCleared
  <2> QED BY <1>1, <1>2, <1>4, <2>1 DEF Counted
<1> QED
  BY <1>2, <1>7, <1>8, <1>9 DEF ByTime, Open

\* A rule that time starts.
LEMMA StartsInTime ==
  ASSUME PromotionAssumption, Types, VariantsRight, ClearsExpired, ~missed, Tick,
         NEW p \in Products, NEW r \in Applicable(p)', ~Active(r)
  PROVE  ByTime(p)' \/ ByRule(p)'
<1>1. /\ now' = now + 1 /\ rule' = rule /\ promotion' = promotion /\ job' = job /\ todo' = todo
  BY DEF Tick, rows
<1>2. r \in Rules /\ Active(r)' /\ p \in rule[r].variants /\ rule[r].exists
  BY <1>1 DEF Applicable, Active
<1>3. /\ promotion[r].end \in Int /\ promotion[r].start \in Int /\ now \in Nat
      /\ promotion[r].notified \in Int /\ promotion[r].notified <= now
  BY <1>2, TimesAre
<1>4. promotion[r].start <= now + 1 /\ now + 1 < promotion[r].end
  BY <1>1, <1>2 DEF Active
<1>5. ~(promotion[r].start <= now /\ now < promotion[r].end)
  BY <1>2 DEF Active
<1>6. now < promotion[r].start /\ promotion[r].notified < promotion[r].start
      /\ ~(promotion[r].end <= now) /\ promotion[r].start > now
  BY ONLY <1>3, <1>4, <1>5
<1>7. CASE Noticing(r, {"notify"})
  <2>1. Noticing(r, {"toggled", "notify"})
    BY <1>7 DEF Noticing, NoticedBy
  <2>2. Marked(r)
    BY <1>2, <1>6, <2>1 DEF VariantsRight, SoundInTime
  <2>3. Marked(r)'
    BY <1>1, <2>2 DEF Marked, ToMark, Picked
  <2>4. Reaches(r, p)'
    BY <2>3 DEF Marked, Reaches
  <2> QED BY <2>4 DEF ByRule
<1>8. CASE ~Noticing(r, {"notify"})
  <2>1. r \in Starting'
    BY <1>1, <1>2, <1>4, <1>6 DEF Starting
  <2>2. Open(r)'
    BY <1>1, <1>2, <1>8, <2>1 DEF Open, Noticing, NoticedBy
  <2>3. \A w \in Workers : job[w].at = "clear expired" => r \notin DOMAIN job[w].pairs
    BY <1>6, ClearedEnded
  <2>4. Counted(r, p)'
    BY <1>1, <1>2, <2>3 DEF Counted
  <2> QED BY <1>2, <2>2, <2>4 DEF ByTime
<1> QED
  BY <1>7, <1>8

LEMMA TickPriced ==
  ASSUME PromotionAssumption, Types, Known, VariantsRight, ClearsExpired, ~missed, Tick,
         NEW p \in Products, Priced(p)
  PROVE  Priced(p)'
<1>1. /\ now' = now + 1 /\ rule' = rule /\ promotion' = promotion /\ job' = job
      /\ todo' = todo /\ listing' = listing /\ clearing' = clearing
  BY DEF Tick, rows
<1>2. CASE \E r \in Applicable(p) : ~Active(r)'
  BY <1>2, EndsInTime DEF Priced
<1>3. CASE \E r \in Applicable(p)' : ~Active(r)
  BY <1>3, StartsInTime DEF Priced
<1>4. CASE /\ \A r \in Applicable(p) : Active(r)'
           /\ \A r \in Applicable(p)' : Active(r)
  <2>1. Applicable(p)' = Applicable(p)
    BY <1>1, <1>4 DEF Applicable
  <2>2. SteadyCalc(p) /\ SteadyListing(p)
    BY <1>1, <2>1 DEF SteadyCalc, SteadyListing
  <2>3. \A w \in Workers : SteadyJob(w, p)
    BY <1>1, SameKeeps
  <2>4. \A r \in Applicable(p) : Reaches(r, p) => Reaches(r, p)'
    BY <1>1, <2>3, SameReach DEF SteadyJob
  <2>5. ByItem(p) => ByItem(p)'
    BY <1>1, ItemsStay
  <2>6. Priced(p)' \/ ByTime(p) \/ ByEnd(p)
    BY <2>2, <2>3, <2>4, <2>5, PricedUnlessTimed DEF SteadyJob
  <2>7. \A r \in Rules : Counted(r, p)' <=> Counted(r, p)
    BY <1>1 DEF Counted
  <2>8. \A r \in Rules : promotion[r].end <= now => promotion[r].end <= now + 1
    <3> SUFFICES ASSUME NEW r \in Rules, promotion[r].end <= now
                 PROVE  promotion[r].end <= now + 1
      OBVIOUS
    <3>1. promotion[r].end \in Int /\ now \in Nat
      BY TimesAre
    <3>2. promotion[r].end <= now
      OBVIOUS
    <3> QED BY ONLY <3>1, <3>2
  <2>9. ByEnd(p) => ByEnd(p)'
    BY <1>1, <2>7, <2>8 DEF ByEnd, Expired, Clears
  <2>10. ASSUME NEW r \in Rules, Open(r), Counted(r, p)
         PROVE  Open(r)'
    <3>1. /\ Noticing(r, {"notify"})' <=> Noticing(r, {"notify"})
          /\ Noticed(r)' <=> Noticed(r)
      BY <1>1 DEF Noticing, NoticedBy, Noticed
    <3>2. CASE r \in Ending /\ ~Noticed(r)
      <4>1. r \in Ending'
        BY <1>1, <2>8, <3>2 DEF Ending
      <4> QED BY <3>1, <3>2, <4>1 DEF Open
    <3>3. CASE Active(r) /\ r \in Starting /\ ~Noticing(r, {"notify"})
      <4>1. Active(r)'
        BY <1>4, <2>10, <3>3 DEF Applicable, Counted
      <4>2. r \in Starting'
        BY <1>1, <3>3, <4>1 DEF Starting, Active
      <4> QED BY <3>1, <3>3, <4>1, <4>2 DEF Open
    <3> QED BY <2>10, <3>2, <3>3 DEF Open
  <2> QED BY <2>6, <2>7, <2>9, <2>10 DEF Priced, ByTime
<1> QED
  BY <1>2, <1>3, <1>4

LEMMA PricesRightNext ==
  ASSUME PromotionAssumption, Types, Known, Covered, ClearsExpired, VariantsRight, PricesRight,
         [Next]_vars
  PROVE  PricesRight'
<1> SUFFICES ASSUME ~missed', ~withdrawn', NEW p \in Products
             PROVE  Priced(p)'
  BY DEF PricesRight
<1>1. ~missed /\ ~withdrawn
  BY HistoryGrows
<1>2. Priced(p)
  BY <1>1 DEF PricesRight
<1>3. CASE Request
  <2>1. \A r \in Rules, reward \in Rewards, predicate \in Predicates, dates \in Dates :
          CreatePromotion(r, predicate, reward, dates) => Priced(p)'
    BY <1>2, CreatePriced
  <2>2. \A r \in Rules, reward \in Rewards, predicate \in Predicates :
          UpdateRule(r, predicate, reward) => Priced(p)'
    BY <1>2, UpdateRulePriced
  <2>3. \A r \in Rules, dates \in Dates : UpdatePromotion(r, dates) => Priced(p)'
    BY <1>2, UpdatePromotionPriced
  <2> QED BY <1>2, <1>3, <2>1, <2>2, <2>3, OtherRequestPriced DEF Request
<1>4. CASE Tick
  BY <1>1, <1>2, <1>4, TickPriced
<1>5. CASE UNCHANGED vars
  <2>1. /\ now' = now /\ todo' = todo /\ promotion' = promotion /\ rule' = rule
        /\ listing' = listing /\ clearing' = clearing /\ job' = job
    BY <1>5 DEF vars, rows
  <2>2. \A r \in Rules : SteadyRow(r, p)
    BY <2>1, SameRows
  <2> QED BY <1>2, <2>1, <2>2, PricedSteady, SameKeeps, ItemsStay, SameListings
<1>6. ASSUME NEW item \in todo, GoOn(item) \/ Forget(item)
      PROVE  Priced(p)'
  <2>1. ~Forget(item)
    BY DEF Forget
  <2> QED BY <1>2, <1>6, <2>1, ItemPriced
<1>7. ASSUME NEW w \in Workers, Toggle(w)
      PROVE  Priced(p)'
  BY <1>2, <1>7, ReadTogglesPriced, MarkToggledPriced, NotifyPriced DEF Toggle
<1>8. ASSUME NEW w \in Workers, ClearVariants(w)
      PROVE  Priced(p)'
  BY <1>1, <1>2, <1>8, ClearReadPriced, ClearMarkPriced, ClearDeletePriced DEF ClearVariants
<1>9. ASSUME NEW w \in Workers, UpdateVariants(w)
      PROVE  Priced(p)'
  BY <1>2, <1>9, SelectPriced, RelatePriced, ClearRulesPriced, MarkTouchedPriced
  DEF UpdateVariants
<1>10. ASSUME NEW w \in Workers, Recalculate(w)
       PROVE  Priced(p)'
  BY <1>2, <1>10, ComputePriced, WritePriced, ClearPricesPriced DEF Recalculate
<1>11. ASSUME NEW w \in Workers, Die(w)
       PROVE  Priced(p)'
  BY <1>2, <1>11, DiePriced
<1> QED
  BY <1>3, <1>4, <1>5, <1>6, <1>7, <1>8, <1>9, <1>10, <1>11 DEF Next, Task, Pause

-----------------------------------------------------------------------------
(* Together.                                                               *)

PromotionInvariant == /\ Types /\ Known /\ Covered /\ ClearsExpired
                      /\ VariantsRight /\ PricesRight

LEMMA PromotionInvariantInit ==
  ASSUME PromotionAssumption, Init
  PROVE  PromotionInvariant
<1>1. Types
  BY TypesInit
<1>2. /\ \A r \in Rules : ~rule[r].exists /\ promotion[r].start = -1
      /\ \A p \in Products : /\ \A r \in Rules : listing[p].applied[r] = 0
                             /\ listing[p].price = listing[p].discounted
      /\ todo = {} /\ \A w \in Workers : job[w].at = "idle"
  BY DEF Init, Gone, NoPromotion, Idle
<1>3. Known
  <2>1. \A r \in Rules : ~Born(r)
    BY <1>2 DEF Born
  <2> QED BY <1>2, <2>1 DEF Known, BornRules, BornItems, BornJobs, SeenBefore, RowsGone,
                            Mentions, RuleKinds
<1>4. Covered /\ ClearsExpired /\ VariantsRight
  BY <1>2 DEF Covered, ClearsExpired, VariantsRight, At
<1>5. ASSUME NEW p \in Products
      PROVE  Done(p)
  <2>1. Applicable(p) = {}
    BY <1>2 DEF Applicable, Active
  <2>2. Largest(Applicable(p), listing[p].price) = 0
    <3> DEFINE n == listing[p].price
               rs == Applicable(p)
    <3>1. n \in Nat /\ rs \in SUBSET Rules /\ RulesOK
      BY <1>1, PricesAre DEF Types
    <3> HIDE DEF n, rs
    <3>2. Largest(rs, n) = 0 \/ \E r \in rs : Largest(rs, n) = Cut(r, n)
      BY <3>1, LargestIs
    <3> QED BY <2>1, <3>2 DEF n, rs
  <2>3. listing[p].discounted = Calc(p)
    BY <1>1, <1>2, <2>2, PricesAre DEF Calc
  <2> QED BY <1>2, <2>3 DEF Done, UpToDate, UpToDateBy
<1> QED
  BY <1>1, <1>3, <1>4, <1>5 DEF PromotionInvariant, PricesRight, Priced

LEMMA PromotionInvariantNext ==
  ASSUME PromotionAssumption, PromotionInvariant, [Next]_vars
  PROVE  PromotionInvariant'
BY TypesNext, KnownNext, CoveredNext, ClearsExpiredNext, VariantsRightNext, PricesRightNext
DEF PromotionInvariant, Known

\* At rest nothing but the rules makes a price.
LEMMA RightAtRest ==
  ASSUME PromotionAssumption, PromotionInvariant
  PROVE  QuietPricesRight
<1> SUFFICES ASSUME Quiet, ~missed, ~withdrawn, NEW p \in Products
             PROVE  listing[p].discounted = RightPrice(p)
  BY DEF QuietPricesRight, Undisturbed
<1>1. /\ todo = {} /\ ~clearing /\ ~listing[p].dirty /\ Starting = {} /\ Ending = {}
      /\ \A r \in Rules : ~(Active(r) /\ rule[r].dirty)
      /\ \A w \in Workers : job[w].at = "idle"
  BY DEF Quiet, Idle
<1>2. Priced(p)
  BY DEF PromotionInvariant, PricesRight
<1>3. ~ByItem(p) /\ ~ByJob(p)
  BY <1>1 DEF ByItem, ByJob, TouchKinds
<1>4. ~ByRule(p)
  BY <1>1 DEF ByRule, Applicable, Reaches, ToMark
<1>5. ~ByEnd(p) /\ ~ByTime(p)
  BY <1>1 DEF ByEnd, Clears, ByTime, Open
<1>6. listing[p].discounted = Calc(p)
  BY <1>1, <1>2, <1>3, <1>4, <1>5 DEF Priced, Done
<1>7. ASSUME NEW r \in Rules, Active(r)
      PROVE  rule[r].variants = rule[r].predicate
  <2>1. SoundInTime(r)
    BY <1>7 DEF PromotionInvariant, VariantsRight, Active
  <2>2. Sound(r) /\ ~ItemFor(r) /\ ~rule[r].dirty
    BY <1>1, <1>7, <2>1 DEF SoundInTime, ItemFor, ToMark
  <2> QED BY <2>2 DEF Sound
<1>8. Applicable(p) = {r \in Rules : Active(r) /\ p \in rule[r].predicate}
  BY <1>7 DEF Applicable
<1> QED
  BY <1>6, <1>8 DEF Calc, RightPrice

\* Whatever requests come, whoever marks and works off the marks, in whatever
\* order, the price of every product ends up that of the best active promotion
\* which selects it, unless a mark was lost as missed and withdrawn record.
THEOREM QuietPricesRightAlways == Spec => []QuietPricesRight
<1>1. Init => PromotionInvariant
  BY PromotionAssumption, PromotionInvariantInit
<1>2. PromotionInvariant /\ [Next]_vars => PromotionInvariant'
  BY PromotionAssumption, PromotionInvariantNext
<1>3. PromotionInvariant => QuietPricesRight
  BY PromotionAssumption, RightAtRest
<1> QED
  BY <1>1, <1>2, <1>3, PTL DEF Spec

-----------------------------------------------------------------------------
(* The records of discounts.  While a task has found a price that no other *)
(* task has in hand, the rows of the product are those it has seen.        *)

Writing(w, p) == job[w].at = "write" /\ p \in DOMAIN job[w].amount

SoleWriter(p) == \A v, w \in Workers : Writing(v, p) /\ Writing(w, p) => v = w

\* What a task will write is the difference of the prices, and replaces the
\* row of its winner; other rules have none where it has found a new price.
Holds(w, p) ==
  /\ \A r, s \in job[w].winner[p] : r = s
  /\ job[w].winner[p] \subseteq Rules
  /\ job[w].amount[p] \in Nat
  /\ job[w].amount[p] + (IF p \in DOMAIN job[w].found THEN job[w].found[p]
                         ELSE listing[p].discounted) = listing[p].price
  /\ p \in DOMAIN job[w].found =>
       \A r \in Rules \ job[w].winner[p] : listing[p].applied[r] = 0
  /\ \A r \in job[w].winner[p] :
       Born(r) /\ (rule[r].exists => (p \in job[w].had <=> listing[p].applied[r] > 0))

Cheaper(p) == listing[p].discounted < listing[p].price

\* No row takes off more than the price says.
Within(p) == Cheaper(p) =>
  \A r \in Rules : listing[p].applied[r] <= listing[p].price - listing[p].discounted

Kept(p) == /\ SoleWriter(p) /\ Within(p)
           /\ \A w \in Workers : Writing(w, p) => Holds(w, p)

RowsRight == \A p \in Products \ crossed : Kept(p)

LEMMA ExistsShrinks ==
  ASSUME PromotionAssumption, Types, [Next]_vars, NEW r \in Rules, Born(r), rule'[r].exists
  PROVE  rule[r].exists
<1>1. ASSUME NEW q \in Rules, NEW reward \in Rewards, NEW predicate \in Predicates,
             NEW dates \in Dates, CreatePromotion(q, predicate, reward, dates)
      PROVE  rule[r].exists
  <2>1. promotion[q].start = -1
    <3>1. promotion[q] = NoPromotion
      BY <1>1, CreatePromotionEffect
    <3> QED BY <3>1 DEF NoPromotion
  <2>2. q # r
    BY <2>1 DEF Born
  <2> QED BY <1>1, <2>2, CreatePromotionEffect
<1>2. ASSUME NEW q \in Rules, NEW dates \in Dates, UpdatePromotion(q, dates)
      PROVE  rule[r].exists
  <2>1. rule' = rule
    BY <1>2 DEF UpdatePromotion
  <2> QED BY <2>1
<1>3. ASSUME NEW v \in Workers, Notify(v)
      PROVE  rule[r].exists
  <2>1. rule' = rule
    BY <1>3 DEF Notify
  <2> QED BY <2>1
<1>4. PromotionsStay => rule[r].exists
  BY DEF PromotionsStay
<1> QED
  BY <1>1, <1>2, <1>3, <1>4, PromotionSteps

\* A task that has found prices keeps what it found until it writes.
SameWriter(w) == job'[w].at = "write" =>
  /\ job[w].at = "write" /\ job'[w].amount = job[w].amount /\ job'[w].found = job[w].found
  /\ job'[w].winner = job[w].winner /\ job'[w].had = job[w].had

LEMMA GrownWriter ==
  ASSUME JobsOK, NEW v \in Workers, NEW marked, Grown(job[v], job'[v], marked)
  PROVE  SameWriter(v)
BY GrownMeans DEF SameWriter

LEMMA OthersWrite ==
  ASSUME JobsOK, NEW w \in Workers, NEW kind, NEW marked, Others(w, kind, marked)
  PROVE  \A v \in Workers \ {w} : SameWriter(v)
<1> SUFFICES ASSUME NEW v \in Workers \ {w}
             PROVE  SameWriter(v)
  OBVIOUS
<1>1. Grown(job[v], job'[v], IF job[v].at \in kind THEN marked ELSE {})
  BY DEF Others
<1> QED
  BY <1>1, GrownWriter

LEMMA WritersStay ==
  ASSUME PromotionAssumption, Types, [Next]_vars
  PROVE  (\A v \in Workers : SameWriter(v)) \/ (\E w \in Workers : Compute(w))
<1> DEFINE Goal == (\A v \in Workers : SameWriter(v)) \/ (\E w \in Workers : Compute(w))
<1>0. JobsOK
  BY DEF Types
<1>1. ASSUME job' = job
      PROVE  Goal
  BY <1>1 DEF SameWriter
<1>2. ASSUME NEW item \in todo, GoOn(item)
      PROVE  Goal
  <2>1. PICK kind, marked : Everyone(kind, marked)
    BY <1>2, GoOnJobs
  <2>2. ASSUME NEW v \in Workers
        PROVE  SameWriter(v)
    <3>1. Grown(job[v], job'[v], IF job[v].at \in kind THEN marked ELSE {})
      BY <2>1 DEF Everyone
    <3> QED BY <1>0, <3>1, GrownWriter
  <2> QED BY <2>2
<1>3. ASSUME NEW w \in Workers, NEW kind, NEW marked, Others(w, kind, marked),
             job'[w].at # "write"
      PROVE  Goal
  <2>1. SameWriter(w)
    BY <1>3 DEF SameWriter
  <2> QED BY <1>0, <1>3, <2>1, OthersWrite
<1> HIDE DEF Goal
<1>4. ASSUME NEW w \in Workers, Toggle(w)
      PROVE  Goal
  <2>1. CASE ReadToggles(w)
    <3>1. job'[w] = [at |-> "toggled", rules |-> Starting \cup Ending, seen |-> now]
          /\ Others(w, {}, {})
      BY <2>1, ReadTogglesJob
    <3>2. job'[w].at # "write"
      BY <3>1
    <3> QED BY <1>3, <3>1, <3>2
  <2>2. CASE MarkToggled(w)
    <3>1. job'[w].at # "write" /\ Others(w, RuleKinds, job[w].rules)
      BY <2>2, MarkToggledJob
    <3> QED BY <1>3, <3>1
  <2>3. CASE Notify(w)
    <3>1. job'[w].at # "write" /\ Others(w, {}, {})
      BY <2>3, NotifyJob, StageOf
    <3> QED BY <1>3, <3>1
  <2> QED BY <1>4, <2>1, <2>2, <2>3 DEF Toggle
<1>5. ASSUME NEW w \in Workers, ClearVariants(w)
      PROVE  Goal
  <2>1. CASE ClearRead(w)
    <3>1. /\ job[w] = Idle /\ Others(w, {}, {})
          /\ job' = job \/ job'[w].at = "mark expired"
      BY <2>1, ClearReadJob
    <3>2. CASE job' = job
      BY <1>1, <3>2
    <3>3. CASE job'[w].at = "mark expired"
      <4>1. job'[w].at # "write"
        BY <3>3
      <4> QED BY <1>3, <3>1, <4>1
    <3> QED BY <3>1, <3>2, <3>3
  <2>2. CASE ClearMark(w)
    <3>1. job'[w].at # "write" /\ Others(w, PriceKinds, OfExpired(job[w].since))
      BY <2>2, ClearMarkJob
    <3> QED BY <1>3, <3>1
  <2>3. CASE ClearDelete(w)
    <3>1. job'[w].at # "write" /\ Others(w, {}, {})
      BY <2>3, ClearDeleteJob, StageOf
    <3> QED BY <1>3, <3>1
  <2> QED BY <1>5, <2>1, <2>2, <2>3 DEF ClearVariants
<1>6. ASSUME NEW w \in Workers, UpdateVariants(w)
      PROVE  Goal
  <2>1. CASE Select(w)
    <3>1. job'[w].at # "write" /\ Others(w, {}, {})
      BY <2>1, SelectJob
    <3> QED BY <1>3, <3>1
  <2>2. CASE Relate(w)
    <3>1. job'[w].at # "write" /\ Others(w, {"relate"}, DOMAIN job[w].picks)
      BY <2>2, RelateJob
    <3> QED BY <1>3, <3>1
  <2>3. CASE ClearRules(w)
    <3>1. job'[w].at # "write" /\ Others(w, {}, {})
      BY <2>3, ClearRulesJob
    <3> QED BY <1>3, <3>1
  <2>4. CASE MarkTouched(w)
    <3>1. job'[w].at # "write" /\ Others(w, PriceKinds, job[w].products)
      BY <2>4, MarkTouchedJob, StageOf
    <3> QED BY <1>3, <3>1
  <2> QED BY <1>6, <2>1, <2>2, <2>3, <2>4 DEF UpdateVariants
<1>7. ASSUME NEW w \in Workers, Recalculate(w)
      PROVE  Goal
  <2>1. CASE Compute(w)
    BY <2>1 DEF Goal
  <2>2. CASE Write(w)
    <3>1. job'[w].at # "write" /\ Others(w, {}, {})
      BY <2>2, WriteJob
    <3> QED BY <1>3, <3>1
  <2>3. CASE ClearPrices(w)
    <3>1. job'[w].at # "write" /\ Others(w, {}, {})
      BY <2>3, ClearPricesJob, StageOf
    <3> QED BY <1>3, <3>1
  <2> QED BY <1>7, <2>1, <2>2, <2>3 DEF Recalculate
<1>8. ASSUME NEW w \in Workers, Die(w)
      PROVE  Goal
  <2>1. job'[w].at # "write" /\ Others(w, {}, {})
    BY <1>8, DieJob, StageOf
  <2> QED BY <1>3, <2>1
<1>9. ASSUME Request \/ Tick \/ UNCHANGED vars \/ \E item \in todo : Forget(item)
      PROVE  Goal
  <2>1. job' = job
    BY <1>9, RequestJobs
  <2> QED BY <1>1, <2>1
<1>10. Goal
  BY <1>2, <1>4, <1>5, <1>6, <1>7, <1>8, <1>9 DEF Next, Task, Pause
<1> QED
  BY <1>10 DEF Goal

\* Four actions change prices or rows.
LEMMA ListingSteps ==
  ASSUME PromotionAssumption, Types, [Next]_vars
  PROVE  \/ \A p \in Products : SameListing(p)
         \/ \E item \in todo : Delete(item)
         \/ \E q \in Products, n \in Prices : SetPrice(q, n)
         \/ \E w \in Workers : Compute(w) \/ Write(w)
<1> DEFINE Goal == \/ \A p \in Products : SameListing(p)
                   \/ \E item \in todo : Delete(item)
                   \/ \E q \in Products, n \in Prices : SetPrice(q, n)
                   \/ \E w \in Workers : Compute(w) \/ Write(w)
<1>1. ASSUME listing' = listing
      PROVE  Goal
  BY <1>1 DEF SameListing
<1>2. ASSUME NEW marked \in SUBSET Products, MarkProducts(marked)
      PROVE  Goal
  BY <1>2, MarkProductsEffect DEF Types
<1>3. CASE Request
  <2>1. Goal \/ listing' = listing
    BY <1>3 DEF Request, CreatePromotion, UpdateRule, UpdatePromotion, DeleteRule,
                ChangeCatalogue, rows
  <2> QED BY <1>1, <2>1
<1>4. ASSUME NEW item \in todo, GoOn(item)
      PROVE  Goal
  <2>1. CASE MarkAfter(item)
    BY <1>1, <1>2, <2>1, MarkAfterEffect
  <2>2. CASE SetVariants(item)
    BY <1>1, <2>2 DEF SetVariants
  <2> QED BY <1>4, <2>1, <2>2 DEF GoOn
<1>5. ASSUME NEW w \in Workers, Task(w) \/ Die(w)
      PROVE  Goal
  <2>1. CASE ClearMark(w)
    <3>1. MarkProducts(OfExpired(job[w].since)) /\ OfExpired(job[w].since) \in SUBSET Products
      BY <2>1, OfExpiredIs DEF ClearMark, OfExpired, Types
    <3> QED BY <1>2, <3>1
  <2>2. CASE MarkTouched(w)
    <3>1. MarkProducts(job[w].products) /\ job[w].products \in SUBSET Products
      BY <2>2, MarkTouchedJob DEF MarkTouched
    <3> QED BY <1>2, <3>1
  <2>3. CASE ClearPrices(w)
    BY <2>3, ClearPricesEffect
  <2>4. CASE \/ ReadToggles(w) \/ MarkToggled(w) \/ Notify(w) \/ ClearRead(w)
             \/ ClearDelete(w) \/ Select(w) \/ Relate(w) \/ ClearRules(w) \/ Die(w)
    <3>1. listing' = listing
      BY <2>4 DEF ReadToggles, MarkToggled, MarkRules, Notify, ClearRead, ClearDelete, Select,
                  Relate, ClearRules, Die, rows
    <3> QED BY <1>1, <3>1
  <2> QED BY <1>5, <2>1, <2>2, <2>3, <2>4
          DEF Task, Toggle, ClearVariants, UpdateVariants, Recalculate
<1>6. CASE Tick \/ UNCHANGED vars \/ \E item \in todo : Forget(item)
  <2>1. listing' = listing
    BY <1>6 DEF Tick, vars, Forget, rows
  <2> QED BY <1>1, <2>1
<1> QED
  BY <1>3, <1>4, <1>5, <1>6 DEF Next, Pause

\* Rows and writers that stay as they were.
LEMMA KeptStays ==
  ASSUME PromotionAssumption, Types, [Next]_vars, NEW p \in Products, Kept(p), SameListing(p),
         BornRules, \A w \in Workers : SameWriter(w)
  PROVE  Kept(p)'
<1>1. \A w \in Workers : Writing(w, p)' => Writing(w, p)
  BY DEF Writing, SameWriter
<1>2. SoleWriter(p)'
  BY <1>1 DEF Kept, SoleWriter
<1>3. Within(p)'
  BY DEF Kept, Within, Cheaper, SameListing
<1>4. ASSUME NEW w \in Workers, Writing(w, p)'
      PROVE  Holds(w, p)'
  <2>1. Holds(w, p)
    BY <1>1, <1>4 DEF Kept
  <2>2. /\ job'[w].amount = job[w].amount /\ job'[w].found = job[w].found
        /\ job'[w].winner = job[w].winner /\ job'[w].had = job[w].had
    BY <1>4 DEF Writing, SameWriter
  <2>3. \A r \in job[w].winner[p] : r \in Rules /\ Born(r)
    BY <2>1 DEF Holds
  <2>4. \A r \in job[w].winner[p] : Born(r)' /\ (rule'[r].exists => rule[r].exists)
    BY <2>3, BornGrows, ExistsShrinks
  <2> QED BY <2>1, <2>2, <2>4 DEF Holds, SameListing
<1> QED
  BY <1>2, <1>3, <1>4 DEF Kept

LEMMA DeleteKept ==
  ASSUME PromotionAssumption, Types, [Next]_vars, NEW item \in todo, Delete(item), BornRules,
         NEW p \in Products, Kept(p)
  PROVE  Kept(p)'
<1>1. PICK q \in Rules :
        /\ item.do = "delete" /\ item.rules = {q} /\ item.products \in SUBSET Products
        /\ rule' = [rule EXCEPT ![q] = Gone(q)]
        /\ \A s \in Products :
             /\ listing'[s].price = listing[s].price
             /\ listing'[s].discounted = listing[s].discounted
             /\ listing'[s].dirty = listing[s].dirty
             /\ listing'[s].applied = [listing[s].applied EXCEPT ![q] = 0]
        /\ missed' = (missed \/ ~(rule[q].variants \subseteq item.products))
        /\ todo' = Remaining(item) \cup {Item("mark products", {}, item.products)}
        /\ UNCHANGED <<promotion, job>>
        /\ RulesOK' /\ ListingsOK' /\ TodoOK'
  BY DeleteEffect
<1>2. /\ listing'[p].price = listing[p].price /\ listing'[p].discounted = listing[p].discounted
      /\ job' = job /\ ~rule'[q].exists
  <2>1. rule'[q] = Gone(q)
    BY <1>1 DEF Types, RulesOK
  <2>2. ~rule'[q].exists
    BY <2>1 DEF Gone
  <2> QED BY <1>1, <2>2
<1>3. listing[p].applied \in [Rules -> Nat] /\ listing[p].price \in Nat
      /\ listing[p].discounted \in Nat
  BY PricesAre
<1>4. \A r \in Rules : listing'[p].applied[r] = IF r = q THEN 0 ELSE listing[p].applied[r]
  BY <1>1, <1>3
<1>5. SoleWriter(p)'
  BY <1>2 DEF Kept, SoleWriter, Writing
<1>6. Within(p)'
  <2> SUFFICES ASSUME Cheaper(p)', NEW r \in Rules
               PROVE  listing'[p].applied[r] <= listing'[p].price - listing'[p].discounted
    BY DEF Within
  <2>1. Cheaper(p)
    BY <1>2 DEF Cheaper
  <2>2. listing[p].applied[r] <= listing[p].price - listing[p].discounted
    BY <2>1 DEF Kept, Within
  <2>3. listing'[p].applied[r] \in {0, listing[p].applied[r]}
    BY <1>4
  <2>4. listing[p].discounted < listing[p].price
    BY <2>1 DEF Cheaper
  <2>5. \A y \in {0, listing[p].applied[r]} : y <= listing[p].price - listing[p].discounted
    BY <1>3, <2>2, <2>4
  <2> QED BY <1>2, <2>3, <2>5
<1>7. ASSUME NEW w \in Workers, Writing(w, p)'
      PROVE  Holds(w, p)'
  <2>1. Holds(w, p)
    BY <1>2, <1>7 DEF Kept, Writing
  <2>2. \A r \in job[w].winner[p] : r \in Rules /\ Born(r)
    BY <2>1 DEF Holds
  <2>3. \A r \in job[w].winner[p] : Born(r)' /\ (rule'[r].exists => rule[r].exists)
    BY <2>2, BornGrows, ExistsShrinks
  <2>4. \A r \in Rules : rule'[r].exists => listing'[p].applied[r] = listing[p].applied[r]
    BY <1>2, <1>4
  <2>5. \A r \in Rules : listing[p].applied[r] = 0 => listing'[p].applied[r] = 0
    BY <1>4
  <2>6. \A r \in job[w].winner[p] :
          Born(r)' /\ (rule'[r].exists => (p \in job[w].had <=> listing'[p].applied[r] > 0))
    BY <2>1, <2>2, <2>3, <2>4 DEF Holds
  <2>7. p \in DOMAIN job[w].found =>
          \A r \in Rules \ job[w].winner[p] : listing'[p].applied[r] = 0
    BY <2>1, <2>5 DEF Holds
  <2> QED BY <1>2, <2>1, <2>6, <2>7 DEF Holds
<1> QED
  BY <1>5, <1>6, <1>7 DEF Kept

LEMMA SetPriceKept ==
  ASSUME PromotionAssumption, Types, [Next]_vars, NEW q \in Products, NEW n \in Prices,
         SetPrice(q, n), BornRules, NEW p \in Products \ crossed', Kept(p)
  PROVE  Kept(p)'
<1>1. /\ job' = job /\ crossed' = crossed \cup ({q} \cap InHand({"write"}))
  BY DEF SetPrice, Later
<1>2. \A w \in Workers : SameWriter(w)
  BY <1>1 DEF SameWriter
<1>3. CASE p # q
  <2>1. SameListing(p)
    BY <1>3, SetPriceEffect DEF SameListing
  <2> QED BY <1>2, <2>1, KeptStays
<1>4. CASE p = q
  <2>1. \A w \in Workers : ~Writing(w, p)
    <3>1. p \notin InHand({"write"})
      BY <1>1, <1>4
    <3> QED BY <3>1 DEF InHand, Writing
  <2>2. \A w \in Workers : ~Writing(w, p)'
    BY <1>1, <2>1 DEF Writing
  <2>3. ~Cheaper(p)'
    <3>1. listing'[p].price = n /\ listing'[p].discounted = n /\ n \in Nat
      BY <1>4, SetPriceEffect DEF PromotionAssumption
    <3> QED BY <3>1 DEF Cheaper
  <2> QED BY <2>2, <2>3 DEF Kept, SoleWriter, Within
<1> QED
  BY <1>3, <1>4

LEMMA ComputeKept ==
  ASSUME PromotionAssumption, Types, [Next]_vars, NEW w \in Workers, Compute(w), BornRules,
         NEW p \in Products \ crossed', Kept(p)
  PROVE  Kept(p)'
<1>1. /\ rule' = rule /\ promotion' = promotion
      /\ crossed' = crossed \cup (Dirty \cap InHand({"write", "clear prices"}))
  BY DEF Compute, Dirty
<1>2. Others(w, {}, {}) /\ job[w] = Idle
  BY ComputeJob
<1>3. PICK winner \in [Dirty -> SUBSET Rules] :
        /\ \A s \in Dirty : winner[s] \in Winners(s)
        /\ listing' = [s \in Products |->
             IF s \in Changed
             THEN [listing[s] EXCEPT !.applied = Rest(@, winner[s])]
             ELSE listing[s]]
        /\ ComputedJob(w, winner)
  BY ComputeJob
<1>4. /\ listing'[p].price = listing[p].price
      /\ listing'[p].discounted = listing[p].discounted
      /\ \A r \in Rules :
           listing'[p].applied[r] = IF p \notin Changed \/ r \in winner[p]
                                    THEN listing[p].applied[r] ELSE 0
  BY <1>3, ComputeEffect
<1>5. /\ listing[p].applied \in [Rules -> Nat] /\ listing[p].price \in Nat
      /\ listing[p].discounted \in Nat
      /\ Calc(p) \in Nat /\ Largest(Applicable(p), listing[p].price) \in Nat
      /\ Calc(p) + Largest(Applicable(p), listing[p].price) = listing[p].price
  BY PricesAre
<1>6. \A v \in Workers \ {w} : SameWriter(v)
  BY <1>2, OthersWrite DEF Types
<1>7. ~Writing(w, p)
  BY <1>2, StageOf DEF Writing
<1>8. Within(p)'
  <2> SUFFICES ASSUME Cheaper(p)', NEW r \in Rules
               PROVE  listing'[p].applied[r] <= listing'[p].price - listing'[p].discounted
    BY DEF Within
  <2>1. Cheaper(p)
    BY <1>4 DEF Cheaper
  <2>2. listing[p].applied[r] <= listing[p].price - listing[p].discounted
    BY <2>1 DEF Kept, Within
  <2>3. listing'[p].applied[r] \in {0, listing[p].applied[r]}
    BY <1>4
  <2>4. listing[p].discounted < listing[p].price
    BY <2>1 DEF Cheaper
  <2>5. \A y \in {0, listing[p].applied[r]} : y <= listing[p].price - listing[p].discounted
    BY <1>5, <2>2, <2>4
  <2> QED BY <1>4, <2>3, <2>5
<1>9. CASE p \in Dirty
  <2>1. \A v \in Workers : ~Writing(v, p)
    <3>1. p \notin InHand({"write", "clear prices"})
      BY <1>1, <1>9
    <3> QED BY <3>1 DEF InHand, Writing
  <2>2. \A v \in Workers \ {w} : ~Writing(v, p)'
    BY <1>6, <2>1 DEF Writing, SameWriter
  <2>3. SoleWriter(p)'
    BY <2>2 DEF SoleWriter
  <2>4. Holds(w, p)'
    <3>1. /\ winner[p] \in SUBSET Applicable(p) /\ \A r, s \in winner[p] : r = s
      BY <1>3, <1>9, WinnersAre
    <3>2. /\ job'[w].winner = winner /\ DOMAIN job'[w].found = Changed
          /\ job'[w].amount[p] = Largest(Applicable(p), listing[p].price)
          /\ p \in job'[w].had <=> \E r \in winner[p] : listing[p].applied[r] > 0
          /\ p \in Changed => job'[w].found[p] = Calc(p)
      BY <1>3, <1>9 DEF ComputedJob
    <3>3. \A r \in winner[p] : r \in Rules /\ rule[r].exists /\ Born(r)'
      BY <1>1, <3>1 DEF Applicable, Active, BornRules, Born
    <3>4. \A r \in winner[p] : listing'[p].applied[r] = listing[p].applied[r]
      BY <1>4, <3>3
    <3>5. \A r \in winner[p] : p \in job'[w].had <=> listing'[p].applied[r] > 0
      BY <3>1, <3>2, <3>4
    <3>6. p \notin Changed => listing[p].discounted = Calc(p)
      BY <1>9 DEF Changed
    <3>7. job'[w].amount[p] + (IF p \in Changed THEN job'[w].found[p]
                               ELSE listing'[p].discounted) = listing'[p].price
      <4>1. (IF p \in Changed THEN job'[w].found[p] ELSE listing'[p].discounted) = Calc(p)
        BY <1>4, <3>2, <3>6
      <4>2. job'[w].amount[p] + Calc(p) = listing[p].price
        BY <1>5, <3>2
      <4> QED BY <1>4, <4>1, <4>2
    <3>8. p \in Changed => \A r \in Rules \ winner[p] : listing'[p].applied[r] = 0
      BY <1>4
    <3>9. job'[w].amount[p] \in Nat
      BY <1>5, <3>2
    <3> QED BY <3>1, <3>2, <3>3, <3>5, <3>7, <3>8, <3>9 DEF Holds
  <2> QED BY <1>8, <2>2, <2>3, <2>4 DEF Kept
<1>10. CASE p \notin Dirty
  <2>1. ~Writing(w, p)'
    BY <1>3, <1>10 DEF ComputedJob, Writing
  <2>2. \A v \in Workers : Writing(v, p)' => Writing(v, p) /\ SameWriter(v)
    BY <1>6, <2>1 DEF Writing, SameWriter
  <2>3. SoleWriter(p)'
    BY <2>2 DEF Kept, SoleWriter
  <2>4. listing'[p] = listing[p]
    BY <1>3, <1>10 DEF Changed
  <2>5. ASSUME NEW v \in Workers, Writing(v, p)'
        PROVE  Holds(v, p)'
    <3>1. Holds(v, p)
      BY <2>2, <2>5 DEF Kept
    <3>2. /\ job'[v].amount = job[v].amount /\ job'[v].found = job[v].found
          /\ job'[v].winner = job[v].winner /\ job'[v].had = job[v].had
      BY <2>2, <2>5 DEF Writing, SameWriter
    <3> QED BY <1>1, <2>4, <3>1, <3>2 DEF Holds, Born
  <2> QED BY <1>8, <2>3, <2>5 DEF Kept
<1> QED
  BY <1>9, <1>10

LEMMA WriteKept ==
  ASSUME PromotionAssumption, Types, Known, [Next]_vars, NEW w \in Workers, Write(w),
         NEW p \in Products, Kept(p)
  PROVE  Kept(p)'
<1>1. /\ Others(w, {}, {}) /\ job[w].at = "write" /\ job'[w].at = "clear prices"
  BY WriteJob
<1>2. /\ listing'[p].price = listing[p].price
      /\ p \notin DOMAIN job[w].amount => /\ listing'[p].discounted = listing[p].discounted
                                          /\ listing'[p].applied = listing[p].applied
      /\ p \in DOMAIN job[w].amount =>
           /\ listing'[p].discounted = IF p \in DOMAIN job[w].found THEN job[w].found[p]
                                       ELSE listing[p].discounted
           /\ \A r \in Rules : listing'[p].applied[r] = Written(job[w], p, r)
  BY WriteEffect
<1>3. \A v \in Workers : SameWriter(v)
  <2>1. SameWriter(w)
    BY <1>1 DEF SameWriter
  <2> QED BY <1>1, <2>1, OthersWrite DEF Types
<1>4. CASE p \notin DOMAIN job[w].amount
  <2>1. SameListing(p)
    BY <1>2, <1>4 DEF SameListing
  <2> QED BY <1>3, <2>1, KeptStays DEF Known
<1>5. CASE p \in DOMAIN job[w].amount
  <2>1. Writing(w, p) /\ Holds(w, p)
    BY <1>1, <1>5 DEF Writing, Kept
  <2>2. \A v \in Workers : ~Writing(v, p)'
    <3> SUFFICES ASSUME NEW v \in Workers, Writing(v, p)'
                 PROVE  FALSE
      OBVIOUS
    <3>1. Writing(v, p)
      BY <1>3 DEF Writing, SameWriter
    <3>2. v = w
      BY <2>1, <3>1 DEF Kept, SoleWriter
    <3> QED BY <1>1, <3>2 DEF Writing
  <2>3. SoleWriter(p)'
    BY <2>2 DEF SoleWriter
  <2>4. Within(p)'
    <3> SUFFICES ASSUME Cheaper(p)', NEW r \in Rules
                 PROVE  listing'[p].applied[r] <= listing'[p].price - listing'[p].discounted
      BY DEF Within
    <3> DEFINE a == job[w].amount[p]
               d == listing'[p].discounted
    <3>1. a \in Nat /\ a + d = listing[p].price
      BY <1>2, <1>5, <2>1 DEF Holds
    <3>2. listing[p].price \in Nat /\ d \in Nat /\ listing[p].applied \in [Rules -> Nat]
      <4>1. d \in Nat
        BY WriteEffect, PricesAre DEF ListingsOK, ListingRows
      <4> QED BY <4>1, PricesAre
    <3>3. listing'[p].applied[r] = Written(job[w], p, r)
      BY <1>2, <1>5
    <3>4. CASE listing'[p].applied[r] = a
      <4> HIDE DEF a, d
      <4>1. a = listing[p].price - d
        BY <3>1, <3>2
      <4>2. a <= listing[p].price - d
        BY <3>1, <4>1
      <4> QED BY <1>2, <3>4, <4>2 DEF d
    <3>5. CASE listing'[p].applied[r] = 0
      <4> HIDE DEF a, d
      <4>1. 0 <= listing[p].price - d
        BY <3>1, <3>2
      <4> QED BY <1>2, <3>5, <4>1 DEF d
    <3>6. CASE listing'[p].applied[r] # a /\ listing'[p].applied[r] # 0
      <4>1. listing'[p].applied[r] = listing[p].applied[r]
        BY <3>3, <3>6 DEF Written
      <4>2. rule[r].exists
        BY <3>6, <4>1 DEF Known, RowsGone
      <4>3. r \notin job[w].winner[p]
        BY <2>1, <3>3, <3>6, <4>2 DEF Written, Holds
      <4>4. p \notin DOMAIN job[w].found
        BY <2>1, <3>6, <4>1, <4>3 DEF Holds
      <4>5. d = listing[p].discounted
        BY <1>2, <1>5, <4>4
      <4>6. Cheaper(p)
        BY <1>2, <4>5 DEF Cheaper
      <4>7. listing[p].applied[r] <= listing[p].price - listing[p].discounted
        BY <4>6 DEF Kept, Within
      <4> QED BY <1>2, <4>1, <4>5, <4>7
    <3> QED BY <3>4, <3>5, <3>6
  <2> QED BY <2>2, <2>3, <2>4 DEF Kept
<1> QED
  BY <1>4, <1>5

LEMMA RowsRightNext ==
  ASSUME PromotionAssumption, Types, Known, RowsRight, [Next]_vars
  PROVE  RowsRight'
<1> SUFFICES ASSUME NEW p \in Products \ crossed'
             PROVE  Kept(p)'
  BY DEF RowsRight
<1>1. Kept(p)
  BY HistoryGrows DEF RowsRight
<1>2. ASSUME NEW item \in todo, Delete(item)
      PROVE  Kept(p)'
  BY <1>1, <1>2, DeleteKept DEF Known
<1>3. ASSUME NEW q \in Products, NEW n \in Prices, SetPrice(q, n)
      PROVE  Kept(p)'
  BY <1>1, <1>3, SetPriceKept DEF Known
<1>4. ASSUME NEW w \in Workers, Compute(w)
      PROVE  Kept(p)'
  BY <1>1, <1>4, ComputeKept DEF Known
<1>5. ASSUME NEW w \in Workers, Write(w)
      PROVE  Kept(p)'
  BY <1>1, <1>5, WriteKept
<1>6. ASSUME \A q \in Products : SameListing(q), \A w \in Workers : SameWriter(w)
      PROVE  Kept(p)'
  BY <1>1, <1>6, KeptStays DEF Known
<1> QED
  BY <1>2, <1>3, <1>4, <1>5, <1>6, ListingSteps, WritersStay

-----------------------------------------------------------------------------
(* A discounted price has its discount on record, or will have.            *)

Recorded(p) == Cheaper(p) =>
  \E r \in Rules : /\ Counted(r, p)
                   /\ listing[p].applied[r] = listing[p].price - listing[p].discounted

WillRecordBy(w, p) ==
  /\ job[w].at = "write" /\ p \in DOMAIN job[w].amount =>
       \/ p \in job[w].stale \/ job[w].amount[p] = 0
       \/ \E r \in Rules : r \in job[w].winner[p] /\ Counted(r, p)
  /\ job[w].at = "clear prices" /\ p \in job[w].products => p \in job[w].stale \/ Recorded(p)

WillRecord(p) == \A w \in Workers : WillRecordBy(w, p)

Entered(p) == WillRecord(p) /\ (listing[p].dirty \/ Recorded(p))

Logged(p) == ByItem(p) \/ ByJob(p) \/ Entered(p)

RecordsRight == ~missed => \A p \in Products \ crossed : Logged(p)

SteadyRecord(p) ==
  /\ listing'[p].price = listing[p].price /\ listing'[p].discounted = listing[p].discounted
  /\ \A r \in Rules : Counted(r, p) =>
       Counted(r, p)' /\ listing'[p].applied[r] = listing[p].applied[r]

LEMMA RecordedStays ==
  ASSUME NEW p, SteadyRecord(p), Recorded(p)
  PROVE  Recorded(p)'
BY DEF SteadyRecord, Recorded, Cheaper

LEMMA WillRecordStays ==
  ASSUME NEW p, NEW w \in Workers, SteadyRecord(p), SteadyWrite(w, p), WillRecordBy(w, p)
  PROVE  WillRecordBy(w, p)'
<1>1. Recorded(p) => Recorded(p)'
  BY RecordedStays
<1>2. \A r \in Rules : Counted(r, p) => Counted(r, p)'
  BY DEF SteadyRecord
<1> QED
  BY <1>1, <1>2 DEF WillRecordBy, SteadyWrite

LEMMA LoggedStays ==
  ASSUME NEW p, Logged(p), ByItem(p) => ByItem(p)', SteadyRecord(p),
         listing[p].dirty => listing'[p].dirty,
         \A w \in Workers : SteadyTouch(w, p) /\ SteadyWrite(w, p)
  PROVE  Logged(p)'
<1>1. ByJob(p) => ByJob(p)'
  BY KeepJob
<1>2. WillRecord(p) => WillRecord(p)'
  BY WillRecordStays DEF WillRecord
<1>3. Recorded(p) => Recorded(p)'
  BY RecordedStays
<1> QED
  BY <1>1, <1>2, <1>3 DEF Logged, Entered

\* Rules that have the product still do, and no task takes it from them.
LEMMA CountedStays ==
  ASSUME NEW p, \A r \in Rules : Has(r, p) => Has(r, p)', \A w \in Workers : SteadyClear(w, p)
  PROVE  \A r \in Rules : Counted(r, p) => Counted(r, p)'
BY DEF Counted, Has, SteadyClear

LEMMA LoggedSteady ==
  ASSUME NEW p \in Products, Logged(p), ByItem(p) => ByItem(p)',
         SameListing(p), listing[p].dirty => listing'[p].dirty,
         \A r \in Rules : Has(r, p) => Has(r, p)',
         \A w \in Workers : SteadyTouch(w, p) /\ SteadyWrite(w, p) /\ SteadyClear(w, p)
  PROVE  Logged(p)'
<1>1. \A r \in Rules : Counted(r, p) => Counted(r, p)'
  BY CountedStays
<1>2. SteadyRecord(p)
  BY <1>1 DEF SteadyRecord, SameListing
<1> QED
  BY <1>2, LoggedStays

\* The same, for a step of a task that is done with no price.
LEMMA LoggedTask ==
  ASSUME JobsOK, NEW p \in Products, Logged(p), todo' = todo, SameListing(p),
         listing[p].dirty => listing'[p].dirty,
         \A r \in Rules : Has(r, p) => Has(r, p)',
         NEW w \in Workers, NEW kind, NEW marked, Others(w, kind, marked), SteadyTouch(w, p),
         job'[w].at \notin PriceKinds \cup {"clear expired"}
  PROVE  Logged(p)'
<1>1. SteadyWrite(w, p) /\ SteadyClear(w, p)
  BY DEF SteadyWrite, SteadyClear, PriceKinds
<1>2. \A v \in Workers \ {w} : \A q : SteadyJob(v, q)
  BY OthersKeep
<1>3. \A v \in Workers : SteadyTouch(v, p) /\ SteadyWrite(v, p) /\ SteadyClear(v, p)
  BY <1>1, <1>2 DEF SteadyJob
<1>4. ByItem(p) => ByItem(p)'
  BY ItemsStay
<1> QED
  BY <1>3, <1>4, LoggedSteady

\* A product that is marked.
LEMMA MarkedLogged ==
  ASSUME NEW p, Overtook(p)'
  PROVE  Logged(p)'
<1>1. WillRecord(p)'
  BY DEF WillRecord, WillRecordBy, Overtook, PriceKinds
<1> QED
  BY <1>1 DEF Logged, Entered, Overtook

LEMMA RequestLogged ==
  ASSUME PromotionAssumption, Types, Known, Request, NEW p \in Products, Logged(p)
  PROVE  Logged(p)'
<1>1. ASSUME job' = job, listing' = listing, todo \subseteq todo',
             \A r \in Rules : Has(r, p) => Has(r, p)'
      PROVE  Logged(p)'
  <2>1. \A v \in Workers : SteadyTouch(v, p) /\ SteadyWrite(v, p) /\ SteadyClear(v, p)
    BY <1>1, SameKeeps DEF SteadyJob
  <2>2. SameListing(p) /\ (listing[p].dirty => listing'[p].dirty)
    BY <1>1 DEF SameListing
  <2>3. ByItem(p) => ByItem(p)'
    BY <1>1, ItemsStay
  <2> QED BY <1>1, <2>1, <2>2, <2>3, LoggedSteady
<1>2. ASSUME NEW q \in Rules, NEW reward \in Rewards, NEW predicate \in Predicates,
             NEW dates \in Dates, CreatePromotion(q, predicate, reward, dates)
      PROVE  Logged(p)'
  <2>1. /\ job' = job /\ todo' = todo /\ listing' = listing
        /\ promotion[q] = NoPromotion
        /\ \A s \in Rules \ {q} : rule'[s] = rule[s]
    BY <1>2, CreatePromotionEffect DEF CreatePromotion
  <2>2. promotion[q].start = -1
    BY <2>1 DEF NoPromotion
  <2>3. ~rule[q].exists
    <3>1. ~Born(q)
      BY <2>2 DEF Born
    <3> QED BY <3>1 DEF Known, BornRules
  <2>4. \A r \in Rules : Has(r, p) => Has(r, p)'
    BY <2>1, <2>3 DEF Has
  <2> QED BY <1>1, <2>1, <2>4
<1>3. ASSUME NEW q \in Rules, NEW reward \in Rewards, NEW predicate \in Predicates,
             UpdateRule(q, predicate, reward)
      PROVE  Logged(p)'
  <2>1. /\ job' = job /\ todo \subseteq todo' /\ listing' = listing
    BY <1>3 DEF UpdateRule, Later
  <2>2. /\ rule'[q].exists /\ rule'[q].variants = rule[q].variants
        /\ \A s \in Rules \ {q} : rule'[s] = rule[s]
    BY <1>3, UpdateRuleEffect
  <2>3. \A r \in Rules : Has(r, p) => Has(r, p)'
    BY <2>2 DEF Has
  <2> QED BY <1>1, <2>1, <2>3
<1>4. ASSUME \/ \E q \in Rules, dates \in Dates : UpdatePromotion(q, dates)
             \/ \E q \in Rules : DeleteRule(q)
      PROVE  Logged(p)'
  <2>1. job' = job /\ todo \subseteq todo' /\ listing' = listing /\ rule' = rule
    BY <1>4 DEF UpdatePromotion, DeleteRule, Later, rows
  <2> QED BY <1>1, <2>1 DEF Has
<1>5. ASSUME NEW q \in Rules, NEW s \in Products, ChangeCatalogue(q, s)
      PROVE  Logged(p)'
  <2>1. job' = job /\ todo \subseteq todo' /\ listing' = listing
    BY <1>5 DEF ChangeCatalogue, Later
  <2>2. \A r \in Rules : Has(r, p) => Has(r, p)'
    BY <1>5, ChangeCatalogueEffect DEF Has
  <2> QED BY <1>1, <2>1, <2>2
<1>6. ASSUME NEW q \in Products, NEW n \in Prices, SetPrice(q, n)
      PROVE  Logged(p)'
  <2>1. job' = job /\ rule' = rule /\ todo' = todo \cup {Item("mark products", {}, {q})}
    BY <1>6 DEF SetPrice, Later
  <2>2. CASE p = q
    <3>1. Item("mark products", {}, {q}) \in todo'
      BY <2>1
    <3>2. \E item \in todo' : item.do = "mark products" /\ item.products = {q}
      BY ONLY <3>1 DEF Item
    <3>3. ByItem(p)'
      BY <2>2, <3>2 DEF ByItem
    <3> QED BY <3>3 DEF Logged
  <2>3. CASE p # q
    <3>1. listing'[p] = listing[p]
      BY <1>6, <2>3, SetPriceEffect
    <3>2. \A v \in Workers : SteadyTouch(v, p) /\ SteadyWrite(v, p) /\ SteadyClear(v, p)
      BY <2>1, SameKeeps DEF SteadyJob
    <3>3. todo \subseteq todo'
      BY <2>1
    <3>4. ByItem(p) => ByItem(p)'
      BY <3>3, ItemsStay
    <3>5. \A r \in Rules : Has(r, p) => Has(r, p)'
      BY <2>1 DEF Has
    <3> QED BY <3>1, <3>2, <3>4, <3>5, LoggedSteady DEF SameListing
  <2> QED BY <2>2, <2>3
<1> QED
  BY <1>2, <1>3, <1>4, <1>5, <1>6 DEF Request

LEMMA ItemLogged ==
  ASSUME PromotionAssumption, Types, ~missed', NEW item \in todo, GoOn(item),
         NEW p \in Products, Logged(p)
  PROVE  Logged(p)'
<1>0. RulesOK /\ ListingsOK /\ JobsOK
  BY DEF Types
<1>1. Remaining(item) \subseteq todo' /\ p \notin item.products => (ByItem(p) => ByItem(p)')
  BY DEF ByItem, Remaining
<1>2. ASSUME NEW products, p \in products, Item("mark products", {}, products) \in todo'
      PROVE  Logged(p)'
  <2>1. \E new \in todo' : new.do = "mark products" /\ new.products = products
    BY ONLY <1>2 DEF Item
  <2>2. ByItem(p)'
    BY <1>2, <2>1 DEF ByItem
  <2> QED BY <2>2 DEF Logged
<1>3. CASE Delete(item)
  <2>1. PICK q \in Rules :
          /\ item.do = "delete" /\ item.rules = {q} /\ item.products \in SUBSET Products
          /\ rule' = [rule EXCEPT ![q] = Gone(q)]
          /\ \A s \in Products :
               /\ listing'[s].price = listing[s].price
               /\ listing'[s].discounted = listing[s].discounted
               /\ listing'[s].dirty = listing[s].dirty
               /\ listing'[s].applied = [listing[s].applied EXCEPT ![q] = 0]
          /\ missed' = (missed \/ ~(rule[q].variants \subseteq item.products))
          /\ todo' = Remaining(item) \cup {Item("mark products", {}, item.products)}
          /\ UNCHANGED <<promotion, job>>
          /\ RulesOK' /\ ListingsOK' /\ TodoOK'
    BY <1>3, DeleteEffect
  <2>2. CASE p \in item.products
    BY <1>2, <2>1, <2>2
  <2>3. CASE p \notin item.products
    <3>1. p \notin rule[q].variants
      BY <2>1, <2>3
    <3>2. \A s \in Rules : s # q => rule'[s] = rule[s]
      BY <1>0, <2>1 DEF RulesOK
    <3>3. \A w \in Workers : SteadyTouch(w, p) /\ SteadyWrite(w, p) /\ SteadyClear(w, p)
      BY <2>1, SameKeeps DEF SteadyJob
    <3>4. \A r \in Rules : Counted(r, p) => r # q /\ Counted(r, p)'
      BY <3>1, <3>2, <3>3 DEF Counted, SteadyClear
    <3>5. listing[p].applied \in [Rules -> Nat]
      BY PricesAre
    <3>6. \A r \in Rules : r # q => listing'[p].applied[r] = listing[p].applied[r]
      BY <2>1, <3>5
    <3>7. SteadyRecord(p)
      BY <2>1, <3>4, <3>6 DEF SteadyRecord
    <3>8. ByItem(p) => ByItem(p)'
      BY <1>1, <2>1, <2>3
    <3> QED BY <2>1, <3>3, <3>7, <3>8, LoggedStays
  <2> QED BY <2>2, <2>3
<1>4. CASE SetVariants(item)
  <2>1. PICK q \in Rules :
          /\ item.do = "set variants"
          /\ rule' = [rule EXCEPT ![q].variants = rule[q].predicate]
          /\ missed' = (missed \/ ~(rule[q].variants \subseteq item.products))
          /\ todo' = Remaining(item)
               \cup {Item("mark products", {}, item.products \cup rule[q].predicate)}
          /\ Everyone({"relate"}, {q}) /\ UNCHANGED <<promotion, listing>>
    BY <1>4, SetVariantsEffect
  <2>2. CASE p \in item.products \cup rule[q].predicate
    BY <1>2, <2>1, <2>2
  <2>3. CASE p \notin item.products \cup rule[q].predicate
    <3>1. p \notin rule[q].variants
      BY <2>1, <2>3
    <3>2. \A s \in Rules : s # q => rule'[s] = rule[s]
      BY <1>0, <2>1 DEF RulesOK
    <3>3. \A r \in Rules : Has(r, p) => Has(r, p)'
      BY <3>1, <3>2 DEF Has
    <3>4. \A w \in Workers : SteadyTouch(w, p) /\ SteadyWrite(w, p) /\ SteadyClear(w, p)
      BY <1>0, <2>1, EveryoneKeeps DEF SteadyJob
    <3>5. ByItem(p) => ByItem(p)'
      BY <1>1, <2>1, <2>3
    <3>6. SameListing(p) /\ (listing[p].dirty => listing'[p].dirty)
      BY <2>1 DEF SameListing
    <3> QED BY <3>3, <3>4, <3>5, <3>6, LoggedSteady
  <2> QED BY <2>2, <2>3
<1>5. CASE MarkAfter(item) /\ item.do = "mark products"
  <2>1. /\ item.products \in SUBSET Products /\ MarkProducts(item.products)
        /\ Everyone(PriceKinds, item.products) /\ rule' = rule
        /\ Remaining(item) \subseteq todo'
    BY <1>5, MarkAfterEffect
  <2>2. CASE p \in item.products
    <3>1. Overtook(p)'
      BY <2>1, <2>2, ProductsMarked DEF Everyone
    <3> QED BY <3>1, MarkedLogged
  <2>3. CASE p \notin item.products
    <3>1. \A w \in Workers : SteadyTouch(w, p) /\ SteadyWrite(w, p) /\ SteadyClear(w, p)
      BY <1>0, <2>1, EveryoneKeeps DEF SteadyJob
    <3>2. SameListing(p) /\ (listing[p].dirty => listing'[p].dirty)
      BY <1>0, <2>1, MarkProductsEffect
    <3>3. ByItem(p) => ByItem(p)'
      BY <1>1, <2>1, <2>3
    <3> QED BY <2>1, <3>1, <3>2, <3>3, LoggedSteady DEF Has
  <2> QED BY <2>2, <2>3
<1>6. CASE MarkAfter(item) /\ item.do # "mark products"
  <2>1. /\ Remaining(item) \subseteq todo' /\ item.do \in {"mark active", "mark rules"}
    BY <1>6, MarkAfterEffect
  <2>2. PICK marked \in SUBSET Rules :
          MarkRules(marked) /\ Everyone(RuleKinds, marked) /\ listing' = listing
    BY <1>6, MarkAfterEffect
  <2>3. \A r \in Rules : Has(r, p) => Has(r, p)'
    BY <1>0, <2>2, MarkRulesEffect DEF Has, SameRule
  <2>4. \A w \in Workers : SteadyTouch(w, p) /\ SteadyWrite(w, p) /\ SteadyClear(w, p)
    BY <1>0, <2>2, EveryoneKeeps DEF SteadyJob
  <2>5. ByItem(p) => ByItem(p)'
    BY <2>1 DEF ByItem, Remaining
  <2>6. SameListing(p) /\ (listing[p].dirty => listing'[p].dirty)
    BY <2>2 DEF SameListing
  <2> QED BY <2>3, <2>4, <2>5, <2>6, LoggedSteady
<1> QED
  BY <1>3, <1>4, <1>5, <1>6 DEF GoOn

LEMMA ToggleLogged ==
  ASSUME PromotionAssumption, Types, NEW w \in Workers, Toggle(w), NEW p \in Products, Logged(p)
  PROVE  Logged(p)'
<1>0. RulesOK /\ JobsOK
  BY DEF Types
<1>1. CASE ReadToggles(w)
  <2>1. todo' = todo /\ rule' = rule /\ listing' = listing
    BY <1>1 DEF ReadToggles, rows
  <2>2. /\ Others(w, {}, {}) /\ job[w] = Idle
        /\ job'[w] = [at |-> "toggled", rules |-> Starting \cup Ending, seen |-> now]
    BY <1>1, ReadTogglesJob
  <2>3. job[w].at = "idle" /\ job'[w].at = "toggled"
    BY <2>2 DEF Idle
  <2>4. SteadyTouch(w, p)
    BY <2>3 DEF SteadyTouch, TouchKinds
  <2> QED BY <1>0, <2>1, <2>2, <2>3, <2>4, LoggedTask DEF SameListing, Has, PriceKinds
<1>2. CASE MarkToggled(w)
  <2>1. todo' = todo /\ listing' = listing /\ MarkRules(job[w].rules)
    BY <1>2 DEF MarkToggled, MarkRules
  <2>2. /\ Others(w, RuleKinds, job[w].rules) /\ job[w].rules \in SUBSET Rules
        /\ job[w].at = "toggled" /\ job'[w].at = "notify"
    BY <1>2, MarkToggledJob DEF ToggleJobs
  <2>3. \A r \in Rules : Has(r, p) => Has(r, p)'
    BY <1>0, <2>1, <2>2, MarkRulesEffect DEF Has, SameRule
  <2>4. SteadyTouch(w, p)
    BY <2>2 DEF SteadyTouch, TouchKinds
  <2> QED BY <1>0, <2>1, <2>2, <2>3, <2>4, LoggedTask DEF SameListing, PriceKinds
<1>3. CASE Notify(w)
  <2>1. todo' = todo /\ rule' = rule /\ listing' = listing
    BY <1>3 DEF Notify
  <2>2. Others(w, {}, {}) /\ job[w].at = "notify" /\ job'[w].at = "idle"
    BY <1>3, NotifyJob, StageOf
  <2>3. SteadyTouch(w, p)
    BY <2>2 DEF SteadyTouch, TouchKinds
  <2> QED BY <1>0, <2>1, <2>2, <2>3, LoggedTask DEF SameListing, Has, PriceKinds
<1> QED
  BY <1>1, <1>2, <1>3 DEF Toggle

LEMMA ClearVariantsLogged ==
  ASSUME PromotionAssumption, Types, ClearsExpired, ~missed, NEW w \in Workers,
         ClearVariants(w), NEW p \in Products, Logged(p)
  PROVE  Logged(p)'
<1>0. RulesOK /\ ListingsOK /\ JobsOK
  BY DEF Types
<1>1. CASE ClearRead(w)
  <2>1. todo' = todo /\ rule' = rule /\ listing' = listing
    BY <1>1 DEF ClearRead, rows
  <2>2. /\ Others(w, {}, {}) /\ job[w] = Idle
        /\ job' = job \/ job'[w].at = "mark expired"
    BY <1>1, ClearReadJob
  <2>3. job[w].at = "idle"
    BY <2>2, StageOf
  <2>4. job'[w].at \in {"idle", "mark expired"}
    BY <2>2, <2>3
  <2>5. SteadyTouch(w, p)
    BY <2>3 DEF SteadyTouch, TouchKinds
  <2> QED BY <1>0, <2>1, <2>2, <2>4, <2>5, LoggedTask DEF SameListing, Has, PriceKinds
<1>2. CASE ClearMark(w)
  <2>1. /\ todo' = todo /\ rule' = rule /\ now' = now /\ promotion' = promotion
        /\ MarkProducts(OfExpired(job[w].since))
    BY <1>2 DEF ClearMark, MarkProducts, OfExpired
  <2>2. /\ Others(w, PriceKinds, OfExpired(job[w].since))
        /\ job[w].at = "mark expired" /\ job'[w].at = "clear expired"
        /\ job'[w].pairs = job[w].pairs /\ job'[w].since = job[w].since
    BY <1>2, ClearMarkJob
  <2>3. /\ OfExpired(job[w].since) \in SUBSET Products
        /\ \A r \in Rules : ExpiredBy(r, job[w].since) =>
           rule[r].variants \subseteq OfExpired(job[w].since)
    BY <1>0, OfExpiredIs
  <2>4. CASE p \in OfExpired(job[w].since)
    <3>1. \A v \in Workers \ {w} :
            Grown(job[v], job'[v], IF job[v].at \in PriceKinds THEN OfExpired(job[w].since) ELSE {})
      BY <2>2 DEF Others
    <3>2. \A v \in Workers \ (Workers \ {w}) : job'[v].at \notin PriceKinds
      BY <2>2 DEF PriceKinds
    <3>3. Workers \ {w} \in SUBSET Workers
      OBVIOUS
    <3>4. Overtook(p)'
      BY <2>1, <2>3, <2>4, <3>1, <3>2, <3>3, ProductsMarked
    <3> QED BY <3>4, MarkedLogged
  <2>5. CASE p \notin OfExpired(job[w].since)
    <3>1. SteadyTouch(w, p) /\ SteadyWrite(w, p)
      BY <2>2 DEF SteadyTouch, SteadyWrite, TouchKinds
    <3>2. \A v \in Workers \ {w} : \A q : SteadyJob(v, q)
      BY <1>0, <2>2, OthersKeep
    <3>3. \A v \in Workers : SteadyTouch(v, p) /\ SteadyWrite(v, p)
      BY <3>1, <3>2 DEF SteadyJob
    <3>4. ASSUME NEW r \in Rules, Counted(r, p)
          PROVE  Counted(r, p)'
      <4>1. ~(promotion[r].end <= job[w].since)
        BY <2>3, <2>5, <3>4 DEF Counted, ExpiredBy
      <4>2. r \notin DOMAIN job'[w].pairs
        BY <2>2, <4>1 DEF ClearsExpired
      <4>3. \A v \in Workers : ~ /\ job'[v].at = "clear expired"
                                 /\ r \in DOMAIN job'[v].pairs /\ p \in job'[v].pairs[r]
        BY <3>2, <3>4, <4>2 DEF SteadyJob, SteadyClear, Counted
      <4> QED BY <2>1, <3>4, <4>3 DEF Counted
    <3>5. SameListing(p) /\ (listing[p].dirty => listing'[p].dirty)
      BY <1>0, <2>1, <2>3, MarkProductsEffect
    <3>6. SteadyRecord(p)
      BY <3>4, <3>5 DEF SteadyRecord, SameListing
    <3>7. ByItem(p) => ByItem(p)'
      BY <2>1, ItemsStay
    <3> QED BY <3>3, <3>5, <3>6, <3>7, LoggedStays
  <2> QED BY <2>4, <2>5
<1>3. CASE ClearDelete(w)
  <2>1. todo' = todo /\ listing' = listing
    BY <1>3 DEF ClearDelete
  <2>2. Others(w, {}, {}) /\ job[w].at = "clear expired" /\ job'[w].at = "idle"
    BY <1>3, ClearDeleteJob, StageOf
  <2>3. SteadyTouch(w, p) /\ SteadyWrite(w, p) /\ SteadyClear(w, p)
    BY <2>2 DEF SteadyTouch, SteadyWrite, SteadyClear, TouchKinds
  <2>4. \A v \in Workers \ {w} : \A q : SteadyJob(v, q)
    BY <1>0, <2>2, OthersKeep
  <2>5. \A v \in Workers : SteadyTouch(v, p) /\ SteadyWrite(v, p) /\ SteadyClear(v, p)
    BY <2>3, <2>4 DEF SteadyJob
  <2>6. \A r \in Rules :
          /\ rule'[r].exists = rule[r].exists
          /\ r \notin DOMAIN job[w].pairs => rule'[r].variants = rule[r].variants
          /\ r \in DOMAIN job[w].pairs =>
               rule'[r].variants = rule[r].variants \ job[w].pairs[r]
    BY <1>3, ClearDeleteEffect
  <2>7. ASSUME NEW r \in Rules, Counted(r, p)
        PROVE  Counted(r, p)'
    <3>1. p \in rule'[r].variants /\ rule'[r].exists
      BY <2>2, <2>6, <2>7 DEF Counted
    <3>2. \A v \in Workers : ~ /\ job'[v].at = "clear expired"
                               /\ r \in DOMAIN job'[v].pairs /\ p \in job'[v].pairs[r]
      BY <2>5, <2>7 DEF SteadyClear, Counted
    <3> QED BY <3>1, <3>2 DEF Counted
  <2>8. SteadyRecord(p)
    BY <2>1, <2>7 DEF SteadyRecord
  <2>9. ByItem(p) => ByItem(p)'
    BY <2>1, ItemsStay
  <2> QED BY <2>1, <2>5, <2>8, <2>9, LoggedStays
<1> QED
  BY <1>1, <1>2, <1>3 DEF ClearVariants

LEMMA UpdateVariantsLogged ==
  ASSUME PromotionAssumption, Types, Covered, NEW w \in Workers, UpdateVariants(w), ~missed',
         NEW p \in Products, Logged(p)
  PROVE  Logged(p)'
<1>0. RulesOK /\ ListingsOK /\ JobsOK
  BY DEF Types
<1>1. CASE Select(w)
  <2>1. todo' = todo /\ rule' = rule /\ listing' = listing
    BY <1>1 DEF Select, rows
  <2>2. Others(w, {}, {}) /\ job[w].at = "idle" /\ job'[w].at = "relate"
    BY <1>1, SelectJob, StageOf
  <2>3. SteadyTouch(w, p)
    BY <2>2 DEF SteadyTouch, TouchKinds
  <2> QED BY <1>0, <2>1, <2>2, <2>3, LoggedTask DEF SameListing, Has, PriceKinds
<1>2. CASE Relate(w)
  <2>1. todo' = todo /\ listing' = listing /\ job[w].stale \cap DOMAIN job[w].picks = {}
    BY <1>2 DEF Relate
  <2>2. /\ Others(w, {"relate"}, DOMAIN job[w].picks)
        /\ job[w].at = "relate" /\ job'[w].at = "clear rules"
        /\ job'[w].picks = job[w].picks /\ job'[w].products = job[w].products
    BY <1>2, RelateJob
  <2>3. CASE p \in job[w].products
    <3>1. ByJob(p)'
      BY <2>2, <2>3 DEF ByJob, TouchKinds
    <3> QED BY <3>1 DEF Logged
  <2>4. CASE p \notin job[w].products
    <3>1. \A r \in DOMAIN job[w].picks : p \notin rule[r].variants
      BY <2>1, <2>2, <2>4 DEF Covered, At
    <3>2. \A r \in Rules :
            /\ rule'[r].exists = rule[r].exists
            /\ r \notin DOMAIN job[w].picks => rule'[r].variants = rule[r].variants
      BY <1>2, RelateEffect
    <3>3. \A r \in Rules : Has(r, p) => Has(r, p)'
      BY <3>1, <3>2 DEF Has
    <3>4. SteadyTouch(w, p)
      BY <2>2 DEF SteadyTouch, TouchKinds
    <3> QED BY <1>0, <2>1, <2>2, <3>3, <3>4, LoggedTask DEF SameListing, PriceKinds
  <2> QED BY <2>3, <2>4
<1>3. CASE ClearRules(w)
  <2>1. todo' = todo /\ listing' = listing
    BY <1>3 DEF ClearRules
  <2>2. /\ Others(w, {}, {}) /\ job[w].at = "clear rules" /\ job'[w].at = "mark touched"
        /\ job'[w].products = job[w].products
    BY <1>3, ClearRulesJob
  <2>3. \A r \in Rules : Has(r, p) => Has(r, p)'
    BY <1>3, ClearRulesEffect DEF Has, SameRule
  <2>4. SteadyTouch(w, p)
    BY <2>2 DEF SteadyTouch, TouchKinds
  <2> QED BY <1>0, <2>1, <2>2, <2>3, <2>4, LoggedTask DEF SameListing, PriceKinds
<1>4. CASE MarkTouched(w)
  <2>1. /\ todo' = todo /\ rule' = rule /\ MarkProducts(job[w].products)
    BY <1>4 DEF MarkTouched, MarkProducts
  <2>2. /\ Others(w, PriceKinds, job[w].products) /\ job'[w].at = "idle"
        /\ job[w].at = "mark touched" /\ job[w].products \in SUBSET Products
    BY <1>4, MarkTouchedJob, StageOf
  <2>3. CASE p \in job[w].products
    <3>1. \A v \in Workers \ {w} :
            Grown(job[v], job'[v], IF job[v].at \in PriceKinds THEN job[w].products ELSE {})
      BY <2>2 DEF Others
    <3>2. \A v \in Workers \ (Workers \ {w}) : job'[v].at \notin PriceKinds
      BY <2>2 DEF PriceKinds
    <3>3. Workers \ {w} \in SUBSET Workers
      OBVIOUS
    <3>4. Overtook(p)'
      BY <2>1, <2>2, <2>3, <3>1, <3>2, <3>3, ProductsMarked
    <3> QED BY <3>4, MarkedLogged
  <2>4. CASE p \notin job[w].products
    <3>1. SteadyTouch(w, p)
      BY <2>4 DEF SteadyTouch
    <3>2. SameListing(p) /\ (listing[p].dirty => listing'[p].dirty)
      BY <1>0, <2>1, <2>2, MarkProductsEffect
    <3> QED BY <1>0, <2>1, <2>2, <3>1, <3>2, LoggedTask DEF Has, PriceKinds
  <2> QED BY <2>3, <2>4
<1> QED
  BY <1>1, <1>2, <1>3, <1>4 DEF UpdateVariants

LEMMA ComputeLogged ==
  ASSUME PromotionAssumption, Types, ClearsExpired, ~missed, NEW w \in Workers, Compute(w),
         NEW p \in Products \ crossed', Logged(p)
  PROVE  Logged(p)'
<1>1. /\ rule' = rule /\ todo' = todo
      /\ crossed' = crossed \cup (Dirty \cap InHand({"write", "clear prices"}))
  BY DEF Compute, Dirty
<1>2. Others(w, {}, {}) /\ job[w] = Idle
  BY ComputeJob
<1>3. PICK winner \in [Dirty -> SUBSET Rules] :
        /\ \A s \in Dirty : winner[s] \in Winners(s)
        /\ listing' = [s \in Products |->
             IF s \in Changed
             THEN [listing[s] EXCEPT !.applied = Rest(@, winner[s])]
             ELSE listing[s]]
        /\ ComputedJob(w, winner)
  BY ComputeJob
<1>4. listing'[p].dirty = listing[p].dirty
  BY <1>3, ComputeEffect
<1>5. /\ job[w].at = "idle" /\ job'[w].at = "write" /\ DOMAIN job'[w].amount = Dirty
      /\ job'[w].winner = winner
  BY <1>2, <1>3, StageOf DEF ComputedJob
<1>6. \A v \in Workers \ {w} : SteadyJob(v, p)
  <2>1. \A v \in Workers \ {w} : \A q : SteadyJob(v, q)
    BY <1>2, OthersKeep DEF Types
  <2> QED BY <2>1
<1>7. \A v \in Workers : SteadyTouch(v, p) /\ SteadyClear(v, p)
  BY <1>5, <1>6, PriceTask DEF SteadyJob, PriceKinds
<1>8. \A r \in Rules : Counted(r, p) => Counted(r, p)'
  BY <1>1, <1>7, CountedStays DEF Has
<1>9. ByItem(p) => ByItem(p)'
  BY <1>1, ItemsStay
<1>10. ByJob(p) => ByJob(p)'
  BY <1>7, KeepJob
<1>11. CASE p \notin Dirty
  <2>1. listing'[p] = listing[p]
    BY <1>3, <1>11 DEF Changed
  <2>2. SteadyRecord(p)
    BY <1>8, <2>1 DEF SteadyRecord
  <2>3. SteadyWrite(w, p)
    BY <1>5, <1>11 DEF SteadyWrite
  <2>4. \A v \in Workers : SteadyTouch(v, p) /\ SteadyWrite(v, p)
    BY <1>6, <1>7, <2>3 DEF SteadyJob
  <2> QED BY <1>9, <2>1, <2>2, <2>4, LoggedStays
<1>12. CASE p \in Dirty
  <2>1. \A v \in Workers : /\ ~ (job[v].at = "write" /\ p \in DOMAIN job[v].amount)
                           /\ ~ (job[v].at = "clear prices" /\ p \in job[v].products)
    <3>1. p \notin InHand({"write", "clear prices"})
      BY <1>1, <1>12
    <3> QED BY <3>1 DEF InHand
  <2>2. ASSUME NEW v \in Workers \ {w}
        PROVE  WillRecordBy(v, p)'
    <3>1. SteadyWrite(v, p)
      BY <1>6 DEF SteadyJob
    <3>2. /\ ~ (job'[v].at = "write" /\ p \in DOMAIN job'[v].amount)
          /\ ~ (job'[v].at = "clear prices" /\ p \in job'[v].products)
      BY <2>1, <3>1 DEF SteadyWrite
    <3> QED BY <3>2 DEF WillRecordBy
  <2>3. WillRecordBy(w, p)'
    <3>1. job'[w].amount[p] = Largest(Applicable(p), listing[p].price)
      BY <1>3, <1>12 DEF ComputedJob
    <3>2. /\ winner[p] \in SUBSET Applicable(p)
          /\ winner[p] = {} => Largest(Applicable(p), listing[p].price) = 0
      BY <1>3, <1>12, WinnersAre
    <3>3. CASE winner[p] = {}
      <4>1. job'[w].amount[p] = 0
        BY <3>1, <3>2, <3>3
      <4> QED BY <1>5, <4>1 DEF WillRecordBy
    <3>4. CASE winner[p] # {}
      <4>1. PICK r \in winner[p] : TRUE
        BY <3>4
      <4>2. r \in Rules /\ Active(r) /\ p \in rule[r].variants
        BY <3>2 DEF Applicable
      <4>3. \A v \in Workers : job[v].at = "clear expired" => r \notin DOMAIN job[v].pairs
        BY <4>2, ActiveNotCleared
      <4>4. Counted(r, p)
        BY <4>2, <4>3 DEF Counted, Active
      <4>5. r \in job'[w].winner[p] /\ Counted(r, p)'
        BY <1>5, <1>8, <4>2, <4>4
      <4> QED BY <1>5, <4>2, <4>5 DEF WillRecordBy
    <3> QED BY <3>3, <3>4
  <2>4. WillRecord(p)'
    BY <2>2, <2>3 DEF WillRecord
  <2>5. listing'[p].dirty
    BY <1>4, <1>12 DEF Dirty
  <2> QED BY <2>4, <2>5 DEF Logged, Entered
<1> QED
  BY <1>11, <1>12

LEMMA WriteLogged ==
  ASSUME PromotionAssumption, Types, NEW w \in Workers, Write(w), ~missed',
         NEW p \in Products, Kept(p), Logged(p)
  PROVE  Logged(p)'
<1>1. /\ rule' = rule /\ todo' = todo
      /\ job[w].stale \cap DOMAIN job[w].amount = {}
  BY DEF Write
<1>2. /\ Others(w, {}, {}) /\ job[w].at = "write" /\ job'[w].at = "clear prices"
      /\ job'[w].products = DOMAIN job[w].amount
  BY WriteJob
<1>3. /\ listing'[p].price = listing[p].price /\ listing'[p].dirty = listing[p].dirty
      /\ p \notin DOMAIN job[w].amount => /\ listing'[p].discounted = listing[p].discounted
                                          /\ listing'[p].applied = listing[p].applied
      /\ p \in DOMAIN job[w].amount =>
           /\ listing'[p].discounted = IF p \in DOMAIN job[w].found THEN job[w].found[p]
                                       ELSE listing[p].discounted
           /\ \A r \in Rules : listing'[p].applied[r] = Written(job[w], p, r)
  BY WriteEffect
<1>4. \A v \in Workers \ {w} : SteadyJob(v, p)
  <2>1. \A v \in Workers \ {w} : \A q : SteadyJob(v, q)
    BY <1>2, OthersKeep DEF Types
  <2> QED BY <2>1
<1>5. \A v \in Workers : SteadyTouch(v, p) /\ SteadyClear(v, p)
  BY <1>2, <1>4, PriceTask DEF SteadyJob, PriceKinds
<1>6. \A r \in Rules : Counted(r, p) => Counted(r, p)'
  BY <1>1, <1>5, CountedStays DEF Has
<1>7. ByItem(p) => ByItem(p)'
  BY <1>1, ItemsStay
<1>8. ByJob(p) => ByJob(p)'
  BY <1>5, KeepJob
<1>9. CASE p \notin DOMAIN job[w].amount
  <2>1. SteadyRecord(p)
    BY <1>3, <1>6, <1>9 DEF SteadyRecord
  <2>2. SteadyWrite(w, p)
    BY <1>2, <1>9 DEF SteadyWrite
  <2>3. \A v \in Workers : SteadyTouch(v, p) /\ SteadyWrite(v, p)
    BY <1>4, <1>5, <2>2 DEF SteadyJob
  <2> QED BY <1>3, <1>7, <2>1, <2>3, LoggedStays
<1>10. ASSUME p \in DOMAIN job[w].amount, Entered(p)
       PROVE  Entered(p)'
  <2>1. Writing(w, p) /\ Holds(w, p) /\ p \notin job[w].stale
    BY <1>1, <1>2, <1>10 DEF Writing, Kept
  <2>2. \/ job[w].amount[p] = 0
        \/ \E r \in Rules : r \in job[w].winner[p] /\ Counted(r, p)
    BY <1>2, <1>10, <2>1 DEF Entered, WillRecord, WillRecordBy
  <2>3. /\ job[w].amount[p] \in Nat /\ listing[p].price \in Nat
        /\ listing'[p].discounted \in Nat
        /\ job[w].amount[p] + listing'[p].discounted = listing'[p].price
    <3>1. listing'[p].discounted \in Nat
      BY WriteEffect DEF ListingsOK, ListingRows
    <3> QED BY <1>3, <1>10, <2>1, <3>1, PricesAre DEF Holds
  <2>4. Recorded(p)'
    <3>1. CASE job[w].amount[p] = 0
      <4>1. listing'[p].discounted = listing'[p].price
        BY <2>3, <3>1
      <4>2. ~Cheaper(p)'
        BY <2>3, <4>1 DEF Cheaper
      <4> QED BY <4>2 DEF Recorded
    <3>2. ASSUME NEW r \in Rules, r \in job[w].winner[p], Counted(r, p)
          PROVE  Recorded(p)'
      <4>1. rule[r].exists /\ Counted(r, p)'
        BY <1>6, <3>2 DEF Counted
      <4>2. p \in job[w].had <=> listing[p].applied[r] > 0
        BY <2>1, <3>2, <4>1 DEF Holds
      <4>3. Written(job[w], p, r) = job[w].amount[p]
        BY <3>2, <4>1, <4>2 DEF Written
      <4>4. listing'[p].applied[r] = job[w].amount[p]
        BY <1>3, <1>10, <4>3
      <4>5. job[w].amount[p] = listing'[p].price - listing'[p].discounted
        BY <1>3, <2>3
      <4> QED BY <4>1, <4>4, <4>5 DEF Recorded
    <3> QED BY <2>2, <3>1, <3>2
  <2>5. ASSUME NEW v \in Workers
        PROVE  WillRecordBy(v, p)'
    <3>1. ~(job'[v].at = "write" /\ p \in DOMAIN job'[v].amount)
      <4>1. CASE v = w
        BY <1>2, <4>1
      <4>2. CASE v # w
        <5>1. ~Writing(v, p)
          BY <2>1, <4>2 DEF Kept, SoleWriter
        <5>2. SteadyWrite(v, p)
          BY <1>4, <4>2 DEF SteadyJob
        <5> QED BY <5>1, <5>2 DEF Writing, SteadyWrite
      <4> QED BY <4>1, <4>2
    <3> QED BY <2>4, <3>1 DEF WillRecordBy
  <2> QED BY <2>4, <2>5 DEF Entered, WillRecord
<1> QED
  BY <1>7, <1>8, <1>9, <1>10 DEF Logged

LEMMA ClearPricesLogged ==
  ASSUME PromotionAssumption, Types, NEW w \in Workers, ClearPrices(w), ~missed',
         NEW p \in Products, Logged(p)
  PROVE  Logged(p)'
<1>1. rule' = rule /\ todo' = todo /\ job[w].stale \cap job[w].products = {}
  BY DEF ClearPrices
<1>2. Others(w, {}, {}) /\ job[w].at = "clear prices" /\ job'[w].at = "idle"
  BY ClearPricesJob, StageOf
<1>3. /\ SameListing(p)
      /\ listing'[p].dirty = (p \notin job[w].products /\ listing[p].dirty)
  BY ClearPricesEffect
<1>4. \A v \in Workers \ {w} : SteadyJob(v, p)
  <2>1. \A v \in Workers \ {w} : \A q : SteadyJob(v, q)
    BY <1>2, OthersKeep DEF Types
  <2> QED BY <2>1
<1>5. SteadyTouch(w, p) /\ SteadyWrite(w, p) /\ SteadyClear(w, p)
  BY <1>2 DEF SteadyTouch, SteadyWrite, SteadyClear, TouchKinds
<1>6. \A v \in Workers : SteadyTouch(v, p) /\ SteadyWrite(v, p) /\ SteadyClear(v, p)
  BY <1>4, <1>5 DEF SteadyJob
<1>7. \A r \in Rules : Counted(r, p) => Counted(r, p)'
  BY <1>1, <1>6, CountedStays DEF Has
<1>8. SteadyRecord(p)
  BY <1>3, <1>7 DEF SteadyRecord, SameListing
<1>9. ByItem(p) => ByItem(p)'
  BY <1>1, ItemsStay
<1>10. ByJob(p) => ByJob(p)'
  BY <1>6, KeepJob
<1>11. Entered(p) => Entered(p)'
  <2> SUFFICES ASSUME Entered(p)
               PROVE  Entered(p)'
    OBVIOUS
  <2>1. WillRecord(p)'
    BY <1>6, <1>8, WillRecordStays DEF Entered, WillRecord
  <2>2. CASE p \in job[w].products
    <3>1. Recorded(p)
      BY <1>1, <1>2, <2>2 DEF Entered, WillRecord, WillRecordBy
    <3> QED BY <1>8, <2>1, <3>1, RecordedStays DEF Entered
  <2>3. CASE p \notin job[w].products
    <3>1. Recorded(p) => Recorded(p)'
      BY <1>8, RecordedStays
    <3> QED BY <1>3, <2>1, <2>3, <3>1 DEF Entered
  <2> QED BY <2>2, <2>3
<1> QED
  BY <1>9, <1>10, <1>11 DEF Logged

LEMMA DieLogged ==
  ASSUME PromotionAssumption, Types, NEW w \in Workers, Die(w), ~missed',
         NEW p \in Products, Logged(p)
  PROVE  Logged(p)'
<1>1. /\ rule' = rule /\ todo' = todo /\ listing' = listing
      /\ job[w].at \notin {"clear rules", "mark touched"}
  BY DEF Die, rows
<1>2. Others(w, {}, {}) /\ job'[w].at = "idle"
  BY DieJob, StageOf
<1>3. SteadyTouch(w, p)
  BY <1>1 DEF SteadyTouch, TouchKinds
<1> QED
  BY <1>1, <1>2, <1>3, LoggedTask DEF SameListing, Has, PriceKinds, Types

LEMMA RecordsRightNext ==
  ASSUME PromotionAssumption, Types, Known, Covered, ClearsExpired, RowsRight, RecordsRight,
         [Next]_vars
  PROVE  RecordsRight'
<1> SUFFICES ASSUME ~missed', NEW p \in Products \ crossed'
             PROVE  Logged(p)'
  BY DEF RecordsRight
<1>1. ~missed /\ p \in Products \ crossed
  BY HistoryGrows
<1>2. Logged(p) /\ Kept(p)
  BY <1>1 DEF RecordsRight, RowsRight
<1>3. CASE Request
  BY <1>2, <1>3, RequestLogged
<1>4. CASE Tick \/ UNCHANGED vars
  <2>1. rule' = rule /\ todo' = todo /\ listing' = listing /\ job' = job
    BY <1>4 DEF Tick, vars, rows
  <2>2. \A v \in Workers : SteadyTouch(v, p) /\ SteadyWrite(v, p) /\ SteadyClear(v, p)
    BY <2>1, SameKeeps DEF SteadyJob
  <2>3. ByItem(p) => ByItem(p)'
    BY <2>1, ItemsStay
  <2> QED BY <1>2, <2>1, <2>2, <2>3, LoggedSteady DEF SameListing, Has
<1>5. ASSUME NEW item \in todo, GoOn(item) \/ Forget(item)
      PROVE  Logged(p)'
  <2>1. ~Forget(item)
    BY DEF Forget
  <2> QED BY <1>2, <1>5, <2>1, ItemLogged
<1>6. ASSUME NEW w \in Workers, Toggle(w)
      PROVE  Logged(p)'
  BY <1>2, <1>6, ToggleLogged
<1>7. ASSUME NEW w \in Workers, ClearVariants(w)
      PROVE  Logged(p)'
  BY <1>1, <1>2, <1>7, ClearVariantsLogged
<1>8. ASSUME NEW w \in Workers, UpdateVariants(w)
      PROVE  Logged(p)'
  BY <1>2, <1>8, UpdateVariantsLogged
<1>9. ASSUME NEW w \in Workers, Recalculate(w)
      PROVE  Logged(p)'
  BY <1>1, <1>2, <1>9, ComputeLogged, WriteLogged, ClearPricesLogged DEF Recalculate
<1>10. ASSUME NEW w \in Workers, Die(w)
       PROVE  Logged(p)'
  BY <1>2, <1>10, DieLogged
<1> QED
  BY <1>3, <1>4, <1>5, <1>6, <1>7, <1>8, <1>9, <1>10 DEF Next, Task, Pause

RecordInvariant == PromotionInvariant /\ RowsRight /\ RecordsRight

LEMMA RecordInvariantInit ==
  ASSUME PromotionAssumption, Init
  PROVE  RecordInvariant
<1>1. PromotionInvariant
  BY PromotionInvariantInit
<1>2. \A w \in Workers : job[w].at = "idle"
  BY DEF Init, Idle
<1>3. ASSUME NEW p \in Products
      PROVE  ~Cheaper(p)
  <2>1. listing[p].price = listing[p].discounted
    BY DEF Init
  <2>2. listing[p].price \in Nat
    BY <1>1, PricesAre DEF PromotionInvariant
  <2> QED BY <2>1, <2>2 DEF Cheaper
<1>4. RowsRight
  BY <1>2, <1>3 DEF RowsRight, Kept, SoleWriter, Writing, Within
<1>5. RecordsRight
  BY <1>2, <1>3 DEF RecordsRight, Logged, Entered, Recorded, WillRecord, WillRecordBy
<1> QED
  BY <1>1, <1>4, <1>5 DEF RecordInvariant

LEMMA RecordInvariantNext ==
  ASSUME PromotionAssumption, RecordInvariant, [Next]_vars
  PROVE  RecordInvariant'
BY PromotionInvariantNext, RowsRightNext, RecordsRightNext DEF RecordInvariant, PromotionInvariant

\* At rest the largest row is what the price is lower by.
LEMMA RecordedAtRest ==
  ASSUME PromotionAssumption, RecordInvariant
  PROVE  DiscountOnRecord
<1> SUFFICES ASSUME Quiet, ~missed, NEW p \in Products \ crossed, Cheaper(p)
             PROVE  Max({listing[p].applied[r] : r \in Rules})
                      = listing[p].price - listing[p].discounted
  BY DEF DiscountOnRecord, Undisturbed, Cheaper
<1>1. /\ todo = {} /\ ~listing[p].dirty
      /\ \A w \in Workers : job[w].at = "idle"
  BY DEF Quiet, Idle
<1>2. Logged(p) /\ Within(p)
  BY DEF RecordInvariant, RecordsRight, RowsRight, Kept
<1>3. Recorded(p)
  BY <1>1, <1>2 DEF Logged, Entered, ByItem, ByJob, TouchKinds
<1>4. PICK r \in Rules : listing[p].applied[r] = listing[p].price - listing[p].discounted
  BY <1>3 DEF Recorded
<1>5. \A s \in Rules : listing[p].applied[s] <= listing[p].price - listing[p].discounted
  BY <1>2 DEF Within
<1>6. listing[p].applied \in [Rules -> Nat]
  BY PricesAre DEF RecordInvariant, PromotionInvariant
<1> DEFINE S == {listing[p].applied[s] : s \in Rules}
           x == listing[p].applied[r]
<1>7. S \in SUBSET Nat /\ x \in S /\ \A y \in S : y <= x
  BY <1>4, <1>5, <1>6
<1> HIDE DEF S, x
<1>8. Max(S) = x
  BY <1>7, MaxEquals
<1> QED
  BY <1>4, <1>8 DEF S, x

\* Once every mark is worked off, a price with a discount has that discount as
\* the largest on record, whichever tasks wrote it and whatever rule it was
\* before, unless one task worked on what another had in hand (crossed) or a
\* mark was lost (missed): Compute takes away the rows of other rules, Write
\* updates or creates that of the winner.
THEOREM DiscountOnRecordAlways == Spec => []DiscountOnRecord
<1>1. Init => RecordInvariant
  BY PromotionAssumption, RecordInvariantInit
<1>2. RecordInvariant /\ [Next]_vars => RecordInvariant'
  BY PromotionAssumption, RecordInvariantNext
<1>3. RecordInvariant => DiscountOnRecord
  BY PromotionAssumption, RecordedAtRest
<1> QED
  BY <1>1, <1>2, <1>3, PTL DEF Spec
=============================================================================
