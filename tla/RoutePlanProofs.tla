-------------------------- MODULE RoutePlanProofs --------------------------
(***************************************************************************)
(* Proofs about the planning of candidates.                                *)
(*                                                                         *)
(* The orders are defined by counting what ranks ahead of a model; that    *)
(* they hold every model once is the pigeonhole principle.  PlanInv adds   *)
(* to the types what each stage of a job's planning guarantees of its      *)
(* route, and counts with what the adapter remembers the jobs that may     *)
(* still add to it.                                                        *)
(***************************************************************************)
EXTENDS RoutePlan, FiniteSetTheorems, FunctionTheorems, SequenceTheorems, TLAPS

-----------------------------------------------------------------------------
(* The order of candidates. *)

\* n comes before m: less rank, or the same and the smaller id.
Before(rank, n, m) ==
  rank[n] < rank[m] \/ (rank[n] = rank[m] /\ Catalog[n].ident < Catalog[m].ident)

AheadOf(rank, m) == {n \in DOMAIN rank : Before(rank, n, m)}

\* Models are finitely many, and of two of them one comes before the other.
LEMMA BeforeIsTotal ==
  ASSUME NEW S \in SUBSET Models, NEW rank \in [S -> Int]
  PROVE  /\ IsFiniteSet(S) /\ Cardinality(S) \in Nat
         /\ \A n, m \in S : n # m => Before(rank, n, m) \/ Before(rank, m, n)
         /\ \A n, m \in S : Before(rank, n, m) => ~ Before(rank, m, n)
         /\ \A m \in S : ~ Before(rank, m, m)
         /\ \A l, n, m \in S : Before(rank, l, n) /\ Before(rank, n, m) => Before(rank, l, m)
<1>1. IsFiniteSet(S) /\ Cardinality(S) \in Nat
  BY RoutePlanAssumption, FS_Subset, FS_CardinalityType
<1>2. \A m \in S : rank[m] \in Int /\ Catalog[m].ident \in Int
  <2>1. \A m \in Models : Catalog[m].ident \in Nat
    BY RoutePlanAssumption
  <2> QED
    BY <2>1
<1>3. \A n, m \in S : n # m => Catalog[n].ident # Catalog[m].ident
  BY RoutePlanAssumption
<1> QED
  BY <1>1, <1>2, <1>3 DEF Before

\* What is ahead of m is part of S without m, and whatever comes before m has less ahead.
LEMMA AheadGrows ==
  ASSUME NEW S \in SUBSET Models, NEW rank \in [S -> Int], NEW m \in S
  PROVE  /\ Cardinality(AheadOf(rank, m)) \in 0..(Cardinality(S) - 1)
         /\ \A n \in S : Before(rank, n, m) =>
              Cardinality(AheadOf(rank, n)) < Cardinality(AheadOf(rank, m))
<1>1. IsFiniteSet(S) /\ DOMAIN rank = S /\ Cardinality(S) \in Nat
  BY BeforeIsTotal
<1>2. ASSUME NEW T \in SUBSET S, NEW U \in SUBSET T, U # T
      PROVE  /\ Cardinality(T) \in Nat /\ Cardinality(U) \in Nat
             /\ Cardinality(U) < Cardinality(T)
  <2>1. IsFiniteSet(T) /\ IsFiniteSet(U)
    BY <1>1, FS_Subset
  <2>2. Cardinality(T) \in Nat /\ Cardinality(U) \in Nat
    BY <2>1, FS_CardinalityType
  <2>3. Cardinality(U) <= Cardinality(T) /\ Cardinality(U) # Cardinality(T)
    BY <2>1, <1>2, FS_Subset
  <2> QED
    BY <2>2, <2>3
<1>3. AheadOf(rank, m) \in SUBSET S /\ AheadOf(rank, m) # S
  BY <1>1, BeforeIsTotal DEF AheadOf
<1>4. Cardinality(AheadOf(rank, m)) \in 0..(Cardinality(S) - 1)
  BY <1>1, <1>2, <1>3
<1>5. ASSUME NEW n \in S, Before(rank, n, m)
      PROVE  Cardinality(AheadOf(rank, n)) < Cardinality(AheadOf(rank, m))
  <2>1. AheadOf(rank, n) \in SUBSET AheadOf(rank, m)
    BY <1>1, <1>5, BeforeIsTotal DEF AheadOf
  <2>2. n \in AheadOf(rank, m) /\ n \notin AheadOf(rank, n)
    BY <1>1, <1>5, BeforeIsTotal DEF AheadOf
  <2> QED
    BY <1>2, <1>3, <2>1, <2>2
<1> QED
  BY <1>4, <1>5

\* InOrder returns every model of S once, each before those that rank behind it.
LEMMA InOrderSorts ==
  ASSUME NEW S \in SUBSET Models, NEW rank \in [S -> Int]
  PROVE  /\ InOrder(rank) \in Seq(S) /\ Len(InOrder(rank)) = Cardinality(S)
         /\ ToSet(InOrder(rank)) = S /\ IsInjective(InOrder(rank))
         /\ \A i, k \in DOMAIN InOrder(rank) :
              i < k => Before(rank, InOrder(rank)[i], InOrder(rank)[k])
<1> DEFINE N == Cardinality(S)
           Place(m) == Cardinality(AheadOf(rank, m)) + 1
           place == [m \in S |-> Place(m)]
           s == InOrder(rank)
<1>1. IsFiniteSet(S) /\ DOMAIN rank = S /\ N \in Nat
  BY BeforeIsTotal
<1>2. \A m \in S : Place(m) \in 1..N
  BY <1>1, AheadGrows
<1>3. \A n, m \in S : n # m => Place(n) # Place(m)
  <2> TAKE n, m \in S
  <2>1. HAVE n # m
  <2>2. Place(n) < Place(m) \/ Place(m) < Place(n)
    <3>1. CASE Before(rank, n, m)
      BY <3>1, <1>1, AheadGrows
    <3>2. CASE Before(rank, m, n)
      BY <3>2, <1>1, AheadGrows
    <3> QED
      BY <2>1, <3>1, <3>2, BeforeIsTotal
  <2> QED
    BY <2>2, <1>2
<1>4. \A k \in 1..N : \E m \in S : Place(m) = k
  <2>1. place \in Injection(S, 1..N)
    BY <1>2, <1>3 DEF Injection, IsInjective
  <2>2. IsFiniteSet(1..N) /\ Cardinality(1..N) = N
    BY <1>1, FS_Interval
  <2>3. place \in Surjection(S, 1..N)
    BY <2>1, <2>2, FS_Injection
  <2> QED
    BY <2>3 DEF Surjection
<1>5. s = [k \in 1..N |-> CHOOSE m \in S : Cardinality(AheadOf(rank, m)) = k - 1]
  BY <1>1 DEF InOrder, AheadOf, Before
<1>6. \A k \in 1..N : s[k] \in S /\ Place(s[k]) = k
  <2> TAKE k \in 1..N
  <2>1. PICK m \in S : Place(m) = k
    BY <1>4
  <2>2. Cardinality(AheadOf(rank, m)) = k - 1
    BY <2>1, AheadGrows
  <2>3. s[k] = CHOOSE n \in S : Cardinality(AheadOf(rank, n)) = k - 1
    BY <1>5
  <2>4. s[k] \in S /\ Cardinality(AheadOf(rank, s[k])) = k - 1
    BY <2>2, <2>3
  <2> QED
    BY <1>1, <2>4
<1>7. s \in Seq(S) /\ DOMAIN s = 1..N /\ Len(s) = N
  BY <1>1, <1>5, <1>6
<1>8. IsInjective(s)
  BY <1>6, <1>7 DEF IsInjective
<1>9. ToSet(s) = S
  BY <1>2, <1>3, <1>6, <1>7 DEF ToSet
<1>10. ASSUME NEW i \in DOMAIN s, NEW k \in DOMAIN s, i < k
       PROVE  Before(rank, s[i], s[k])
  <2>1. s[i] \in S /\ s[k] \in S /\ Place(s[i]) < Place(s[k])
    BY <1>6, <1>7, <1>10
  <2>2. Place(s[i]) \in Int /\ Place(s[k]) \in Int
    BY <1>2, <2>1
  <2>3. ~ Before(rank, s[k], s[i])
    BY <2>1, <2>2, AheadGrows
  <2>4. s[i] # s[k]
    BY <2>1, <2>2
  <2> QED
    BY <2>1, <2>3, <2>4, BeforeIsTotal
<1> QED
  BY <1>7, <1>8, <1>9, <1>10

-----------------------------------------------------------------------------
(* Types. *)

Quota   == Observation \cup {NoQuota}
Caps    == {r[1] : r \in ProbeResults} \cup {"unknown"}
Fitness == Fits \cup {Unknown}

SharedTypes ==
  /\ now \in 0 .. MaxTime /\ setup \in Setups
  /\ cache \in [DOMAIN Registry -> [at : Int, caps : Caps, quota : Quota]]
  /\ quotaRows \in [Models -> Seq(Observation)]
  /\ modelEvals \in [Models -> Fitness \cup {Unasked}]
  /\ evalCache \in Seq(Eval) /\ Len(evalCache) <= EvalMemory

JobTypes ==
  /\ stage \in [Planners -> {"queued", "probing", "probe", "probed", "task", "models",
                            "candidates", "ready", "done"}]
  /\ call \in [Planners -> [phase : {"none", "headers", "body"}, callTimer : BOOLEAN,
                            totalTimer : BOOLEAN]]
  /\ via \in [Planners -> {"rules", "jev"}]
  /\ next \in [Planners -> Nat]
  /\ probe \in [Planners -> [since : 0 .. MaxTime, caps : Caps, quota : Quota]]
  /\ pool \in [Planners -> Seq(Models)]
  /\ plan \in [Planners -> Seq(Models)]
  /\ launched \in [Planners -> Seq(Models)]
  /\ evidence \in [Planners -> [Models -> [fit : Fitness, known : BOOLEAN]]]

\* The types hold before any job is planned.
LEMMA InitTypes == PlanInit => SharedTypes /\ JobTypes
<1> SUFFICES ASSUME PlanInit PROVE SharedTypes /\ JobTypes
  OBVIOUS
<1>1. ProbeTtl \in Nat /\ EvalMemory \in Nat \ {0} /\ MaxTime \in Nat
  BY RoutePlanAssumption
<1>2. SharedTypes
  <2>1. now \in 0 .. MaxTime /\ setup \in Setups
    BY <1>1 DEF PlanInit
  <2>2. Never \in [at : Int, caps : Caps, quota : Quota]
    BY <1>1 DEF Never, Caps, Quota
  <2>3. evalCache \in Seq(Eval) /\ Len(evalCache) <= EvalMemory
    BY <1>1 DEF PlanInit
  <2> QED
    BY <2>1, <2>2, <2>3 DEF PlanInit, SharedTypes
<1>3. JobTypes
  <2>1. NoProbe \in [since : 0 .. MaxTime, caps : Caps, quota : Quota]
    BY <1>1 DEF NoProbe, Caps, Quota
  <2>2. NoEvidence \in [Models -> [fit : Fitness, known : BOOLEAN]]
    BY DEF NoEvidence, Fitness
  <2> QED
    BY <2>1, <2>2 DEF PlanInit, JobTypes, NoCall
<1> QED
  BY <1>2, <1>3

\* What the filter lets through are models.
LEMMA FilteredModels ==
  ASSUME NEW j \in Planners
  PROVE  Filtered(j) \in Seq(Models)
<1> DEFINE S == {m \in Models : \E i \in DOMAIN Registry : Eligible(j, i, m)}
           rank == [m \in S |-> CHOOSE i \in DOMAIN Registry : m \in Offered(i)]
<1>1. S \in SUBSET Models
  OBVIOUS
<1>2. DOMAIN Registry \subseteq Int
  <2>1. Registry \in Seq(ToSet(Registry))
    BY RoutePlanAssumption
  <2> QED
    BY <2>1
<1>3. ASSUME NEW m \in S
      PROVE  (CHOOSE i \in DOMAIN Registry : m \in Offered(i)) \in Int
  <2>1. \E i \in DOMAIN Registry : m \in Offered(i)
    BY DEF Eligible
  <2> QED
    BY <1>2, <2>1
<1>4. rank \in [S -> Int]
  BY <1>3
<1>5. InOrder(rank) \in Seq(S)
  BY <1>1, <1>4, InOrderSorts
<1>6. Filtered(j) = InOrder(rank)
  BY DEF Filtered
<1> QED
  BY <1>1, <1>5, <1>6

\* An order by a score is the models scored, each once, none before one with a better
\* score, and those with the same score by their ids: RuleBasedAdapter's and
\* rankCandidates' sort with their comparison functions.
THEOREM BestFirstSorts ==
  ASSUME NEW S \in SUBSET Models, NEW score \in [S -> Int]
  PROVE  /\ BestFirst(score) \in Seq(S)
         /\ ToSet(BestFirst(score)) = S /\ IsInjective(BestFirst(score))
         /\ \A i, k \in DOMAIN BestFirst(score) : i < k =>
              LET m == BestFirst(score)[i]
                  n == BestFirst(score)[k]
              IN  score[m] > score[n]
                    \/ (score[m] = score[n] /\ Catalog[m].ident < Catalog[n].ident)
<1> DEFINE rank == [m \in DOMAIN score |-> 0 - score[m]]
           s == BestFirst(score)
<1>1. rank \in [S -> Int] /\ \A m \in S : rank[m] = 0 - score[m]
  OBVIOUS
<1>2. s = InOrder(rank)
  BY DEF BestFirst
<1> HIDE DEF rank, s
<1>3. /\ s \in Seq(S) /\ ToSet(s) = S /\ IsInjective(s)
      /\ \A i, k \in DOMAIN s : i < k => Before(rank, s[i], s[k])
  BY <1>1, <1>2, InOrderSorts
<1>4. ASSUME NEW i \in DOMAIN s, NEW k \in DOMAIN s, i < k
      PROVE  score[s[i]] > score[s[k]]
               \/ (score[s[i]] = score[s[k]] /\ Catalog[s[i]].ident < Catalog[s[k]].ident)
  <2>1. s[i] \in S /\ s[k] \in S
    BY <1>3
  <2>2. score[s[i]] \in Int /\ score[s[k]] \in Int
    BY <2>1
  <2>3. rank[s[i]] = 0 - score[s[i]] /\ rank[s[k]] = 0 - score[s[k]]
    BY <1>1, <2>1
  <2>4. Before(rank, s[i], s[k])
    BY <1>3, <1>4
  <2> QED
    BY <2>2, <2>3, <2>4 DEF Before
<1> QED
  BY <1>3, <1>4 DEF s

\* So is the order of the rules.
LEMMA RuleOrderSorts ==
  ASSUME NEW S \in SUBSET Models, NEW j \in Planners, NEW alias
  PROVE  /\ RuleOrder(Request[j], alias, S) \in Seq(S)
         /\ ToSet(RuleOrder(Request[j], alias, S)) = S
         /\ IsInjective(RuleOrder(Request[j], alias, S))
<1> DEFINE p == Request[j]
           list == AliasOrder(p, alias)
<1>1. list \in Seq(ToSet(list))
  <2>1. CASE alias \in DOMAIN p.aliases
    BY <2>1, RoutePlanAssumption DEF AliasOrder
  <2>2. CASE alias \notin DOMAIN p.aliases
    BY <2>2 DEF AliasOrder
  <2> QED
    BY <2>1, <2>2
<1>2. ASSUME NEW m \in S
      PROVE  RuleScore(p, alias, m) \in Int
  <2>1. Position(list, m) \in Int
    <3> HIDE DEF list
    <3>1. DOMAIN list \subseteq Int
      BY <1>1
    <3> QED
      BY <3>1 DEF Position, ToSet
  <2>2. Catalog[m].cost # Unknown => Catalog[m].cost \in Int
    BY RoutePlanAssumption
  <2>3. (IF Catalog[m].cost # Unknown /\ Catalog[m].cost < 5
         THEN 5 - Catalog[m].cost ELSE 0) \in Int
    BY <2>2
  <2> QED
    BY <2>1, <2>3 DEF RuleScore
<1>3. [m \in S |-> RuleScore(p, alias, m)] \in [S -> Int]
  BY <1>2
<1> QED
  BY <1>3, BestFirstSorts DEF RuleOrder

\* So is the order made of what Jev answered.
LEMMA JevOrderSorts ==
  ASSUME JobTypes, NEW j \in Planners, NEW T, NEW fit \in [T -> Fits]
  PROVE  LET s == JevOrder(j, fit)
         IN  s \in Seq(Models) /\ ToSet(s) = ToSet(pool[j]) /\ IsInjective(s)
<1>1. ToSet(pool[j]) \in SUBSET Models
  BY DEF JobTypes, ToSet
<1>2. ASSUME NEW m \in ToSet(pool[j])
      PROVE  RankScore(j, fit, m) \in Int
  <2>0. m \in Models
    BY <1>1
  <2>1. Fits \subseteq Int
    BY RoutePlanAssumption
  <2>2. evidence[j][m].fit \in Fitness
    BY <2>0 DEF JobTypes
  <2>3. (IF m \in DOMAIN fit THEN fit[m]
         ELSE IF evidence[j][m].fit # Unknown THEN evidence[j][m].fit ELSE 50) \in Int
    <3>1. CASE m \in T
      BY <3>1, <2>1
    <3>2. CASE m \notin T
      <4>1. evidence[j][m].fit # Unknown => evidence[j][m].fit \in Int
        BY <2>1, <2>2 DEF Fitness
      <4>2. m \notin DOMAIN fit
        BY <3>2
      <4> QED
        BY <4>1, <4>2
    <3> QED
      BY <3>1, <3>2
  <2>4. Catalog[m].cost \in Nat \cup {Unknown}
    BY <2>0, RoutePlanAssumption
  <2>5. (IF Catalog[m].cost = Unknown THEN 50 ELSE 100 \div (1 + Catalog[m].cost)) \in Int
    BY <2>4
  <2>6. (IF evidence[j][m].known THEN 100 ELSE 25) \in Int
    OBVIOUS
  <2> QED
    BY <2>3, <2>5, <2>6 DEF RankScore
<1>3. [m \in ToSet(pool[j]) |-> RankScore(j, fit, m)] \in [ToSet(pool[j]) -> Int]
  BY <1>2
<1>4. JevOrder(j, fit) \in Seq(ToSet(pool[j])) /\ ToSet(JevOrder(j, fit)) = ToSet(pool[j])
      /\ IsInjective(JevOrder(j, fit))
  BY <1>1, <1>3, BestFirstSorts DEF JevOrder
<1> QED
  BY <1>1, <1>4

-----------------------------------------------------------------------------
(* Steps keep the types. *)

\* What a plugin reports of its quota is an observation of no time yet to come.
LEMMA MergeTypes ==
  ASSUME SharedTypes, JobTypes, NEW j \in Planners, NEW c \in Caps, NEW q \in Quota,
         Probing(j) \/ stage[j] = "probed", Merge(j, c, q)
  PROVE  SharedTypes' /\ JobTypes'
<1>1. \A m \in Models : quotaRows'[m] \in Seq(Observation)
  <2> TAKE m \in Models
  <2>1. quotaRows[m] \in Seq(Observation)
    BY DEF SharedTypes
  <2>2. q # NoQuota => Append(quotaRows[m], q) \in Seq(Observation)
    BY <2>1 DEF Quota
  <2> QED
    BY <2>1, <2>2 DEF Merge
<1>2. quotaRows' \in [Models -> Seq(Observation)]
  BY <1>1 DEF Merge
<1>3. SharedTypes'
  BY <1>2 DEF SharedTypes, Merge
<1>4. NoProbe \in [since : 0 .. MaxTime, caps : Caps, quota : Quota]
  BY RoutePlanAssumption DEF NoProbe, Caps, Quota
<1>5. JobTypes'
  BY <1>4 DEF JobTypes, Merge
<1> QED
  BY <1>3, <1>5

\* The cache of the service keeps to its size.
LEMMA StoredFits ==
  ASSUME SharedTypes, NEW e \in Eval
  PROVE  Stored(e) \in Seq(Eval) /\ Len(Stored(e)) <= EvalMemory
<1> DEFINE kept == IF Len(evalCache) >= EvalMemory THEN Tail(evalCache) ELSE evalCache
           Same(k) == kept[k].model = e.model
<1>1. EvalMemory \in Nat \ {0}
  BY RoutePlanAssumption
<1>2. kept \in Seq(Eval) /\ Len(kept) < EvalMemory
  <2>1. evalCache \in Seq(Eval) /\ Len(evalCache) \in Nat /\ Len(evalCache) <= EvalMemory
    BY DEF SharedTypes
  <2>2. CASE Len(evalCache) >= EvalMemory
    <3>1. evalCache # <<>>
      BY <1>1, <2>2
    <3>2. Tail(evalCache) \in Seq(Eval) /\ Len(Tail(evalCache)) = Len(evalCache) - 1
      BY <2>1, <3>1
    <3> QED
      BY <1>1, <2>1, <2>2, <3>2
  <2>3. CASE ~ (Len(evalCache) >= EvalMemory)
    BY <1>1, <2>1, <2>3
  <2> QED
    BY <2>2, <2>3
<1> HIDE DEF kept
<1>3. CASE \E k \in DOMAIN kept : Same(k)
  <2>1. PICK n \in DOMAIN kept : n = CHOOSE k \in DOMAIN kept : Same(k)
    BY <1>3
  <2>2. [kept EXCEPT ![n] = e] \in Seq(Eval) /\ Len([kept EXCEPT ![n] = e]) = Len(kept)
    BY <1>2
  <2>3. Stored(e) = [kept EXCEPT ![n] = e]
    BY <1>3, <2>1 DEF Stored, ReplaceAt, kept
  <2> QED
    BY <1>1, <1>2, <2>2, <2>3
<1>4. CASE ~ \E k \in DOMAIN kept : Same(k)
  <2>1. Stored(e) = Append(kept, e)
    BY <1>4 DEF Stored, kept
  <2>2. Append(kept, e) \in Seq(Eval) /\ Len(Append(kept, e)) = Len(kept) + 1
    BY <1>2
  <2> QED
    BY <1>1, <1>2, <2>1, <2>2
<1> QED
  BY <1>3, <1>4

\* An entry moved to the end.
LEMMA MovedFits ==
  ASSUME SharedTypes, NEW k \in DOMAIN evalCache
  PROVE  /\ evalCache[k] \in Eval
         /\ Append(RemoveAt(evalCache, k), evalCache[k]) \in Seq(Eval)
         /\ Len(Append(RemoveAt(evalCache, k), evalCache[k])) <= EvalMemory
<1> DEFINE n == Len(evalCache)
           a == SubSeq(evalCache, 1, k - 1)
           b == SubSeq(evalCache, k + 1, n)
<1>1. evalCache \in Seq(Eval) /\ n \in Nat /\ n <= EvalMemory /\ k \in 1..n
  BY DEF SharedTypes
<1>2. evalCache[k] \in Eval
  BY <1>1
<1>3. a \in Seq(Eval) /\ Len(a) = k - 1
  BY <1>1
<1>4. b \in Seq(Eval) /\ Len(b) = n - k
  BY <1>1
<1> HIDE DEF a, b
<1>5. a \o b \in Seq(Eval) /\ Len(a \o b) = n - 1
  BY <1>1, <1>3, <1>4
<1>6. /\ Append(a \o b, evalCache[k]) \in Seq(Eval)
      /\ Len(Append(a \o b, evalCache[k])) = n
  BY <1>1, <1>2, <1>5
<1> QED
  BY <1>1, <1>2, <1>6 DEF RemoveAt, a, b

\* A memory that was cleared is one.
LEMMA ClearedTypes ==
  ASSUME SharedTypes
  PROVE  Cleared \in [Models -> Fitness \cup {Unasked}]
  BY DEF SharedTypes, Cleared, Forgotten

\* Every evaluation taken is of a model of the pool.
LEMMA TakeEvalTypes ==
  ASSUME JobTypes, NEW j \in Planners, Judging(j), NEW e \in Fitness, TakeEval(j, e)
  PROVE  /\ Judged(j) \in Models
         /\ next' \in [Planners -> Nat]
         /\ evidence' \in [Planners -> [Models -> [fit : Fitness, known : BOOLEAN]]]
<1>1. Judged(j) \in Models
  BY DEF JobTypes, Judging, Judged
<1>2. evidence[j][Judged(j)] \in [fit : Fitness, known : BOOLEAN]
  BY <1>1 DEF JobTypes
<1> DEFINE E == [fit : Fitness, known : BOOLEAN]
<1>3. evidence \in [Planners -> [Models -> E]]
  BY DEF JobTypes
<1>4. ASSUME NEW n \in Planners PROVE evidence'[n] \in [Models -> E]
  <2>1. CASE n = j
    <3>1. evidence'[j] = [evidence[j] EXCEPT ![Judged(j)].fit = e]
      BY <1>3 DEF TakeEval
    <3>2. [evidence[j][Judged(j)] EXCEPT !.fit = e] \in E
      BY <1>2
    <3> QED
      BY <1>1, <1>3, <2>1, <3>1, <3>2
  <2>2. CASE n # j
    BY <1>3, <2>2 DEF TakeEval
  <2> QED
    BY <2>1, <2>2
<1>5. evidence' \in [Planners -> [Models -> E]]
  BY <1>3, <1>4 DEF TakeEval
<1>6. next' \in [Planners -> Nat]
  BY DEF TakeEval, JobTypes
<1> QED
  BY <1>1, <1>5, <1>6

\* A call that ends leaves none.
LEMMA NoCallTypes ==
  ASSUME JobTypes, NEW j \in Planners, call' = [call EXCEPT ![j] = NoCall]
  PROVE  call' \in [Planners -> [phase : {"none", "headers", "body"}, callTimer : BOOLEAN,
                                totalTimer : BOOLEAN]]
  BY DEF JobTypes, NoCall

\* The steps of the fitness round keep the types.
LEMMA JudgedTypes ==
  ASSUME SharedTypes, JobTypes, NEW j \in Planners,
         ModelJudged(j) \/ ModelUnjudged(j) \/ KnownModel(j) \/ CachedModel(j) \/ AskModel(j)
  PROVE  SharedTypes' /\ JobTypes'
<1> USE DEF Fitness
<1>1. CASE ModelJudged(j)
  <2>1. PICK fit \in Fits : /\ modelEvals' = [modelEvals EXCEPT ![Judged(j)] = fit]
                            /\ evalCache' = Stored([model |-> Judged(j), fit |-> fit])
                            /\ TakeEval(j, fit)
    BY <1>1 DEF ModelJudged
  <2>2. Judging(j) /\ call' = [call EXCEPT ![j] = NoCall]
    BY <1>1 DEF ModelJudged
  <2>3. /\ Judged(j) \in Models /\ next' \in [Planners -> Nat]
        /\ evidence' \in [Planners -> [Models -> [fit : Fitness, known : BOOLEAN]]]
    BY <2>1, <2>2, TakeEvalTypes
  <2>4. evalCache' \in Seq(Eval) /\ Len(evalCache') <= EvalMemory
    <3>1. [model |-> Judged(j), fit |-> fit] \in Eval
      BY <2>3 DEF Eval
    <3> QED
      BY <2>1, <3>1, StoredFits
  <2>5. modelEvals' \in [Models -> Fitness \cup {Unasked}]
    BY <2>1 DEF SharedTypes
  <2>6. SharedTypes'
    BY <1>1, <2>4, <2>5 DEF ModelJudged, SharedTypes
  <2>7. JobTypes'
    BY <1>1, <2>2, <2>3, NoCallTypes DEF ModelJudged, JobTypes
  <2> QED
    BY <2>6, <2>7
<1>2. CASE ModelUnjudged(j)
  <2>1. Judging(j) /\ TakeEval(j, Unknown) /\ call' = [call EXCEPT ![j] = NoCall]
    BY <1>2 DEF ModelUnjudged
  <2>2. /\ Judged(j) \in Models /\ next' \in [Planners -> Nat]
        /\ evidence' \in [Planners -> [Models -> [fit : Fitness, known : BOOLEAN]]]
    BY <2>1, TakeEvalTypes
  <2>3. SharedTypes'
    BY <1>2 DEF ModelUnjudged, SharedTypes
  <2>4. JobTypes'
    BY <1>2, <2>1, <2>2, NoCallTypes DEF ModelUnjudged, JobTypes
  <2> QED
    BY <2>3, <2>4
<1>3. CASE KnownModel(j)
  <2>1. Judging(j) /\ Judged(j) \in Models
    BY <1>3 DEF KnownModel, Judging, Judged, JobTypes
  <2>2. modelEvals[Judged(j)] \in Fitness
    BY <1>3, <2>1 DEF KnownModel, Remembered, SharedTypes
  <2>3. TakeEval(j, modelEvals[Judged(j)])
    BY <1>3 DEF KnownModel
  <2>4. /\ next' \in [Planners -> Nat]
        /\ evidence' \in [Planners -> [Models -> [fit : Fitness, known : BOOLEAN]]]
    BY <2>1, <2>2, <2>3, TakeEvalTypes
  <2>5. SharedTypes'
    BY <1>3 DEF KnownModel, sharedVars, SharedTypes
  <2>6. JobTypes'
    BY <1>3, <2>4 DEF KnownModel, JobTypes
  <2> QED
    BY <2>5, <2>6
<1>4. CASE CachedModel(j)
  <2>1. PICK k \in Hits(Judged(j)) :
          /\ modelEvals' = [Cleared EXCEPT ![Judged(j)] = evalCache[k].fit]
          /\ evalCache' = Append(RemoveAt(evalCache, k), evalCache[k])
          /\ TakeEval(j, evalCache[k].fit)
    BY <1>4 DEF CachedModel
  <2>2. k \in DOMAIN evalCache
    BY DEF Hits
  <2>3. evalCache[k] \in Eval /\ evalCache' \in Seq(Eval) /\ Len(evalCache') <= EvalMemory
    BY <2>1, <2>2, MovedFits
  <2>4. evalCache[k].fit \in Fitness
    BY <2>3 DEF Eval
  <2>5. /\ next' \in [Planners -> Nat]
        /\ evidence' \in [Planners -> [Models -> [fit : Fitness, known : BOOLEAN]]]
    BY <1>4, <2>1, <2>4, TakeEvalTypes DEF CachedModel
  <2>6. modelEvals' \in [Models -> Fitness \cup {Unasked}]
    BY <2>1, <2>4, ClearedTypes
  <2>7. SharedTypes'
    BY <1>4, <2>3, <2>6 DEF CachedModel, SharedTypes
  <2>8. JobTypes'
    BY <1>4, <2>5 DEF CachedModel, JobTypes
  <2> QED
    BY <2>7, <2>8
<1>5. CASE AskModel(j)
  <2>1. modelEvals' \in [Models -> Fitness \cup {Unasked}]
    BY <1>5, ClearedTypes DEF AskModel
  <2>2. SharedTypes'
    BY <1>5, <2>1 DEF AskModel, SharedTypes
  <2>3. JobTypes'
    BY <1>5 DEF AskModel, Send, NewCall, JobTypes
  <2> QED
    BY <2>2, <2>3
<1> QED
  BY <1>1, <1>2, <1>3, <1>4, <1>5

\* Probing.
LEMMA ProbedTypes ==
  ASSUME SharedTypes, JobTypes, NEW j \in Planners,
         ProbeCached(j) \/ ProbeStarts(j) \/ ProbeAnswers(j) \/ ProbeFails(j) \/ HostStopped(j)
  PROVE  SharedTypes' /\ JobTypes'
<1>1. CASE ProbeCached(j)
  <2>1. cache[next[j]] \in [at : Int, caps : Caps, quota : Quota]
    BY <1>1 DEF ProbeCached, Probing, SharedTypes
  <2> QED
    BY <1>1, <2>1, MergeTypes DEF ProbeCached
<1>2. CASE ProbeStarts(j)
  <2>1. SharedTypes'
    BY <1>2 DEF ProbeStarts, sharedVars, SharedTypes
  <2>2. probe' \in [Planners -> [since : 0 .. MaxTime, caps : Caps, quota : Quota]]
    <3> DEFINE P == [since : 0 .. MaxTime, caps : Caps, quota : Quota]
    <3>1. now \in 0 .. MaxTime /\ probe \in [Planners -> P]
      BY DEF JobTypes, SharedTypes
    <3>2. [probe[j] EXCEPT !.since = now] \in P
      BY <3>1
    <3>3. probe' = [probe EXCEPT ![j] = [probe[j] EXCEPT !.since = now]]
      BY <1>2 DEF ProbeStarts
    <3> HIDE DEF P
    <3>4. probe' \in [Planners -> P]
      BY <3>1, <3>2, <3>3
    <3> QED
      BY <3>4 DEF P
  <2>3. JobTypes'
    BY <1>2, <2>2 DEF ProbeStarts, JobTypes
  <2> QED
    BY <2>1, <2>3
<1>3. CASE ProbeAnswers(j)
  <2>1. PICK r \in ProbeResults, t \in probe[j].since .. now :
          LET quota == IF r[2] = NoQuota THEN NoQuota ELSE [status |-> r[2], at |-> t]
          IN /\ probe' = [probe EXCEPT ![j].caps = r[1], ![j].quota = quota]
             /\ cache' = [cache EXCEPT ![next[j]] = [at |-> now, caps |-> r[1], quota |-> quota]]
    BY <1>3 DEF ProbeAnswers
  <2> DEFINE q == IF r[2] = NoQuota THEN NoQuota ELSE [status |-> r[2], at |-> t]
  <2>2. now \in 0 .. MaxTime /\ t \in 0 .. MaxTime
    BY RoutePlanAssumption DEF SharedTypes, JobTypes
  <2>3. q \in Quota
    <3>1. CASE r[2] = NoQuota
      BY <3>1 DEF Quota
    <3>2. CASE r[2] # NoQuota
      <4>1. r[2] \in {s[2] : s \in ProbeResults} \ {NoQuota}
        BY <3>2
      <4> QED
        BY <2>2, <3>2, <4>1 DEF Quota, Observation
    <3> QED
      BY <3>1, <3>2
  <2>4. r[1] \in Caps
    BY DEF Caps
  <2> HIDE DEF q
  <2>5. probe' \in [Planners -> [since : 0 .. MaxTime, caps : Caps, quota : Quota]]
    <3>1. probe' = [probe EXCEPT ![j].caps = r[1], ![j].quota = q]
      BY <2>1 DEF q
    <3> DEFINE P == [since : 0 .. MaxTime, caps : Caps, quota : Quota]
    <3>2. probe \in [Planners -> P] /\ probe[j] \in P
      BY DEF JobTypes
    <3>3. [probe[j] EXCEPT !.caps = r[1], !.quota = q] \in P
      BY <2>3, <2>4, <3>2
    <3>4. probe' = [probe EXCEPT ![j] = [probe[j] EXCEPT !.caps = r[1], !.quota = q]]
      BY <3>1, <3>2
    <3> HIDE DEF P
    <3>5. probe' \in [Planners -> P]
      BY <3>2, <3>3, <3>4
    <3> QED
      BY <3>5 DEF P
  <2>6. cache' \in [DOMAIN Registry -> [at : Int, caps : Caps, quota : Quota]]
    <3>1. cache' = [cache EXCEPT ![next[j]] = [at |-> now, caps |-> r[1], quota |-> q]]
      BY <2>1 DEF q
    <3>2. [at |-> now, caps |-> r[1], quota |-> q] \in [at : Int, caps : Caps, quota : Quota]
      BY <2>2, <2>3, <2>4
    <3> QED
      BY <3>1, <3>2 DEF SharedTypes
  <2>7. SharedTypes'
    BY <1>3, <2>6 DEF ProbeAnswers, SharedTypes
  <2>8. JobTypes'
    BY <1>3, <2>5 DEF ProbeAnswers, JobTypes
  <2> QED
    BY <2>7, <2>8
<1>4. CASE ProbeFails(j)
  <2>1. SharedTypes'
    BY <1>4 DEF ProbeFails, sharedVars, SharedTypes
  <2>2. JobTypes'
    BY <1>4 DEF ProbeFails, JobTypes
  <2> QED
    BY <2>1, <2>2
<1>5. CASE HostStopped(j)
  <2>1. probe[j].caps \in Caps /\ probe[j].quota \in Quota
    BY DEF JobTypes
  <2> QED
    BY <1>5, <2>1, MergeTypes DEF HostStopped
<1> QED
  BY <1>1, <1>2, <1>3, <1>4, <1>5

\* Deciding.  The order Jev or the rules give is made of models.
LEMMA SettleTypes ==
  ASSUME SharedTypes, JobTypes, NEW j \in Planners, NEW order \in Seq(Models),
         NEW by \in {"rules", "jev"}, Settle(j, order, by)
  PROVE  SharedTypes' /\ JobTypes'
<1>1. SharedTypes'
  BY DEF Settle, sharedVars, SharedTypes
<1>2. NoEvidence \in [Models -> [fit : Fitness, known : BOOLEAN]]
  BY DEF NoEvidence, Fitness
<1>3. call' \in [Planners -> [phase : {"none", "headers", "body"}, callTimer : BOOLEAN,
                             totalTimer : BOOLEAN]]
  BY NoCallTypes DEF Settle
<1>4. JobTypes'
  BY <1>2, <1>3 DEF Settle, JobTypes
<1> QED
  BY <1>1, <1>4

\* The rules' order of a pool, each candidate once.
LEMMA PoolOrder ==
  ASSUME JobTypes, NEW j \in Planners, NEW alias
  PROVE  LET s == RuleOrder(Request[j], alias, ToSet(pool[j]))
         IN  s \in Seq(Models) /\ ToSet(s) = ToSet(pool[j]) /\ IsInjective(s)
<1> DEFINE S == ToSet(pool[j])
<1>1. S \in SUBSET Models
  BY DEF JobTypes, ToSet
<1> HIDE DEF S
<1>2. /\ RuleOrder(Request[j], alias, S) \in Seq(S) /\ ToSet(RuleOrder(Request[j], alias, S)) = S
      /\ IsInjective(RuleOrder(Request[j], alias, S))
  BY <1>1, RuleOrderSorts
<1> QED
  BY <1>1, <1>2 DEF S

\* What a decision settles on.
LEMMA Decision ==
  ASSUME JobTypes, NEW j \in Planners, CandidatesJudged(j) \/ CandidatesUnjudged(j)
  PROVE  \E order \in Seq(Models), by \in {"rules", "jev"} :
           /\ Settle(j, order, by)
           /\ ToSet(order) = ToSet(pool[j]) /\ IsInjective(order)
           /\ by = "jev" => setup[1] = "active"
           /\ by = "rules" => order = RulesOf(j)
<1>1. RulesOf(j) \in Seq(Models) /\ ToSet(RulesOf(j)) = ToSet(pool[j]) /\ IsInjective(RulesOf(j))
  BY PoolOrder DEF RulesOf
<1>2. CASE CandidatesUnjudged(j)
  BY <1>1, <1>2 DEF CandidatesUnjudged
<1>3. CASE CandidatesJudged(j)
  <2> DEFINE seen == {pool[j][k] : k \in {k \in DOMAIN pool[j] : k <= JudgeLimit}}
  <2>1. PICK fit \in [seen -> Fits] : Settle(j, Decided(j, fit).order, Decided(j, fit).by)
    BY <1>3 DEF CandidatesJudged
  <2>2. /\ JevOrder(j, fit) \in Seq(Models) /\ ToSet(JevOrder(j, fit)) = ToSet(pool[j])
        /\ IsInjective(JevOrder(j, fit))
    BY JevOrderSorts
  <2>3. CASE setup[1] = "active"
    <3>1. Settle(j, JevOrder(j, fit), "jev")
      BY <2>1, <2>3 DEF Decided
    <3> QED
      BY <2>2, <2>3, <3>1
  <2>4. CASE setup[1] # "active"
    <3>1. Settle(j, RulesOf(j), "rules")
      BY <2>1, <2>4 DEF Decided
    <3> QED
      BY <1>1, <3>1
  <2> QED
    BY <2>3, <2>4
<1> QED
  BY <1>2, <1>3

\* A step of the planning of j, by the part of the state it may change.
LEMMA StepTypes ==
  ASSUME SharedTypes, JobTypes, PlanNext
  PROVE  SharedTypes' /\ JobTypes'
<1>1. CASE Tick
  <2>1. now' \in 0 .. MaxTime
    BY <1>1, RoutePlanAssumption DEF Tick, SharedTypes
  <2>2. SharedTypes'
    BY <1>1, <2>1 DEF Tick, sharedVars, SharedTypes
  <2>3. JobTypes'
    BY <1>1 DEF Tick, jobVars, JobTypes
  <2> QED
    BY <2>2, <2>3
<1>2. ASSUME NEW j \in Planners,
             Begin(j) \/ SkipPlugin(j) \/ TaskJudged(j) \/ HeadersArrive(j)
               \/ AskCandidates(j) \/ Launch(j) \/ PlanEnd(j)
      PROVE  SharedTypes' /\ JobTypes'
  <2>1. SharedTypes'
    BY <1>2 DEF Begin, SkipPlugin, TaskJudged, HeadersArrive, AskCandidates, Launch, PlanEnd,
         sharedVars, SharedTypes
  <2>2. CASE Begin(j) \/ SkipPlugin(j) \/ TaskJudged(j)
    <3>1. next' \in [Planners -> Nat]
      BY <2>2 DEF Begin, SkipPlugin, TaskJudged, JobTypes
    <3>2. CASE Begin(j) \/ TaskJudged(j)
      BY <2>1, <3>2 DEF Begin, TaskJudged, JobTypes
    <3>3. CASE SkipPlugin(j)
      BY <2>1, <3>1, <3>3 DEF SkipPlugin, JobTypes
    <3> QED
      BY <2>2, <3>2, <3>3
  <2>3. CASE HeadersArrive(j)
    <3>1. InBody(call[j]) \in [phase : {"none", "headers", "body"}, callTimer : BOOLEAN,
                              totalTimer : BOOLEAN]
      <4>1. call[j] \in [phase : {"none", "headers", "body"}, callTimer : BOOLEAN,
                        totalTimer : BOOLEAN]
        BY DEF JobTypes
      <4> QED
        BY <4>1 DEF InBody
    <3> QED
      BY <2>1, <2>3, <3>1 DEF HeadersArrive, JobTypes
  <2>4. CASE AskCandidates(j)
    <3>1. \A m \in Models : Known(Normal(view[j][m], Request[j])) \in BOOLEAN
      BY DEF Known
    <3>2. \A m \in Models : evidence[j][m] \in [fit : Fitness, known : BOOLEAN]
      BY DEF JobTypes
    <3>3. evidence'[j] = [m \in Models |->
            [evidence[j][m] EXCEPT !.known = Known(Normal(view[j][m], Request[j]))]]
      BY <2>4 DEF AskCandidates, JobTypes
    <3>4. evidence'[j] \in [Models -> [fit : Fitness, known : BOOLEAN]]
      BY <3>1, <3>2, <3>3
    <3>5. evidence' \in [Planners -> [Models -> [fit : Fitness, known : BOOLEAN]]]
      BY <2>4, <3>4 DEF AskCandidates, JobTypes
    <3> QED
      BY <2>1, <2>4, <3>5 DEF AskCandidates, Send, NewCall, JobTypes
  <2>5. CASE Launch(j)
    <3>1. plan[j][next[j]] \in Models
      BY <2>5 DEF Launch, JobTypes
    <3>2. Append(launched[j], plan[j][next[j]]) \in Seq(Models)
      BY <3>1 DEF JobTypes
    <3>3. launched' \in [Planners -> Seq(Models)]
      BY <2>5, <3>2 DEF Launch, JobTypes
    <3>4. next' \in [Planners -> Nat]
      BY <2>5 DEF Launch, JobTypes
    <3> QED
      BY <2>1, <2>5, <3>3, <3>4 DEF Launch, JobTypes
  <2>6. CASE PlanEnd(j)
    BY <2>1, <2>6 DEF PlanEnd, JobTypes
  <2> QED
    BY <1>2, <2>1, <2>2, <2>3, <2>4, <2>5, <2>6
<1>3. ASSUME NEW j \in Planners, Plan(j)
      PROVE  SharedTypes' /\ JobTypes'
  <2>1. SharedTypes'
    BY <1>3 DEF Plan, sharedVars, SharedTypes
  <2>2. pool' \in [Planners -> Seq(Models)] /\ pool'[j] \in Seq(Models)
    BY <1>3, FilteredModels DEF Plan, JobTypes
  <2>3. RuleOrder(Request[j], AliasRead, ToSet(pool'[j])) \in Seq(Models)
    <3>1. ToSet(pool'[j]) \in SUBSET Models
      BY <2>2 DEF ToSet
    <3> QED
      BY <3>1, RuleOrderSorts, SMTT(30)
  <2>4. plan' \in [Planners -> Seq(Models)]
    BY <1>3, <2>3 DEF Plan, JobTypes
  <2>5. stage' \in [Planners -> {"queued", "probing", "probe", "probed", "task", "models",
                                "candidates", "ready", "done"}]
    <3>1. stage'[j] \in {"task", "ready"} /\ stage' = [stage EXCEPT ![j] = stage'[j]]
      BY <1>3 DEF Plan, JobTypes
    <3> QED
      BY <3>1 DEF JobTypes
  <2>6. JobTypes'
    BY <1>3, <2>2, <2>4, <2>5 DEF Plan, JobTypes
  <2> QED
    BY <2>1, <2>6
<1>4. ASSUME NEW j \in Planners, CandidatesJudged(j) \/ CandidatesUnjudged(j)
      PROVE  SharedTypes' /\ JobTypes'
  BY <1>4, Decision, SettleTypes
<1> QED
  BY <1>1, <1>2, <1>3, <1>4, ProbedTypes, JudgedTypes
     DEF PlanNext, Answered, GivenUp, JevFails, TimerFires

-----------------------------------------------------------------------------
(* The plan of each job. *)

\* Steps of the planning of a job.
JobStep(j) ==
  \/ Begin(j) \/ SkipPlugin(j) \/ ProbeCached(j) \/ ProbeStarts(j) \/ ProbeAnswers(j)
  \/ ProbeFails(j) \/ HostStopped(j) \/ Plan(j) \/ TaskJudged(j) \/ KnownModel(j)
  \/ CachedModel(j) \/ AskModel(j) \/ AskCandidates(j) \/ HeadersArrive(j)
  \/ Answered(j) \/ JevFails(j) \/ TimerFires(j) \/ Launch(j) \/ PlanEnd(j)

\* What is launched comes from the part of the plan that is behind.
LaunchedFrom(j) ==
  /\ IsInjective(launched[j])
  /\ \A k \in DOMAIN launched[j] : \E i \in DOMAIN plan[j] :
       i < next[j] /\ launched[j][k] = plan[j][i]

PlanOf(j) ==
  /\ ToSet(plan[j]) = ToSet(pool[j]) /\ IsInjective(plan[j])
  /\ via[j] = "jev" => setup = <<"active", TRUE>>
  /\ via[j] # "jev" => plan[j] = RuleOrder(Request[j], AliasRead, ToSet(pool[j]))

RouteSoundAt(j) ==
  /\ stage[j] \notin {"models", "candidates"} => call[j] = NoCall
  /\ stage[j] \in {"task", "models", "candidates"} => Keyed
  /\ stage[j] # "ready" => via[j] = "rules" /\ launched[j] = <<>>
  /\ stage[j] = "ready" => PlanOf(j) /\ LaunchedFrom(j)

RouteSound == \A j \in Planners : RouteSoundAt(j)

\* What a job's plan depends on.
RouteOf(j) ==
  <<setup, stage[j], next[j], pool[j], call[j], via[j], plan[j], launched[j]>>

\* A route is sound as long as none of what it is made of changes.
LEMMA RouteUntouched ==
  ASSUME NEW n \in Planners, RouteSoundAt(n), RouteOf(n)' = RouteOf(n)
  PROVE  RouteSoundAt(n)'
<1>1. /\ setup' = setup /\ stage'[n] = stage[n] /\ next'[n] = next[n] /\ pool'[n] = pool[n]
      /\ call'[n] = call[n] /\ via'[n] = via[n] /\ plan'[n] = plan[n]
      /\ launched'[n] = launched[n]
  BY DEF RouteOf
<1>2. AliasRead' = AliasRead /\ Keyed' = Keyed
  BY <1>1 DEF AliasRead, Keyed, JevUsed
<1>3. PlanOf(n) => PlanOf(n)'
  BY <1>1, <1>2 DEF PlanOf
<1>4. LaunchedFrom(n) => LaunchedFrom(n)'
  BY <1>1 DEF LaunchedFrom
<1> QED
  BY <1>1, <1>2, <1>3, <1>4 DEF RouteSoundAt

\* A step of one job leaves the plans of the others alone.
LEMMA OthersUntouched ==
  ASSUME JobTypes, NEW j \in Planners, NEW n \in Planners, n # j, JobStep(j)
  PROVE  RouteOf(n)' = RouteOf(n)
<1> USE DEF RouteOf, JobTypes
<1>1. CASE Begin(j) \/ SkipPlugin(j) \/ ProbeStarts(j) \/ ProbeAnswers(j) \/ ProbeFails(j)
  BY <1>1 DEF Begin, SkipPlugin, ProbeStarts, ProbeAnswers, ProbeFails
<1>2. CASE ProbeCached(j) \/ HostStopped(j)
  BY <1>2 DEF ProbeCached, HostStopped, Merge
<1>3. CASE Plan(j)
  BY <1>3 DEF Plan
<1>4. CASE TaskJudged(j) \/ AskModel(j) \/ AskCandidates(j) \/ HeadersArrive(j)
  BY <1>4 DEF TaskJudged, AskModel, AskCandidates, HeadersArrive, Send
<1>5. CASE KnownModel(j) \/ CachedModel(j) \/ ModelJudged(j) \/ ModelUnjudged(j)
  BY <1>5 DEF KnownModel, CachedModel, ModelJudged, ModelUnjudged, TakeEval
<1>6. CASE CandidatesJudged(j) \/ CandidatesUnjudged(j)
  BY <1>6 DEF CandidatesJudged, CandidatesUnjudged, Settle
<1>7. CASE Launch(j) \/ PlanEnd(j)
  BY <1>7 DEF Launch, PlanEnd
<1> QED
  BY <1>1, <1>2, <1>3, <1>4, <1>5, <1>6, <1>7
     DEF JobStep, Answered, GivenUp, JevFails, TimerFires

\* The rules read what the Jev adapter reads if it is the one configured.
LEMMA KeyedAlias ==
  ASSUME Keyed
  PROVE  AliasRead = "standard"
  BY Zenon DEF Keyed, AliasRead

\* A daemon set up for active decisions, with a key.
LEMMA ActiveSetup ==
  ASSUME SharedTypes, Keyed, setup[1] = "active"
  PROVE  setup = <<"active", TRUE>>
<1>1. Setups \subseteq {"off", "shadow", "active"} \X BOOLEAN
  BY RoutePlanAssumption
<1>2. PICK a \in {"off", "shadow", "active"}, b \in BOOLEAN : setup = <<a, b>>
  BY <1>1 DEF SharedTypes
<1>3. setup[1] = a /\ setup[2] = b
  BY <1>2
<1>4. setup[2]
  BY DEF Keyed
<1>5. b = TRUE
  BY <1>3, <1>4, Zenon
<1> QED
  BY <1>2, <1>3, <1>5

\* Which aliases are read depends on the setup alone.
LEMMA KeyedStays ==
  ASSUME setup' = setup
  PROVE  Keyed' = Keyed /\ AliasRead' = AliasRead
  BY DEF Keyed, JevUsed, AliasRead

\* Steps that lead to no decision and to no plan.
LEMMA ProbingSound ==
  ASSUME JobTypes, NEW j \in Planners, RouteSoundAt(j),
         Begin(j) \/ SkipPlugin(j) \/ ProbeCached(j) \/ ProbeStarts(j) \/ ProbeAnswers(j)
           \/ ProbeFails(j) \/ HostStopped(j) \/ PlanEnd(j)
  PROVE  RouteSoundAt(j)'
<1>1. CASE PlanEnd(j)
  <2>1. /\ stage'[j] = "done" /\ via'[j] = "rules" /\ launched'[j] = <<>>
        /\ call'[j] = call[j] /\ stage[j] = "ready"
    BY <1>1 DEF PlanEnd, JobTypes
  <2> QED
    BY <2>1 DEF RouteSoundAt
<1>2. CASE Begin(j) \/ SkipPlugin(j) \/ ProbeStarts(j) \/ ProbeAnswers(j) \/ ProbeFails(j)
  <2>1. /\ stage[j] \in {"queued", "probing", "probe", "probed"}
        /\ stage'[j] \in {"probing", "probe", "probed"}
        /\ via'[j] = via[j] /\ launched'[j] = launched[j] /\ call'[j] = call[j]
    BY <1>2 DEF Begin, SkipPlugin, ProbeStarts, ProbeAnswers, ProbeFails, Probing, JobTypes
  <2> QED
    BY <2>1 DEF RouteSoundAt
<1>3. CASE ProbeCached(j) \/ HostStopped(j)
  <2>1. /\ stage[j] \in {"queued", "probing", "probe", "probed"}
        /\ stage'[j] \in {"probing", "probe", "probed"}
        /\ via'[j] = via[j] /\ launched'[j] = launched[j] /\ call'[j] = call[j]
    BY <1>3 DEF ProbeCached, HostStopped, Merge, Probing, JobTypes
  <2> QED
    BY <2>1 DEF RouteSoundAt
<1> QED
  BY <1>1, <1>2, <1>3

\* With no adapter the rules decide, with one they are asked later.
LEMMA PlanStepSound ==
  ASSUME SharedTypes, JobTypes, NEW j \in Planners, RouteSoundAt(j), Plan(j)
  PROVE  RouteSoundAt(j)'
<1>1. /\ stage[j] = "probing" /\ setup' = setup /\ next'[j] = 1 /\ call'[j] = call[j]
      /\ via'[j] = via[j] /\ launched'[j] = launched[j]
  BY DEF Plan, JobTypes
<1>2. call[j] = NoCall /\ via[j] = "rules" /\ launched[j] = <<>>
  BY <1>1 DEF RouteSoundAt
<1>3. CASE Keyed
  <2>1. stage'[j] = "task"
    BY <1>3 DEF Plan, JobTypes
  <2> QED
    BY <1>1, <1>2, <1>3, <2>1, KeyedStays DEF RouteSoundAt
<1>4. CASE ~ Keyed
  <2>1. stage'[j] = "ready" /\ plan'[j] = RuleOrder(Request[j], AliasRead, ToSet(pool'[j]))
    BY <1>4 DEF Plan, JobTypes
  <2>2. pool'[j] \in Seq(Models)
    BY FilteredModels DEF Plan, JobTypes
  <2>3. ToSet(pool'[j]) \in SUBSET Models
    BY <2>2 DEF ToSet
  <2>4. ToSet(plan'[j]) = ToSet(pool'[j]) /\ IsInjective(plan'[j])
    BY <2>1, <2>3, RuleOrderSorts
  <2>5. PlanOf(j)'
    BY <1>1, <1>2, <2>1, <2>4, KeyedStays DEF PlanOf
  <2>6. LaunchedFrom(j)'
    BY <1>1, <1>2 DEF LaunchedFrom, IsInjective
  <2> QED
    BY <1>1, <1>2, <2>1, <2>5, <2>6 DEF RouteSoundAt
<1> QED
  BY <1>3, <1>4

\* While Jev is asked nothing is planned.
LEMMA AskingSound ==
  ASSUME JobTypes, NEW j \in Planners, RouteSoundAt(j),
         TaskJudged(j) \/ KnownModel(j) \/ CachedModel(j) \/ AskModel(j) \/ AskCandidates(j)
           \/ HeadersArrive(j) \/ ModelJudged(j) \/ ModelUnjudged(j)
  PROVE  RouteSoundAt(j)'
<1> SUFFICES /\ stage[j] \in {"task", "models", "candidates"}
             /\ stage'[j] \in {"models", "candidates"}
             /\ via'[j] = via[j] /\ launched'[j] = launched[j] /\ setup' = setup
  BY KeyedStays DEF RouteSoundAt
<1>1. CASE TaskJudged(j) \/ AskModel(j) \/ AskCandidates(j)
  BY <1>1 DEF TaskJudged, AskModel, AskCandidates, Judging, JobTypes
<1>2. CASE KnownModel(j) \/ CachedModel(j) \/ ModelJudged(j) \/ ModelUnjudged(j)
  BY <1>2 DEF KnownModel, CachedModel, ModelJudged, ModelUnjudged, Judging, JobTypes
<1>3. CASE HeadersArrive(j)
  <2>1. call[j] # NoCall
    BY <1>3 DEF HeadersArrive, NoCall
  <2>2. stage[j] \in {"models", "candidates"}
    BY <2>1 DEF RouteSoundAt
  <2> QED
    BY <1>3, <2>2 DEF HeadersArrive
<1> QED
  BY <1>1, <1>2, <1>3

\* A decision leaves the pool as it is and orders it.
LEMMA DecidedSound ==
  ASSUME SharedTypes, JobTypes, NEW j \in Planners, RouteSoundAt(j),
         CandidatesJudged(j) \/ CandidatesUnjudged(j)
  PROVE  RouteSoundAt(j)'
<1>1. PICK order \in Seq(Models), by \in {"rules", "jev"} :
        /\ Settle(j, order, by)
        /\ ToSet(order) = ToSet(pool[j]) /\ IsInjective(order)
        /\ by = "jev" => setup[1] = "active"
        /\ by = "rules" => order = RulesOf(j)
  BY Decision
<1>2. /\ stage[j] = "candidates" /\ stage'[j] = "ready" /\ plan'[j] = order /\ via'[j] = by
      /\ pool'[j] = pool[j] /\ next'[j] = 1 /\ call'[j] = NoCall /\ setup' = setup
      /\ launched'[j] = launched[j]
  BY <1>1 DEF Settle, JobTypes
<1>3. Keyed /\ launched[j] = <<>>
  BY <1>2 DEF RouteSoundAt
<1>4. by = "jev" => setup = <<"active", TRUE>>
  BY <1>1, <1>3, ActiveSetup
<1>5. by = "rules" => order = RuleOrder(Request[j], AliasRead, ToSet(pool[j]))
  BY <1>1, <1>3, KeyedAlias DEF RulesOf
<1>6. PlanOf(j)'
  <2>1. AliasRead' = AliasRead
    BY <1>2, KeyedStays
  <2> QED
    BY <1>1, <1>2, <1>4, <1>5, <2>1 DEF PlanOf
<1>7. LaunchedFrom(j)'
  BY <1>2, <1>3 DEF LaunchedFrom, IsInjective
<1> QED
  BY <1>2, <1>6, <1>7 DEF RouteSoundAt

\* A launch takes the next of the plan, which was not launched before.
LEMMA LaunchSound ==
  ASSUME JobTypes, NEW j \in Planners, RouteSoundAt(j), Launch(j)
  PROVE  RouteSoundAt(j)'
<1> DEFINE x == plan[j][next[j]]
<1>1. /\ stage[j] = "ready" /\ stage'[j] = "ready" /\ next[j] \in DOMAIN plan[j]
      /\ next'[j] = next[j] + 1 /\ setup' = setup /\ pool'[j] = pool[j] /\ plan'[j] = plan[j]
      /\ via'[j] = via[j] /\ call'[j] = call[j]
      /\ launched'[j] \in {launched[j], Append(launched[j], x)}
  BY DEF Launch, JobTypes
<1>2. PlanOf(j) /\ LaunchedFrom(j)
  BY <1>1 DEF RouteSoundAt
<1>3. PlanOf(j)'
  BY <1>1, <1>2, KeyedStays DEF PlanOf
<1>4. /\ launched[j] \in Seq(Models) /\ plan[j] \in Seq(Models) /\ next[j] \in Nat
      /\ DOMAIN plan[j] \subseteq Int
  BY DEF JobTypes
<1>5. LaunchedFrom(j)'
  <2>1. CASE launched'[j] = launched[j]
    BY <1>1, <1>2, <1>4, <2>1 DEF LaunchedFrom
  <2>2. CASE launched'[j] = Append(launched[j], x)
    <3> DEFINE l == launched[j]
               N == Len(l)
    <3>1. /\ DOMAIN launched'[j] = 1..(N + 1) /\ launched'[j][N + 1] = x
          /\ \A k \in 1..N : launched'[j][k] = l[k]
          /\ N \in Nat /\ DOMAIN l = 1..N
      BY <1>4, <2>2
    <3>2. \A k \in 1..N : \E i \in DOMAIN plan[j] : i < next[j] /\ l[k] = plan[j][i]
      BY <1>2, <3>1 DEF LaunchedFrom
    <3>3. \A k \in 1..N : l[k] # x
      BY <1>1, <1>2, <1>4, <3>2 DEF PlanOf, IsInjective
    <3>4. \A a, b \in 1..N : l[a] = l[b] => a = b
      BY <1>2, <3>1 DEF LaunchedFrom, IsInjective
    <3>5. IsInjective(launched'[j])
      <4> SUFFICES ASSUME NEW a \in 1..(N + 1), NEW b \in 1..(N + 1),
                          launched'[j][a] = launched'[j][b]
                   PROVE  a = b
        BY <3>1 DEF IsInjective
      <4>1. CASE a \in 1..N /\ b \in 1..N
        BY <3>1, <3>4, <4>1
      <4>2. CASE a = N + 1 \/ b = N + 1
        BY <3>1, <3>3, <4>2
      <4> QED
        BY <3>1, <4>1, <4>2
    <3>6. \A k \in DOMAIN launched'[j] : \E i \in DOMAIN plan'[j] :
            i < next'[j] /\ launched'[j][k] = plan'[j][i]
      <4> SUFFICES ASSUME NEW k \in 1..(N + 1)
                   PROVE  \E i \in DOMAIN plan[j] :
                            i < next[j] + 1 /\ launched'[j][k] = plan[j][i]
        BY <1>1, <3>1
      <4>1. CASE k \in 1..N
        BY <1>4, <3>1, <3>2, <4>1
      <4>2. CASE k = N + 1
        <5>1. next[j] \in DOMAIN plan[j] /\ next[j] < next[j] + 1
          BY <1>1, <1>4
        <5>2. launched'[j][k] = plan[j][next[j]]
          BY <3>1, <4>2
        <5> QED
          BY <5>1, <5>2
      <4> QED
        BY <3>1, <4>1, <4>2
    <3> QED
      BY <3>5, <3>6 DEF LaunchedFrom
  <2> QED
    BY <1>1, <2>1, <2>2
<1> QED
  BY <1>1, <1>3, <1>5 DEF RouteSoundAt

\* Every step keeps every route sound.
LEMMA RouteStep ==
  ASSUME SharedTypes, JobTypes, RouteSound, PlanNext
  PROVE  RouteSound'
<1>1. CASE Tick
  <2>1. \A n \in Planners : RouteOf(n)' = RouteOf(n)
    BY <1>1 DEF Tick, RouteOf, jobVars
  <2> QED
    BY <2>1, RouteUntouched DEF RouteSound
<1>2. CASE \E j \in Planners : JobStep(j)
  <2>1. PICK j \in Planners : JobStep(j)
    BY <1>2
  <2>2. RouteSoundAt(j)
    BY DEF RouteSound
  <2>3. RouteSoundAt(j)'
    BY <2>1, <2>2, ProbingSound, PlanStepSound, AskingSound, DecidedSound, LaunchSound
       DEF JobStep, Answered, GivenUp, JevFails, TimerFires
  <2>4. ASSUME NEW n \in Planners, n # j PROVE RouteSoundAt(n)'
    BY <2>1, <2>4, OthersUntouched, RouteUntouched DEF RouteSound
  <2> QED
    BY <2>3, <2>4 DEF RouteSound
<1> QED
  BY <1>1, <1>2 DEF PlanNext, JobStep

-----------------------------------------------------------------------------
(* The memory of the adapter. *)

\* Jobs that wait for the evaluation of a model, each of which may add one.
Asking == {j \in Planners : stage[j] = "models" /\ call[j] # NoCall}

MemoryBounded ==
  Cardinality(Remembered) + Cardinality(Asking) <= ModelMemory + Cardinality(Planners)

\* Subsets of jobs and of models.
LEMMA Counting ==
  /\ \A S \in SUBSET Models : IsFiniteSet(S) /\ Cardinality(S) \in Nat
  /\ \A S \in SUBSET Planners : IsFiniteSet(S) /\ Cardinality(S) \in Nat
                               /\ Cardinality(S) <= Cardinality(Planners)
  /\ \A S \in SUBSET Planners : \A T \in SUBSET S : Cardinality(T) <= Cardinality(S)
  /\ \A S \in SUBSET Models : \A m : Cardinality(S \cup {m}) <= Cardinality(S) + 1
  /\ \A S \in SUBSET Models : \A T \in SUBSET S : Cardinality(T) <= Cardinality(S)
  /\ \A S \in SUBSET Planners : \A j \in S : Cardinality(S \ {j}) = Cardinality(S) - 1
  /\ Cardinality(Planners) \in Nat
<1>1. IsFiniteSet(Models) /\ IsFiniteSet(Planners)
  BY RoutePlanAssumption
<1>2. \A S \in SUBSET Models : IsFiniteSet(S) /\ Cardinality(S) \in Nat
  BY <1>1, FS_Subset, FS_CardinalityType
<1>3. \A S \in SUBSET Planners : IsFiniteSet(S) /\ Cardinality(S) \in Nat
                               /\ Cardinality(S) <= Cardinality(Planners)
  BY <1>1, FS_Subset, FS_CardinalityType
<1>4. \A S \in SUBSET Planners : \A T \in SUBSET S : Cardinality(T) <= Cardinality(S)
  BY <1>3, FS_Subset
<1>5. ASSUME NEW S \in SUBSET Models, NEW m
      PROVE  Cardinality(S \cup {m}) <= Cardinality(S) + 1
  <2>1. IsFiniteSet(S) /\ Cardinality(S) \in Nat
    BY <1>2
  <2>2. Cardinality(S \cup {m}) = IF m \in S THEN Cardinality(S) ELSE Cardinality(S) + 1
    BY <2>1, FS_AddElement
  <2> QED
    BY <2>1, <2>2
<1>6. \A S \in SUBSET Models : \A T \in SUBSET S : Cardinality(T) <= Cardinality(S)
  BY <1>2, FS_Subset
<1>7. \A S \in SUBSET Planners : \A j \in S : Cardinality(S \ {j}) = Cardinality(S) - 1
  BY <1>3, FS_RemoveElement
<1>8. Cardinality(Planners) \in Nat
  BY <1>3
<1> QED
  BY <1>2, <1>3, <1>4, <1>5, <1>6, <1>7, <1>8

\* What the bounds count are sets of models and of jobs.
LEMMA SetsCounted ==
  /\ Remembered \in SUBSET Models /\ Asking \in SUBSET Planners
  /\ Remembered' \in SUBSET Models /\ Asking' \in SUBSET Planners
  BY DEF Remembered, Asking

\* Before a model is asked about or found in the other cache, the memory is cleared when
\* it holds too much.
LEMMA ClearedBounded ==
  ASSUME SharedTypes
  PROVE  Cardinality({m \in Models : Cleared[m] # Unasked}) <= ModelMemory
<1> DEFINE C == {m \in Models : Cleared[m] # Unasked}
<1>1. ModelMemory \in Nat
  BY RoutePlanAssumption
<1>2. Cardinality(Remembered) \in Nat
  BY Counting, SetsCounted
<1>3. CASE Cardinality(Remembered) > ModelMemory
  <2>1. C = {}
    BY <1>3 DEF Cleared, Forgotten
  <2> QED
    BY <1>1, <2>1, FS_EmptySet
<1>4. CASE ~ (Cardinality(Remembered) > ModelMemory)
  <2>1. C = Remembered
    BY <1>4 DEF Cleared, Remembered
  <2> QED
    BY <1>1, <1>2, <1>4, <2>1
<1> QED
  BY <1>3, <1>4

\* A job that asks is one that was not asking.
LEMMA AskBounded ==
  ASSUME SharedTypes, JobTypes, NEW j \in Planners, AskModel(j)
  PROVE  MemoryBounded'
<1>1. Remembered' = {m \in Models : Cleared[m] # Unasked}
  BY DEF AskModel, Remembered
<1>2. Cardinality(Remembered') <= ModelMemory
  BY <1>1, ClearedBounded
<1>3. Cardinality(Remembered') \in Nat /\ Cardinality(Asking') \in Nat
      /\ Cardinality(Asking') <= Cardinality(Planners) /\ Cardinality(Planners) \in Nat
  BY Counting, SetsCounted
<1>4. ModelMemory \in Nat
  BY RoutePlanAssumption
<1>5. Cardinality(Remembered)' = Cardinality(Remembered') /\ Cardinality(Asking)' = Cardinality(Asking')
  OBVIOUS
<1> QED
  BY <1>2, <1>3, <1>4, <1>5 DEF MemoryBounded

\* An evaluation found in the other cache is remembered by a job that was not asking.
LEMMA FoundBounded ==
  ASSUME SharedTypes, JobTypes, NEW j \in Planners, CachedModel(j)
  PROVE  MemoryBounded'
<1> DEFINE C == {m \in Models : Cleared[m] # Unasked}
<1>1. PICK k \in Hits(Judged(j)) : modelEvals' = [Cleared EXCEPT ![Judged(j)] = evalCache[k].fit]
  BY DEF CachedModel
<1>2. Remembered' \in SUBSET (C \cup {Judged(j)})
  BY <1>1 DEF Remembered
<1>3. Judged(j) \in Models
  BY DEF CachedModel, Judging, Judged, JobTypes
<1>4. C \in SUBSET Models /\ C \cup {Judged(j)} \in SUBSET Models
  BY <1>3
<1>5. Cardinality(C) <= ModelMemory
  BY ClearedBounded
<1> HIDE DEF C
<1>6. Cardinality(Remembered') <= Cardinality(C) + 1
  <2>1. Cardinality(C \cup {Judged(j)}) <= Cardinality(C) + 1
    BY <1>4, Counting
  <2>2. Cardinality(Remembered') <= Cardinality(C \cup {Judged(j)})
    BY <1>2, <1>4, Counting
  <2>3. /\ Cardinality(C) \in Nat /\ Cardinality(Remembered') \in Nat
        /\ Cardinality(C \cup {Judged(j)}) \in Nat
    BY <1>4, Counting, SetsCounted
  <2> QED
    BY <2>1, <2>2, <2>3
<1>7. Asking' \in SUBSET (Planners \ {j})
  BY DEF CachedModel, Asking, JobTypes
<1>8. Cardinality(Asking') <= Cardinality(Planners) - 1
  <2>1. Planners \ {j} \in SUBSET Planners /\ Planners \in SUBSET Planners
    OBVIOUS
  <2>2. Cardinality(Planners \ {j}) = Cardinality(Planners) - 1
    BY <2>1, Counting
  <2>3. Cardinality(Asking') <= Cardinality(Planners \ {j})
    BY <1>7, <2>1, Counting
  <2> QED
    BY <2>2, <2>3
<1>9. Cardinality(Remembered') \in Nat /\ Cardinality(Asking') \in Nat /\ Cardinality(C) \in Nat
      /\ Cardinality(Planners) \in Nat
  BY <1>4, Counting, SetsCounted
<1>10. ModelMemory \in Nat
  BY RoutePlanAssumption
<1>11. Cardinality(Remembered)' = Cardinality(Remembered') /\ Cardinality(Asking)' = Cardinality(Asking')
  OBVIOUS
<1> QED
  BY <1>5, <1>6, <1>8, <1>9, <1>10, <1>11 DEF MemoryBounded

\* An answer, a failure or a timeout: one model more is remembered, one job less asks.
LEMMA ToldBounded ==
  ASSUME SharedTypes, JobTypes, MemoryBounded, NEW j \in Planners,
         ModelJudged(j) \/ ModelUnjudged(j), call[j] # NoCall
  PROVE  MemoryBounded'
<1>1. j \in Asking
  BY DEF ModelJudged, ModelUnjudged, Judging, Asking
<1>2. Asking' \in SUBSET (Asking \ {j})
  BY DEF ModelJudged, ModelUnjudged, Judging, Asking, JobTypes
<1>3. Remembered' \in SUBSET (Remembered \cup {Judged(j)})
  BY DEF ModelJudged, ModelUnjudged, Remembered, SharedTypes
<1>4. Judged(j) \in Models
  BY DEF ModelJudged, ModelUnjudged, Judging, Judged, JobTypes
<1>5. Cardinality(Asking') <= Cardinality(Asking) - 1
  <2>1. Asking \ {j} \in SUBSET Planners
    BY SetsCounted
  <2>2. Cardinality(Asking \ {j}) = Cardinality(Asking) - 1
    BY <1>1, SetsCounted, Counting
  <2>3. Cardinality(Asking') <= Cardinality(Asking \ {j})
    BY <1>2, <2>1, Counting
  <2> QED
    BY <2>2, <2>3
<1>6. Cardinality(Remembered') <= Cardinality(Remembered) + 1
  <2>1. Remembered \cup {Judged(j)} \in SUBSET Models
    BY <1>4, SetsCounted
  <2>2. Cardinality(Remembered \cup {Judged(j)}) <= Cardinality(Remembered) + 1
    BY SetsCounted, Counting
  <2>3. Cardinality(Remembered') <= Cardinality(Remembered \cup {Judged(j)})
    BY <1>3, <2>1, Counting
  <2>4. /\ Cardinality(Remembered) \in Nat /\ Cardinality(Remembered') \in Nat
        /\ Cardinality(Remembered \cup {Judged(j)}) \in Nat
    BY <2>1, Counting, SetsCounted
  <2> QED
    BY <2>2, <2>3, <2>4
<1>7. /\ Cardinality(Remembered) \in Nat /\ Cardinality(Asking) \in Nat
      /\ Cardinality(Remembered') \in Nat /\ Cardinality(Asking') \in Nat
      /\ Cardinality(Planners) \in Nat
  BY Counting, SetsCounted
<1>8. ModelMemory \in Nat
  BY RoutePlanAssumption
<1>9. Cardinality(Remembered)' = Cardinality(Remembered') /\ Cardinality(Asking)' = Cardinality(Asking')
  OBVIOUS
<1> QED
  BY <1>5, <1>6, <1>7, <1>8, <1>9 DEF MemoryBounded

\* No other step remembers more, or lets more jobs ask.
LEMMA NoMoreAsking ==
  ASSUME MemoryBounded, modelEvals' = modelEvals, Asking' \in SUBSET Asking
  PROVE  MemoryBounded'
<1>1. Remembered' = Remembered
  BY DEF Remembered
<1>2. Cardinality(Asking') <= Cardinality(Asking)
  BY SetsCounted, Counting
<1>3. /\ Cardinality(Remembered) \in Nat /\ Cardinality(Asking) \in Nat
      /\ Cardinality(Asking') \in Nat /\ Cardinality(Planners) \in Nat
  BY Counting, SetsCounted
<1>4. ModelMemory \in Nat
  BY RoutePlanAssumption
<1>5. Cardinality(Remembered)' = Cardinality(Remembered') /\ Cardinality(Asking)' = Cardinality(Asking')
  OBVIOUS
<1> QED
  BY <1>1, <1>2, <1>3, <1>4, <1>5 DEF MemoryBounded

\* Every step keeps the memory and the calls within their bounds.
LEMMA MemoryStep ==
  ASSUME SharedTypes, JobTypes, RouteSound, MemoryBounded, PlanNext
  PROVE  MemoryBounded'
<1>1. CASE Tick
  BY <1>1, NoMoreAsking DEF Tick, sharedVars, jobVars, Asking
<1>2. ASSUME NEW j \in Planners,
             Begin(j) \/ SkipPlugin(j) \/ ProbeStarts(j) \/ ProbeAnswers(j) \/ ProbeFails(j)
               \/ ProbeCached(j) \/ HostStopped(j) \/ Plan(j) \/ Launch(j) \/ PlanEnd(j)
      PROVE  MemoryBounded'
  <2>1. /\ modelEvals' = modelEvals /\ call' = call
        /\ stage'[j] # "models" /\ \A n \in Planners : n # j => stage'[n] = stage[n]
    <3>1. CASE Begin(j) \/ SkipPlugin(j) \/ ProbeStarts(j) \/ ProbeAnswers(j) \/ ProbeFails(j)
      BY <3>1 DEF Begin, SkipPlugin, ProbeStarts, ProbeAnswers, ProbeFails, Probing, sharedVars,
           JobTypes
    <3>2. CASE ProbeCached(j) \/ HostStopped(j)
      BY <3>2 DEF ProbeCached, HostStopped, Merge, JobTypes
    <3>3. CASE Plan(j) \/ Launch(j) \/ PlanEnd(j)
      BY <3>3 DEF Plan, Launch, PlanEnd, sharedVars, JobTypes
    <3> QED
      BY <1>2, <3>1, <3>2, <3>3
  <2>2. Asking' \in SUBSET Asking
    BY <2>1 DEF Asking
  <2> QED
    BY <2>1, <2>2, NoMoreAsking
<1>3. ASSUME NEW j \in Planners, TaskJudged(j)
      PROVE  MemoryBounded'
  <2>1. call[j] = NoCall
    BY <1>3 DEF TaskJudged, RouteSound, RouteSoundAt
  <2>2. Asking' \in SUBSET Asking
    BY <1>3, <2>1 DEF TaskJudged, Asking, JobTypes
  <2> QED
    BY <1>3, <2>2, NoMoreAsking DEF TaskJudged, sharedVars
<1>4. ASSUME NEW j \in Planners, HeadersArrive(j) \/ KnownModel(j)
      PROVE  MemoryBounded'
  <2>1. CASE HeadersArrive(j)
    <3>1. call[j] # NoCall
      BY <2>1 DEF HeadersArrive, NoCall
    <3>2. Asking' \in SUBSET Asking
      BY <2>1, <3>1 DEF HeadersArrive, Asking, JobTypes
    <3> QED
      BY <2>1, <3>2, NoMoreAsking DEF HeadersArrive, sharedVars
  <2>2. CASE KnownModel(j)
    <3>1. Asking' \in SUBSET Asking
      BY <2>2 DEF KnownModel, Asking
    <3> QED
      BY <2>2, <3>1, NoMoreAsking DEF KnownModel, sharedVars
  <2> QED
    BY <1>4, <2>1, <2>2
<1>5. ASSUME NEW j \in Planners, AskCandidates(j)
      PROVE  MemoryBounded'
  <2>1. Asking' \in SUBSET Asking
    BY <1>5 DEF AskCandidates, Send, Asking, JobTypes
  <2> QED
    BY <1>5, <2>1, NoMoreAsking DEF AskCandidates, sharedVars
<1>6. ASSUME NEW j \in Planners, CandidatesJudged(j) \/ CandidatesUnjudged(j)
      PROVE  MemoryBounded'
  <2>1. PICK order, by : Settle(j, order, by)
    BY <1>6 DEF CandidatesJudged, CandidatesUnjudged
  <2>2. Asking' \in SUBSET Asking
    BY <2>1 DEF Settle, Asking, JobTypes
  <2> QED
    BY <2>1, <2>2, NoMoreAsking DEF Settle, sharedVars
<1>7. ASSUME NEW j \in Planners, ModelJudged(j) \/ ModelUnjudged(j),
             Succeeds(j) \/ Breaks(j) \/ TimesOut(j)
      PROVE  MemoryBounded'
  <2>1. call[j] # NoCall
    BY <1>7 DEF Succeeds, Breaks, TimesOut, NoCall
  <2> QED
    BY <1>7, <2>1, ToldBounded
<1>8. ASSUME NEW j \in Planners, AskModel(j) \/ CachedModel(j)
      PROVE  MemoryBounded'
  BY <1>8, AskBounded, FoundBounded
<1> QED
  BY <1>1, <1>2, <1>3, <1>4, <1>5, <1>6, <1>7, <1>8
     DEF PlanNext, Answered, GivenUp, JevFails, TimerFires

-----------------------------------------------------------------------------
(* The theorems. *)

PlanInv == SharedTypes /\ JobTypes /\ RouteSound /\ MemoryBounded

\* The inductive invariant holds in the beginning,
LEMMA PlanInitInv == PlanInit => PlanInv
<1> SUFFICES ASSUME PlanInit PROVE PlanInv
  OBVIOUS
<1>1. SharedTypes /\ JobTypes
  BY InitTypes
<1>2. RouteSound
  BY DEF PlanInit, RouteSound, RouteSoundAt
<1>3. MemoryBounded
  <2>1. Remembered = {} /\ Asking = {}
    BY DEF PlanInit, Remembered, Asking
  <2>2. Cardinality({}) = 0
    BY FS_EmptySet
  <2>3. ModelMemory \in Nat /\ Cardinality(Planners) \in Nat
    BY RoutePlanAssumption, Counting
  <2> QED
    BY <2>1, <2>2, <2>3 DEF MemoryBounded
<1> QED
  BY <1>1, <1>2, <1>3 DEF PlanInv

\* and every step keeps it.
LEMMA PlanStepInv == PlanInv /\ [PlanNext]_planVars => PlanInv'
<1> SUFFICES ASSUME PlanInv, [PlanNext]_planVars PROVE PlanInv'
  OBVIOUS
<1> USE DEF PlanInv
<1>1. CASE PlanNext
  BY <1>1, StepTypes, RouteStep, MemoryStep
<1>2. CASE UNCHANGED planVars
  <2>1. SharedTypes' /\ JobTypes'
    BY <1>2 DEF planVars, sharedVars, jobVars, SharedTypes, JobTypes
  <2>2. RouteSound'
    BY <1>2, RouteUntouched DEF planVars, jobVars, RouteSound, RouteOf
  <2>3. MemoryBounded'
    BY <1>2, NoMoreAsking DEF planVars, sharedVars, jobVars, Asking
  <2> QED
    BY <2>1, <2>2, <2>3
<1> QED
  BY <1>1, <1>2

\* In every reachable state each variable of the planning has its type, the service keeps
\* no more evaluations than its cache has room for, and the adapter's memory, which is only
\* cleared when a further model comes up, outgrows its threshold by one evaluation for
\* every job that is planned at the same time, and by no more.
THEOREM PlanTyped == RoutePlanSpec => []PlanTypeOK
<1>1. PlanInv => PlanTypeOK
  <2> SUFFICES ASSUME PlanInv PROVE PlanTypeOK
    OBVIOUS
  <2>1. SharedTypes /\ JobTypes /\ MemoryBounded
    BY DEF PlanInv
  <2>2. \A m \in Models : \A k \in DOMAIN quotaRows[m] : quotaRows[m][k] \in Observation
    BY <2>1 DEF SharedTypes
  <2>3. \A i \in DOMAIN Registry : cache[i].quota \in Observation \cup {NoQuota}
    BY <2>1 DEF SharedTypes, Quota
  <2>4. \A k \in DOMAIN evalCache : evalCache[k] \in Eval
    BY <2>1 DEF SharedTypes
  <2>5. Cardinality(Remembered) <= ModelMemory + Cardinality(Planners)
    <3>1. /\ Cardinality(Remembered) \in Nat /\ Cardinality(Asking) \in Nat
          /\ Cardinality(Planners) \in Nat
      BY Counting, SetsCounted
    <3>2. ModelMemory \in Nat
      BY RoutePlanAssumption
    <3> QED
      BY <2>1, <3>1, <3>2 DEF MemoryBounded
  <2>6. /\ now \in 0 .. MaxTime /\ setup \in Setups /\ Len(evalCache) <= EvalMemory
    BY <2>1 DEF SharedTypes
  <2> QED
    BY <2>1, <2>2, <2>3, <2>4, <2>5, <2>6 DEF PlanTypeOK, JobTypes
<1> QED
  BY <1>1, PlanInitInv, PlanStepInv, PTL DEF RoutePlanSpec

\* Whatever the probes report, whatever Jev answers, fails to answer or answers too late,
\* for every configuration and any number of jobs planned at the same time: a plan is
\* the candidates that passed the filter, each once, in the rules' order unless Jev
\* decided in active mode, and what is launched comes from it, each at most once.
THEOREM PlansAreSound == RoutePlanSpec => []PlanSound
<1>1. PlanInv => PlanSound
  <2> SUFFICES ASSUME PlanInv, NEW j \in Planners, stage[j] = "ready"
               PROVE  /\ PlanOf(j) /\ IsInjective(launched[j])
                      /\ ToSet(launched[j]) \subseteq ToSet(pool[j])
    BY DEF PlanSound, PlanOf
  <2>1. PlanOf(j) /\ LaunchedFrom(j)
    BY DEF PlanInv, RouteSound, RouteSoundAt
  <2>2. ToSet(launched[j]) \subseteq ToSet(plan[j])
    BY <2>1 DEF LaunchedFrom, ToSet
  <2> QED
    BY <2>1, <2>2 DEF PlanOf, LaunchedFrom
<1> QED
  BY <1>1, PlanInitInv, PlanStepInv, PTL DEF RoutePlanSpec

-----------------------------------------------------------------------------
(* Planning moves on, and nothing it waits for is without a timer. *)

\* A request to Jev that is under way has the timer that ends it, and the one for the
\* headers until they are there; no timer outlives its request; and the judgment of the
\* candidates is never awaited without a request (JevClient.systemOne).
RequestTimed ==
  \A j \in Planners :
    /\ call[j].phase # "none" <=> call[j].totalTimer
    /\ call[j].phase = "headers" <=> call[j].callTimer
    /\ stage[j] = "candidates" => call[j].phase # "none"

\* Where the planning of a job stands: its stage and, within it, how far it came.
StageRank == [queued |-> 0, probing |-> 1, probe |-> 1, probed |-> 1, task |-> 2, models |-> 3,
              candidates |-> 4, ready |-> 5, done |-> 6]
Waited == [queued |-> 0, probing |-> 0, probe |-> 1, probed |-> 2, task |-> 0, models |-> 0,
           candidates |-> 0, ready |-> 0, done |-> 0]
Heard == [none |-> 0, headers |-> 1, body |-> 2]
StageNo(j) == StageRank[stage[j]]
Within(j) == 3 * next[j] + Waited[stage[j]] + Heard[call[j].phase]

\* No further than the end of what the stage goes through.
InReach(j) ==
  /\ stage[j] \in {"queued", "task", "done"} => next[j] = 1
  /\ stage[j] = "probing" => next[j] \in 1 .. Len(Registry) + 1
  /\ stage[j] \in {"probe", "probed"} => next[j] \in DOMAIN Registry
  /\ stage[j] \in {"models", "candidates"} => next[j] \in 1 .. Len(pool[j]) + 1
  /\ stage[j] = "ready" => next[j] \in 1 .. Len(plan[j]) + 1
PlanningInReach == \A j \in Planners : InReach(j)

Stood(j) == <<stage[j], next[j], call[j]>>' = <<stage[j], next[j], call[j]>>
WentOn(j) ==
  \/ StageNo(j)' > StageNo(j)
  \/ StageNo(j)' = StageNo(j) /\ Within(j)' > Within(j)

\* Every step of the planning of a job takes it to a later stage or further within its
\* stage, and the steps of the others leave it where it is: no plugin is probed, no model
\* evaluated and no candidate tried twice for a job, whatever fails or times out.
PlanningMovesOn == [][\A j \in Planners : Stood(j) \/ WentOn(j)]_planVars

LEMMA RegistryLen == Len(Registry) \in Nat /\ DOMAIN Registry = 1 .. Len(Registry)
BY RoutePlanAssumption, LenProperties

LEMMA CallTypes ==
  ASSUME JobTypes, NEW j \in Planners
  PROVE  /\ call[j].phase \in {"none", "headers", "body"}
         /\ call[j].callTimer \in BOOLEAN /\ call[j].totalTimer \in BOOLEAN
         /\ Heard[call[j].phase] \in 0 .. 2
         /\ next[j] \in Nat /\ Len(pool[j]) \in Nat /\ Len(plan[j]) \in Nat
         /\ DOMAIN pool[j] = 1 .. Len(pool[j]) /\ DOMAIN plan[j] = 1 .. Len(plan[j])
<1>1. call[j].phase \in {"none", "headers", "body"}
  BY DEF JobTypes
<1>2. Heard[call[j].phase] \in 0 .. 2
  BY <1>1 DEF Heard
<1>3. pool[j] \in Seq(Models) /\ plan[j] \in Seq(Models)
  BY DEF JobTypes
<1>4. QED
  BY <1>1, <1>2, <1>3, LenProperties DEF JobTypes

TimedAt(j) ==
  /\ call[j].phase # "none" <=> call[j].totalTimer
  /\ call[j].phase = "headers" <=> call[j].callTimer
  /\ stage[j] = "candidates" => call[j].phase # "none"

\* However the order comes about, the plan is ready then.
LEMMA OrderSettles ==
  ASSUME JobTypes, JobTypes', NEW j \in Planners, CandidatesJudged(j) \/ CandidatesUnjudged(j)
  PROVE  /\ stage[j] = "candidates" /\ stage'[j] = "ready" /\ next'[j] = 1
         /\ call'[j] = NoCall /\ Len(plan'[j]) \in Nat
<1>1. PICK order, by : Settle(j, order, by)
  BY DEF CandidatesJudged, CandidatesUnjudged
<1>2. plan'[j] \in Seq(Models)
  BY DEF JobTypes
<1>3. QED
  BY <1>1, <1>2, LenProperties DEF Settle, JobTypes

LEMMA TimedStep ==
  ASSUME JobTypes, JobTypes', NEW j \in Planners, TimedAt(j), JobStep(j), RouteSoundAt(j)
  PROVE  TimedAt(j)'
<1> USE DEF JobTypes
<1>1. CASE Begin(j) \/ SkipPlugin(j) \/ ProbeStarts(j) \/ ProbeAnswers(j) \/ ProbeFails(j)
  BY <1>1 DEF Begin, SkipPlugin, ProbeStarts, ProbeAnswers, ProbeFails, TimedAt
<1>2. CASE ProbeCached(j) \/ HostStopped(j)
  BY <1>2 DEF ProbeCached, HostStopped, Merge, TimedAt
<1>3. CASE Plan(j)
  BY <1>3 DEF Plan, TimedAt
<1>4. CASE TaskJudged(j) \/ KnownModel(j) \/ CachedModel(j)
  BY <1>4 DEF TaskJudged, KnownModel, CachedModel, TakeEval, TimedAt
<1>5. CASE AskModel(j) \/ AskCandidates(j)
  BY <1>5 DEF AskModel, AskCandidates, Send, NewCall, TimedAt
<1>10. CASE HeadersArrive(j)
  <2>1. /\ call[j].phase = "headers" /\ call[j].totalTimer = TRUE
        /\ stage' = stage /\ call' = [call EXCEPT ![j] = InBody(@)]
    BY <1>10, CallTypes DEF HeadersArrive, TimedAt
  <2>2. /\ call'[j].phase = "body" /\ call'[j].totalTimer = TRUE /\ call'[j].callTimer = FALSE
    BY <2>1 DEF InBody
  <2>3. QED
    BY <2>1, <2>2 DEF TimedAt
<1>6. CASE ModelJudged(j) \/ ModelUnjudged(j)
  BY <1>6 DEF ModelJudged, ModelUnjudged, NoCall, TimedAt, Judging
<1>7. CASE CandidatesJudged(j) \/ CandidatesUnjudged(j)
  BY <1>7, OrderSettles DEF NoCall, TimedAt
<1>8. CASE Launch(j) \/ PlanEnd(j)
  BY <1>8 DEF Launch, PlanEnd, TimedAt
<1>9. QED
  BY <1>1, <1>2, <1>3, <1>4, <1>5, <1>6, <1>7, <1>8, <1>10
     DEF JobStep, Answered, GivenUp, JevFails, TimerFires

LEMMA ReachStep ==
  ASSUME JobTypes, JobTypes', NEW j \in Planners, InReach(j), JobStep(j)
  PROVE  InReach(j)'
<1> USE DEF JobTypes
<1>0. /\ Len(Registry) \in Nat /\ DOMAIN Registry = 1 .. Len(Registry)
      /\ next[j] \in Nat /\ Len(pool[j]) \in Nat /\ Len(plan[j]) \in Nat
      /\ DOMAIN pool[j] = 1 .. Len(pool[j]) /\ DOMAIN plan[j] = 1 .. Len(plan[j])
  BY RegistryLen, CallTypes
<1>1. CASE Begin(j) \/ SkipPlugin(j) \/ ProbeStarts(j) \/ ProbeAnswers(j) \/ ProbeFails(j)
  <2>1. CASE Begin(j)
    BY <1>0, <2>1 DEF Begin, InReach
  <2>2. CASE SkipPlugin(j)
    BY <1>0, <2>2 DEF SkipPlugin, Probing, InReach
  <2>3. CASE ProbeStarts(j)
    BY <1>0, <2>3 DEF ProbeStarts, Probing, InReach
  <2>4. CASE ProbeAnswers(j) \/ ProbeFails(j)
    <3>1. stage[j] = "probe" /\ stage'[j] = "probed" /\ next' = next
      BY <2>4 DEF ProbeAnswers, ProbeFails
    <3>2. QED
      BY <3>1 DEF InReach
  <2>5. QED
    BY <1>1, <2>1, <2>2, <2>3, <2>4
<1>2. CASE ProbeCached(j) \/ HostStopped(j)
  BY <1>0, <1>2 DEF ProbeCached, HostStopped, Merge, Probing, InReach
<1>3. ASSUME NEW seq, Len(seq) \in Nat PROVE 1 \in 1 .. Len(seq) + 1
  BY <1>3
<1>4. CASE Plan(j)
  BY <1>4 DEF Plan, InReach
<1>5. CASE TaskJudged(j)
  BY <1>0, <1>5 DEF TaskJudged, InReach
<1>11. CASE KnownModel(j) \/ CachedModel(j)
  <2>1. /\ next' = [next EXCEPT ![j] = @ + 1] /\ UNCHANGED <<stage, pool>>
        /\ stage[j] = "models" /\ next[j] \in DOMAIN pool[j]
    BY <1>11 DEF KnownModel, CachedModel, TakeEval, Judging
  <2>2. QED
    BY <1>0, <2>1 DEF InReach
<1>6. CASE AskModel(j) \/ AskCandidates(j) \/ HeadersArrive(j)
  BY <1>0, <1>6 DEF AskModel, AskCandidates, HeadersArrive, Send, Judging, InReach
<1>7. CASE ModelJudged(j) \/ ModelUnjudged(j)
  <2>1. /\ next' = [next EXCEPT ![j] = @ + 1] /\ UNCHANGED <<stage, pool>>
        /\ stage[j] = "models" /\ next[j] \in DOMAIN pool[j]
    BY <1>7 DEF ModelJudged, ModelUnjudged, TakeEval, Judging
  <2>2. QED
    BY <1>0, <2>1 DEF InReach
<1>8. CASE CandidatesJudged(j) \/ CandidatesUnjudged(j)
  <2> HIDE DEF JobTypes
  <2>1. stage'[j] = "ready" /\ next'[j] = 1 /\ Len(plan'[j]) \in Nat
    BY <1>8, OrderSettles
  <2>2. QED
    BY <2>1 DEF InReach
<1>9. CASE Launch(j) \/ PlanEnd(j)
  BY <1>0, <1>9 DEF Launch, PlanEnd, InReach
<1>10. QED
  BY <1>1, <1>2, <1>4, <1>5, <1>6, <1>7, <1>8, <1>9, <1>11
     DEF JobStep, Answered, GivenUp, JevFails, TimerFires

LEMMA MovesStep ==
  ASSUME JobTypes, JobTypes', NEW j \in Planners, JobStep(j)
  PROVE  Stood(j) \/ WentOn(j)
<1> USE DEF JobTypes
<1>0. next[j] \in Nat /\ Heard[call[j].phase] \in 0 .. 2
  BY CallTypes
<1>1. CASE Begin(j) \/ SkipPlugin(j)
  BY <1>0, <1>1 DEF Begin, SkipPlugin, Probing, WentOn, StageNo, StageRank, Within, Waited
<1>10. CASE ProbeStarts(j) \/ ProbeAnswers(j) \/ ProbeFails(j)
  <2>1. /\ UNCHANGED <<next, call>>
        /\ \/ stage[j] = "probing" /\ stage'[j] = "probe"
           \/ stage[j] = "probe" /\ stage'[j] = "probed"
    BY <1>10 DEF ProbeStarts, ProbeAnswers, ProbeFails, Probing
  <2>2. QED
    BY <1>0, <2>1 DEF WentOn, StageNo, StageRank, Within, Waited
<1>2. CASE ProbeCached(j) \/ HostStopped(j)
  BY <1>0, <1>2 DEF ProbeCached, HostStopped, Merge, Probing, WentOn, StageNo, StageRank, Within, Waited
<1>3. CASE Plan(j) \/ TaskJudged(j) \/ AskCandidates(j) \/ PlanEnd(j)
  BY <1>3 DEF Plan, TaskJudged, AskCandidates, PlanEnd, WentOn, StageNo, StageRank
<1>4. CASE KnownModel(j) \/ CachedModel(j)
  <2>1. next'[j] = next[j] + 1 /\ UNCHANGED <<stage, call>>
    BY <1>4 DEF KnownModel, CachedModel, TakeEval
  <2>2. Waited[stage[j]] \in Int
    BY DEF Waited
  <2> HIDE DEF JobTypes
  <2>3. QED
    BY <1>0, <2>1, <2>2 DEF WentOn, StageNo, Within
<1>5. CASE AskModel(j) \/ HeadersArrive(j)
  <2>1. /\ UNCHANGED <<stage, next>>
        /\ \/ call[j].phase = "none" /\ call'[j].phase = "headers"
           \/ call[j].phase = "headers" /\ call'[j].phase = "body"
    <3>1. CASE AskModel(j)
      BY <3>1 DEF AskModel, Send, NewCall, NoCall
    <3>2. CASE HeadersArrive(j)
      BY <3>2 DEF HeadersArrive, InBody
    <3>3. QED
      BY <1>5, <3>1, <3>2
  <2>2. Waited[stage[j]] \in Int
    BY DEF Waited
  <2>3. QED
    BY <1>0, <2>1, <2>2 DEF Heard, WentOn, StageNo, Within
<1>6. CASE ModelJudged(j) \/ ModelUnjudged(j)
  <2>1. /\ next' = [next EXCEPT ![j] = @ + 1] /\ stage' = stage
        /\ call' = [call EXCEPT ![j] = NoCall]
    BY <1>6 DEF ModelJudged, ModelUnjudged, TakeEval
  <2>2. Heard[call'[j].phase] = 0
    BY <2>1 DEF NoCall, Heard
  <2>3. Waited[stage[j]] \in Int
    BY DEF Waited
  <2>4. QED
    BY <1>0, <2>1, <2>2, <2>3 DEF WentOn, StageNo, Within
<1>7. CASE CandidatesJudged(j) \/ CandidatesUnjudged(j)
  <2> HIDE DEF JobTypes
  <2>1. stage[j] = "candidates" /\ stage'[j] = "ready"
    BY <1>7, OrderSettles
  <2>2. QED
    BY <2>1 DEF WentOn, StageNo, StageRank
<1>8. CASE Launch(j)
  BY <1>0, <1>8 DEF Launch, WentOn, StageNo, Within, Waited
<1>9. QED
  BY <1>1, <1>2, <1>3, <1>4, <1>5, <1>6, <1>7, <1>8, <1>10
     DEF JobStep, Answered, GivenUp, JevFails, TimerFires

\* What a step that leaves a job's route alone leaves true of it.
LEMMA StandsStill ==
  ASSUME NEW n \in Planners, RouteOf(n)' = RouteOf(n)
  PROVE  /\ Stood(n)
         /\ TimedAt(n) => TimedAt(n)'
         /\ InReach(n) => InReach(n)'
BY DEF RouteOf, Stood, TimedAt, InReach

LEMMA OnItsWay ==
  ASSUME PlanInv, PlanInv', RequestTimed, PlanningInReach, [PlanNext]_planVars
  PROVE  RequestTimed' /\ PlanningInReach' /\ \A j \in Planners : Stood(j) \/ WentOn(j)
<1>1. JobTypes /\ RouteSound /\ JobTypes'
  BY DEF PlanInv
<1>2. CASE \E j \in Planners : JobStep(j)
  <2>1. PICK j \in Planners : JobStep(j)
    BY <1>2
  <2>2. TimedAt(j)' /\ InReach(j)' /\ (Stood(j) \/ WentOn(j))
    BY <1>1, <2>1, TimedStep, ReachStep, MovesStep
       DEF RouteSound, RequestTimed, TimedAt, PlanningInReach
  <2>3. \A n \in Planners : n # j => TimedAt(n)' /\ InReach(n)' /\ Stood(n)
    BY <1>1, <2>1, OthersUntouched, StandsStill DEF RequestTimed, TimedAt, PlanningInReach
  <2>4. QED
    BY <2>2, <2>3 DEF RequestTimed, TimedAt, PlanningInReach
<1>3. CASE Tick \/ UNCHANGED planVars
  <2>1. \A n \in Planners : RouteOf(n)' = RouteOf(n)
    BY <1>3 DEF Tick, RouteOf, planVars, jobVars
  <2>2. QED
    BY <2>1, StandsStill DEF RequestTimed, TimedAt, PlanningInReach
<1>4. QED
  BY <1>2, <1>3 DEF PlanNext, JobStep

LEMMA OnItsWayInit == PlanInit => RequestTimed /\ PlanningInReach
BY RegistryLen DEF PlanInit, NoCall, RequestTimed, PlanningInReach, InReach

\* Jev may fall silent at any byte: whatever the planning of a job awaits of it, a timer
\* that ends the wait is armed, and none fires for a request that is over.
THEOREM RequestsTimed == RoutePlanSpec => []RequestTimed
<1>1. PlanInv /\ PlanInv' /\ RequestTimed /\ PlanningInReach /\ [PlanNext]_planVars
        => (RequestTimed /\ PlanningInReach)'
  BY OnItsWay
<1>2. QED
  BY <1>1, OnItsWayInit, PlanInitInv, PlanStepInv, PTL DEF RoutePlanSpec

\* Planning cannot go round in circles: each of its steps leads on, along stages and lists
\* that end.  With RequestsTimed it is the part of PlanEnds that does not rest on fairness.
THEOREM PlanningEnds == RoutePlanSpec => []PlanningInReach /\ PlanningMovesOn
<1>1. PlanInv /\ PlanInv' /\ RequestTimed /\ PlanningInReach /\ [PlanNext]_planVars
        => /\ (RequestTimed /\ PlanningInReach)'
           /\ [\A j \in Planners : Stood(j) \/ WentOn(j)]_planVars
  BY OnItsWay
<1>2. QED
  BY <1>1, OnItsWayInit, PlanInitInv, PlanStepInv, PTL DEF RoutePlanSpec, PlanningMovesOn
=============================================================================
