----------------------------- MODULE RoutePlan -----------------------------
(***************************************************************************)
(* From a job to the order its candidates are tried in: probes and their   *)
(* cache, quota observations, the hard filter, the rule ranking and the    *)
(* Jev decision adapter, up to the check made at each launch.              *)
(*                                                                         *)
(*   src/src/runtime/runtime.ts        probeAll, launch revalidation       *)
(*   src/src/router-core/router.ts     RuleBasedAdapter, Router.plan       *)
(*   src/src/decisions/jev-adapter.ts  JevDecisionAdapter                  *)
(*   src/src/decisions/jev.ts          JevClient, JevDecisionService,      *)
(*                                     rankCandidates, DecisionCoordinator *)
(*                                                                         *)
(* Profile, execution mode and effort are the same for all the candidates, *)
(* so that a candidate is a model of a plugin.  No latency is ever         *)
(* recorded (recordCandidateObservation is called without latency_ms): the *)
(* latency bound never rejects and its weight is the same for everybody.   *)
(* Manifests declare every capability, so that intersectCaps is what the   *)
(* probe says; the ones the filter asks for are one value.                 *)
(*                                                                         *)
(* A definition whose comment describes a defect is a faulty variant of    *)
(* the one below it, used to confirm that a property can fail.             *)
(***************************************************************************)
EXTENDS Integers, FiniteSets, Sequences, SequencesExt

CONSTANTS
  Planners,     \* jobs being planned, each once
  Registry,     \* worker plugins in the registry's order
  Models,
  Catalog,      \* model -> [plugin, roles, explicit, billing, cost, ident]
  Request,      \* what a job and its policy ask for
  Setups,       \* configurations: <<decision mode, there is a Jev key>>
  ProbeResults, \* what a probe may report: <<capabilities, quota status>>
  Fits,         \* fitness Jev may give, in percent
  ProbeTtl,     \* PROBE_TTL_MS
  JudgeLimit,   \* candidates judgeCandidates looks at
  ModelMemory,  \* modelEvals is cleared when it holds more
  EvalMemory,   \* evalCacheSize
  MaxTime,      \* bound: the clock
  NoQuota, AnyModel, Unknown, Unasked

VARIABLES
  now,
  setup,       \* the configuration the daemon was started with
  cache,       \* probeCache
  quotaRows,   \* quota_observations of a model, in the order of their ids
  modelEvals,  \* of the adapter, by model and catalog fingerprint
  evalCache,   \* of the service, oldest first
  stage,       \* what the planning of a job awaits
  next,        \* position in the registry, in the candidates or in the plan
  probe,       \* the probe under way: when it started, what it brought
  caps, view,  \* capsMap and quotaMap
  pool,        \* candidates that passed the hard filter
  evidence,    \* evidences, and the models whose quota is known
  call,        \* request to Jev under way
  via,         \* adapter_used: "rules" or "jev"
  plan,        \* ordered
  launched

sharedVars == <<cache, quotaRows, modelEvals, evalCache>>
jobVars    == <<stage, next, probe, caps, view, pool, evidence, call, via, plan, launched>>
planVars   == <<now, setup, sharedVars, jobVars>>

\* Plugins are registered once, and a candidate id names one candidate.  Where a cost
\* is known it is not negative; the caches have room for one entry at least.
ASSUME RoutePlanAssumption ==
  /\ IsFiniteSet(Planners) /\ IsFiniteSet(Models)
  /\ Registry \in Seq(ToSet(Registry)) /\ IsInjective(Registry)
  /\ \A m \in Models : /\ Catalog[m].ident \in Nat
                       /\ Catalog[m].cost \in Nat \cup {Unknown}
  /\ \A m, n \in Models : Catalog[m].ident = Catalog[n].ident => m = n
  /\ \A j \in Planners : \A a \in DOMAIN Request[j].aliases :
       Request[j].aliases[a] \in Seq(ToSet(Request[j].aliases[a]))
  /\ Setups \subseteq {"off", "shadow", "active"} \X BOOLEAN
  /\ Fits \subseteq Int /\ Unasked \notin Fits \cup {Unknown}
  /\ ProbeTtl \in Nat /\ ModelMemory \in Nat /\ EvalMemory \in Nat \ {0} /\ MaxTime \in Nat

NoCall == [phase |-> "none", callTimer |-> FALSE, totalTimer |-> FALSE]
NoProbe == [since |-> 0, caps |-> "unknown", quota |-> NoQuota]
Never  == [at |-> 0 - ProbeTtl, caps |-> "unknown", quota |-> NoQuota]
NoCaps == [i \in DOMAIN Registry |-> "unknown"]
NoView == [m \in Models |-> NoQuota]
NoEvidence == [m \in Models |-> [fit |-> Unknown, known |-> FALSE]]

PlanInit ==
  /\ now = 0 /\ setup \in Setups
  /\ cache = [i \in DOMAIN Registry |-> Never]
  /\ quotaRows = [m \in Models |-> <<>>]
  /\ modelEvals = [m \in Models |-> Unasked]
  /\ evalCache = <<>>
  /\ stage = [j \in Planners |-> "queued"]
  /\ next = [j \in Planners |-> 1]
  /\ probe = [j \in Planners |-> NoProbe]
  /\ caps = [j \in Planners |-> NoCaps]
  /\ view = [j \in Planners |-> NoView]
  /\ pool = [j \in Planners |-> <<>>]
  /\ evidence = [j \in Planners |-> NoEvidence]
  /\ call = [j \in Planners |-> NoCall]
  /\ via = [j \in Planners |-> "rules"]
  /\ plan = [j \in Planners |-> <<>>]
  /\ launched = [j \in Planners |-> <<>>]

-----------------------------------------------------------------------------
(* Probing, one plugin after the other: probeAll. *)

Offered(i) == {m \in Models : Catalog[m].plugin = Registry[i]}
Newer(p, q) == p # NoQuota /\ (q = NoQuota \/ p.at > q.at)

\* The row latestQuota reads: the last one written.
LatestQuota(m) == IF quotaRows[m] = <<>> THEN NoQuota ELSE Last(quotaRows[m])

\* What probeAll does with the capabilities and the quota of one plugin, be they
\* cached or just probed: the newer of the quota and the stored row goes to the map,
\* and the quota is stored once more.
Merge(j, c, quota) ==
  LET i == next[j] IN
  /\ stage' = [stage EXCEPT ![j] = "probing"]
  /\ caps' = [caps EXCEPT ![j][i] = c]
  /\ view' = [view EXCEPT ![j] = [m \in Models |->
       IF m \notin Offered(i) THEN @[m]
       ELSE IF Newer(LatestQuota(m), quota) THEN LatestQuota(m) ELSE quota]]
  /\ quotaRows' = [m \in Models |->
       IF m \in Offered(i) /\ quota # NoQuota THEN Append(quotaRows[m], quota)
       ELSE quotaRows[m]]
  /\ next' = [next EXCEPT ![j] = i + 1]
  /\ probe' = [probe EXCEPT ![j] = NoProbe]
  /\ UNCHANGED <<now, setup, cache, modelEvals, evalCache, pool, evidence, call, via,
                 plan, launched>>

Begin(j) ==
  /\ stage[j] = "queued"
  /\ stage' = [stage EXCEPT ![j] = "probing"]
  /\ UNCHANGED <<now, setup, sharedVars, next, probe, caps, view, pool, evidence, call,
                 via, plan, launched>>

Probing(j) == stage[j] = "probing" /\ next[j] \in DOMAIN Registry
MayUse(j, i) == Registry[i] \in Request[j].allowed
CacheHit(i) == now - cache[i].at < ProbeTtl

SkipPlugin(j) ==
  /\ Probing(j) /\ ~MayUse(j, next[j])
  /\ next' = [next EXCEPT ![j] = @ + 1]
  /\ UNCHANGED <<now, setup, sharedVars, stage, probe, caps, view, pool, evidence, call,
                 via, plan, launched>>

ProbeCached(j) ==
  /\ Probing(j) /\ MayUse(j, next[j]) /\ CacheHit(next[j])
  /\ Merge(j, cache[next[j]].caps, cache[next[j]].quota)

ProbeStarts(j) ==
  /\ Probing(j) /\ MayUse(j, next[j]) /\ ~CacheHit(next[j])
  /\ stage' = [stage EXCEPT ![j] = "probe"]
  /\ probe' = [probe EXCEPT ![j].since = now]
  /\ UNCHANGED <<now, setup, sharedVars, next, caps, view, pool, evidence, call, via,
                 plan, launched>>

\* The plugin observed its quota at some moment since it was asked; what the probe of
\* another job put into the cache meanwhile is replaced.  The host is then stopped.
ProbeAnswers(j) ==
  /\ stage[j] = "probe"
  /\ \E r \in ProbeResults, t \in probe[j].since .. now :
       LET quota == IF r[2] = NoQuota THEN NoQuota ELSE [status |-> r[2], at |-> t]
       IN /\ probe' = [probe EXCEPT ![j].caps = r[1], ![j].quota = quota]
          /\ cache' = [cache EXCEPT ![next[j]] = [at |-> now, caps |-> r[1], quota |-> quota]]
  /\ stage' = [stage EXCEPT ![j] = "probed"]
  /\ UNCHANGED <<now, setup, quotaRows, modelEvals, evalCache, next, caps, view, pool,
                 evidence, call, via, plan, launched>>

\* Launch or probe fails or times out: nothing is cached, all is unknown.
ProbeFails(j) ==
  /\ stage[j] = "probe"
  /\ stage' = [stage EXCEPT ![j] = "probed"]
  /\ UNCHANGED <<now, setup, sharedVars, next, probe, caps, view, pool, evidence, call,
                 via, plan, launched>>

\* The host has stopped.
HostStopped(j) == stage[j] = "probed" /\ Merge(j, probe[j].caps, probe[j].quota)

-----------------------------------------------------------------------------
(* The hard filter and the rules: Router.plan, RuleBasedAdapter. *)

\* normalizeQuota: an observation that is too old tells nothing.
Normal(q, p) ==
  IF q # NoQuota /\ now - q.at > p.maxStale THEN [q EXCEPT !.status = "unknown"] ELSE q

Known(q)     == q # NoQuota /\ q.status = "known"
Exhausted(q) == q # NoQuota /\ q.status = "exhausted"

QuotaAllows(j, m) ==
  LET q == Normal(view[j][m], Request[j])
  IN ~Exhausted(q) /\ (Request[j].requireKnown => Known(q))

Listed(p) == UNION {ToSet(p.aliases[a]) : a \in DOMAIN p.aliases}

CostAllowed(p, cost) ==
  IF cost = Unknown THEN p.unknownCost /\ p.maxCost = Unknown
  ELSE p.maxCost = Unknown \/ cost <= p.maxCost

Eligible(j, i, m) ==
  LET p == Request[j] IN
  /\ m \in Offered(i) /\ MayUse(j, i)
  /\ p.model \in {AnyModel, m}
  /\ Catalog[m].explicit => p.model = m \/ m \in Listed(p)
  /\ caps[j][i] = "supported"
  /\ p.role \in Catalog[m].roles
  /\ CostAllowed(p, Catalog[m].cost)
  /\ QuotaAllows(j, m)

\* Models by ascending rank and, where it is the same, by candidate id: the k-th is the
\* one that has k - 1 ahead of it.
InOrder(rank) ==
  LET S == DOMAIN rank
      Ahead(m) == {n \in S : \/ rank[n] < rank[m]
                             \/ rank[n] = rank[m] /\ Catalog[n].ident < Catalog[m].ident}
  IN  [k \in 1..Cardinality(S) |-> CHOOSE m \in S : Cardinality(Ahead(m)) = k - 1]

\* In the order of the registry and, in a catalog, of the ids.
Filtered(j) ==
  LET Passing == {m \in Models : \E i \in DOMAIN Registry : Eligible(j, i, m)}
      Place(m) == CHOOSE i \in DOMAIN Registry : m \in Offered(i)
  IN  InOrder([m \in Passing |-> Place(m)])

AliasOrder(p, alias) == IF alias \in DOMAIN p.aliases THEN p.aliases[alias] ELSE <<>>
Position(seq, m) == IF m \in ToSet(seq) THEN CHOOSE k \in DOMAIN seq : seq[k] = m ELSE 51

RuleScore(p, alias, m) ==
  LET c == Catalog[m]
  IN   (IF p.role \in c.roles THEN 100 ELSE 0)
     + 51 - Position(AliasOrder(p, alias), m)
     + (IF c.billing = "free" THEN 10 ELSE IF c.billing = "subscription_included" THEN 5 ELSE 0)
     + (IF c.cost # Unknown /\ c.cost < 5 THEN 5 - c.cost ELSE 0)

\* Highest score first, then by candidate id.
BestFirst(score) == InOrder([m \in DOMAIN score |-> 0 - score[m]])

\* No caller sets effortAlias: the router's own adapter reads aliases[""], the Jev
\* adapter aliases["standard"].
RuleOrder(p, alias, S) == BestFirst([m \in S |-> RuleScore(p, alias, m)])

JevUsed == setup[1] # "off"
Keyed   == JevUsed /\ setup[2]
AliasRead == IF JevUsed THEN "standard" ELSE ""

\* With no adapter configured the rules decide at once.
Plan(j) ==
  /\ stage[j] = "probing" /\ next[j] > Len(Registry)
  /\ pool' = [pool EXCEPT ![j] = Filtered(j)]
  /\ next' = [next EXCEPT ![j] = 1]
  /\ IF Keyed
     THEN stage' = [stage EXCEPT ![j] = "task"] /\ UNCHANGED plan
     ELSE /\ stage' = [stage EXCEPT ![j] = "ready"]
          /\ plan' = [plan EXCEPT ![j] = RuleOrder(Request[j], AliasRead, ToSet(pool'[j]))]
  /\ UNCHANGED <<now, setup, sharedVars, probe, caps, view, evidence, call, via, launched>>

-----------------------------------------------------------------------------
(* A request to Jev: JevClient.systemOne.  Both timers start with it; the one    *)
(* for the headers is cleared when they arrive, the other when it is over.       *)

NewCall == [phase |-> "headers", callTimer |-> TRUE, totalTimer |-> TRUE]

\* The total timer does not outlive the headers.
InBodyUntimed(c) == [phase |-> "body", callTimer |-> FALSE, totalTimer |-> FALSE]

InBody(c) == [c EXCEPT !.phase = "body", !.callTimer = FALSE]

Send(j) == call' = [call EXCEPT ![j] = NewCall]

HeadersArrive(j) ==
  /\ call[j].phase = "headers"
  /\ call' = [call EXCEPT ![j] = InBody(@)]
  /\ UNCHANGED <<now, setup, sharedVars, stage, next, probe, caps, view, pool, evidence,
                 via, plan, launched>>

\* How it may end.  A status that is no success ends it at the headers, a body that
\* is too long, no JSON or not what was asked for in the body; the transport can
\* break at any time and a timer ends it whatever it waits for.
Succeeds(j) == call[j].phase = "body"
Breaks(j)   == call[j].phase # "none"
TimesOut(j) == call[j].callTimer \/ call[j].totalTimer

-----------------------------------------------------------------------------
(* The three judges: JevDecisionAdapter.rank, JevDecisionService. *)

\* A job is planned once, its task therefore judged once.  The judgment only goes
\* into what Jev is asked about the candidates; an answer, a failure and a timeout all
\* lead on.
TaskJudged(j) ==
  /\ stage[j] = "task"
  /\ stage' = [stage EXCEPT ![j] = "models"]
  /\ UNCHANGED <<now, setup, sharedVars, next, probe, caps, view, pool, evidence, call, via,
                 plan, launched>>

Remembered == {m \in Models : modelEvals[m] # Unasked}
Forgotten  == [m \in Models |-> Unasked]

Judging(j) == stage[j] = "models" /\ next[j] \in DOMAIN pool[j]
Judged(j)  == pool[j][next[j]]

\* What a failed evaluation leaves behind: no fitness, and no second try.
TakeEval(j, e) ==
  /\ evidence' = [evidence EXCEPT ![j][Judged(j)].fit = e]
  /\ next' = [next EXCEPT ![j] = @ + 1]

KnownModel(j) ==
  /\ Judging(j) /\ call[j] = NoCall /\ Judged(j) \in Remembered
  /\ TakeEval(j, modelEvals[Judged(j)])
  /\ UNCHANGED <<now, setup, sharedVars, stage, probe, caps, view, pool, call, via, plan,
                 launched>>

Cleared == IF Cardinality(Remembered) > ModelMemory THEN Forgotten ELSE modelEvals
Hits(m) == {k \in DOMAIN evalCache : evalCache[k].model = m}

\* The service still knows a model its adapter has forgotten.
CachedModel(j) ==
  /\ Judging(j) /\ call[j] = NoCall /\ Judged(j) \notin Remembered
  /\ \E k \in Hits(Judged(j)) :
       /\ modelEvals' = [Cleared EXCEPT ![Judged(j)] = evalCache[k].fit]
       /\ evalCache' = Append(RemoveAt(evalCache, k), evalCache[k])
       /\ TakeEval(j, evalCache[k].fit)
  /\ UNCHANGED <<now, setup, cache, quotaRows, stage, probe, caps, view, pool, call, via, plan,
                 launched>>

AskModel(j) ==
  /\ Judging(j) /\ call[j] = NoCall
  /\ Judged(j) \notin Remembered /\ Hits(Judged(j)) = {}
  /\ modelEvals' = Cleared
  /\ Send(j)
  /\ UNCHANGED <<now, setup, cache, quotaRows, evalCache, stage, next, probe, caps, view, pool,
                 evidence, via, plan, launched>>

\* Nothing is evicted.
StoredAll(e) == Append(evalCache, e)

\* The oldest goes when the cache is full, also if the model is in it already because
\* another job asked at the same time.
Stored(e) ==
  LET kept == IF Len(evalCache) >= EvalMemory THEN Tail(evalCache) ELSE evalCache
      Same(k) == kept[k].model = e.model
  IN IF \E k \in DOMAIN kept : Same(k)
     THEN ReplaceAt(kept, CHOOSE k \in DOMAIN kept : Same(k), e)
     ELSE Append(kept, e)

ModelJudged(j) ==
  /\ Judging(j)
  /\ \E fit \in Fits :
       /\ modelEvals' = [modelEvals EXCEPT ![Judged(j)] = fit]
       /\ evalCache' = Stored([model |-> Judged(j), fit |-> fit])
       /\ TakeEval(j, fit)
  /\ call' = [call EXCEPT ![j] = NoCall]
  /\ UNCHANGED <<now, setup, cache, quotaRows, stage, probe, caps, view, pool, via, plan,
                 launched>>

ModelUnjudged(j) ==
  /\ Judging(j)
  /\ modelEvals' = [modelEvals EXCEPT ![Judged(j)] = Unknown]
  /\ TakeEval(j, Unknown)
  /\ call' = [call EXCEPT ![j] = NoCall]
  /\ UNCHANGED <<now, setup, cache, quotaRows, evalCache, stage, probe, caps, view, pool, via,
                 plan, launched>>

\* A request about no candidates at all is refused before it is sent; with nothing
\* to order that makes no difference.  The quota goes with the request as it is now.
AskCandidates(j) ==
  /\ stage[j] = "models" /\ next[j] > Len(pool[j])
  /\ stage' = [stage EXCEPT ![j] = "candidates"]
  /\ evidence' = [evidence EXCEPT ![j] = [m \in Models |->
       [@[m] EXCEPT !.known = Known(Normal(view[j][m], Request[j]))]]]
  /\ Send(j)
  /\ UNCHANGED <<now, setup, sharedVars, next, probe, caps, view, pool, via, plan, launched>>

-----------------------------------------------------------------------------
(* The order: rankCandidates, DecisionCoordinator.decide. *)

\* In units of 1/2000: fit 1.0, cost 0.3, quota 0.4.  fit is what Jev said of the
\* candidates it looked at, else the evaluation of the model, else one half.
RankScore(j, fit, m) ==
  LET cost == Catalog[m].cost
      f    == IF m \in DOMAIN fit THEN fit[m]
              ELSE IF evidence[j][m].fit # Unknown THEN evidence[j][m].fit ELSE 50
  IN   20 * f
     + 6 * (IF cost = Unknown THEN 50 ELSE 100 \div (1 + cost))
     + 8 * (IF evidence[j][m].known THEN 100 ELSE 25)

JevOrder(j, fit) == BestFirst([m \in ToSet(pool[j]) |-> RankScore(j, fit, m)])
RulesOf(j)       == RuleOrder(Request[j], "standard", ToSet(pool[j]))

\* Jev decides in shadow mode too.
DecidedShadowed(j, fit) == [order |-> JevOrder(j, fit), by |-> "jev"]
Decided(j, fit) ==
  IF setup[1] = "active" THEN [order |-> JevOrder(j, fit), by |-> "jev"]
  ELSE [order |-> RulesOf(j), by |-> "rules"]

Settle(j, order, by) ==
  /\ stage[j] = "candidates"
  /\ stage' = [stage EXCEPT ![j] = "ready"]
  /\ next' = [next EXCEPT ![j] = 1]
  /\ call' = [call EXCEPT ![j] = NoCall]
  /\ via' = [via EXCEPT ![j] = by]
  /\ plan' = [plan EXCEPT ![j] = order]
  /\ evidence' = [evidence EXCEPT ![j] = NoEvidence]
  /\ UNCHANGED <<now, setup, sharedVars, probe, caps, view, pool, launched>>

CandidatesJudged(j) ==
  LET seen == {pool[j][k] : k \in {k \in DOMAIN pool[j] : k <= JudgeLimit}}
  IN \E fit \in [seen -> Fits] : Settle(j, Decided(j, fit).order, Decided(j, fit).by)

CandidatesUnjudged(j) == Settle(j, RulesOf(j), "rules")

Answered(j) == Succeeds(j) /\ (ModelJudged(j) \/ CandidatesJudged(j))
GivenUp(j)  == ModelUnjudged(j) \/ CandidatesUnjudged(j)
JevFails(j) == Breaks(j) /\ GivenUp(j)
TimerFires(j) == TimesOut(j) /\ GivenUp(j)

-----------------------------------------------------------------------------
(* Launching along the plan: the start of runAttempt.  The loop itself is in     *)
(* JobRuntime; here an attempt ends it or sends it to the next candidate.        *)

Launch(j) ==
  /\ stage[j] = "ready" /\ next[j] \in DOMAIN plan[j]
  /\ IF QuotaAllows(j, plan[j][next[j]])
     THEN launched' = [launched EXCEPT ![j] = Append(@, plan[j][next[j]])]
     ELSE UNCHANGED launched
  /\ next' = [next EXCEPT ![j] = @ + 1]
  /\ UNCHANGED <<now, setup, sharedVars, stage, probe, caps, view, pool, evidence, call, via,
                 plan>>

\* The loop ends, at the end of the plan or before; what it kept of the job goes with it.
PlanEnd(j) ==
  /\ stage[j] = "ready"
  /\ stage' = [stage EXCEPT ![j] = "done"]
  /\ caps' = [caps EXCEPT ![j] = NoCaps] /\ view' = [view EXCEPT ![j] = NoView]
  /\ pool' = [pool EXCEPT ![j] = <<>>] /\ plan' = [plan EXCEPT ![j] = <<>>]
  /\ next' = [next EXCEPT ![j] = 1] /\ via' = [via EXCEPT ![j] = "rules"]
  /\ launched' = [launched EXCEPT ![j] = <<>>]
  /\ UNCHANGED <<now, setup, sharedVars, probe, evidence, call>>

Tick ==
  /\ now < MaxTime /\ \E j \in Planners : stage[j] # "queued"
  /\ now' = now + 1
  /\ UNCHANGED <<setup, sharedVars, jobVars>>

PlanNext ==
  \/ Tick
  \/ \E j \in Planners :
       \/ Begin(j) \/ SkipPlugin(j) \/ ProbeCached(j) \/ ProbeStarts(j) \/ ProbeAnswers(j)
       \/ ProbeFails(j) \/ HostStopped(j) \/ Plan(j) \/ TaskJudged(j) \/ KnownModel(j)
       \/ CachedModel(j) \/ AskModel(j) \/ AskCandidates(j) \/ HeadersArrive(j)
       \/ Answered(j) \/ JevFails(j) \/ TimerFires(j) \/ Launch(j) \/ PlanEnd(j)

RoutePlanSpec == PlanInit /\ [][PlanNext]_planVars

\* The timer of the request about the candidates fires: whatever the order that leaves
\* behind, a smaller assumption than TimerFires and all that ending a plan takes.
CandidatesTimeOut(j) ==
  /\ TimesOut(j)
  /\ \E order \in [DOMAIN pool[j] -> ToSet(pool[j])] : Settle(j, order, "rules")

\* What the router does by itself, its timers included: a probe is bounded by the
\* handshake and call timeouts of the plugin host.  Nothing is assumed of Jev.
RouterStep ==
  \E j \in Planners :
    \/ SkipPlugin(j) \/ ProbeCached(j) \/ ProbeStarts(j) \/ ProbeFails(j) \/ HostStopped(j)
    \/ Plan(j) \/ TaskJudged(j) \/ KnownModel(j) \/ CachedModel(j) \/ AskModel(j)
    \/ AskCandidates(j) \/ (TimesOut(j) /\ ModelUnjudged(j)) \/ CandidatesTimeOut(j)
    \/ Launch(j) \/ PlanEnd(j)

\* The steps of planning are finitely many, so that nothing of this is left undone.
PlanFairness == WF_planVars(RouterStep)

-----------------------------------------------------------------------------
(* Properties. *)

Observation == [status : {r[2] : r \in ProbeResults} \ {NoQuota}, at : 0 .. MaxTime]
Eval == [model : Models, fit : Fits]

\* Types, and the bounds of the two caches of evaluations.
PlanTypeOK ==
  /\ now \in 0 .. MaxTime /\ setup \in Setups
  /\ \A m \in Models : \A k \in DOMAIN quotaRows[m] : quotaRows[m][k] \in Observation
  /\ \A i \in DOMAIN Registry : cache[i].quota \in Observation \cup {NoQuota}
  /\ \A k \in DOMAIN evalCache : evalCache[k] \in Eval
  /\ Len(evalCache) <= EvalMemory
  /\ Cardinality(Remembered) <= ModelMemory + Cardinality(Planners)
  /\ stage \in [Planners -> {"queued", "probing", "probe", "probed", "task", "models",
                            "candidates", "ready", "done"}]
  /\ call \in [Planners -> [phase : {"none", "headers", "body"}, callTimer : BOOLEAN,
                            totalTimer : BOOLEAN]]
  /\ via \in [Planners -> {"rules", "jev"}]

\* Whatever Jev answers and whenever it fails, the plan is the filtered candidates,
\* each once, and unless Jev decided in active mode they are in the rules' order;
\* nothing is launched that is not in it, and nothing twice (Router.plan: "the adapter
\* only chooses IDs"; DecisionCoordinator: "same hard-filtered rule-based ordering").
PlanSound ==
  \A j \in Planners : stage[j] = "ready" =>
    /\ ToSet(plan[j]) = ToSet(pool[j]) /\ IsInjective(plan[j])
    /\ via[j] = "jev" => setup = <<"active", TRUE>>
    /\ via[j] # "jev" => plan[j] = RuleOrder(Request[j], AliasRead, ToSet(pool[j]))
    /\ ToSet(launched[j]) \subseteq ToSet(pool[j]) /\ IsInjective(launched[j])

\* The planning of a job ends although Jev may stop talking before or after the
\* headers of any answer and a plugin may never answer its probe.
UnderWay == {j \in Planners : stage[j] \notin {"queued", "done"}}
PlanEnds == (UnderWay # {}) ~> (UnderWay = {})

\* The comment of probeAll: "the freshest observation wins so a stale probe never masks
\* a newer recorded state".  What a job is given for a model is as new as every
\* observation recorded for it.
FreshestWins ==
  [][\A j \in Planners, m \in Models :
       view'[j][m] # view[j][m] /\ view'[j][m] # NoQuota =>
         \A k \in DOMAIN quotaRows[m] : ~Newer(quotaRows[m][k], view'[j][m])]_planVars
=============================================================================
