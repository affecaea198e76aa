# Verification of the native agent router

TLA+ modules, TLC configurations and TLAPS proofs about the router in `src/`: a
single Node process that accepts coding jobs over HTTP, chooses a native agent
plugin for each, runs it in a process group of its own, and records everything in
one SQLite database.

Paths below are relative to `src/` (so `src/runtime/runtime.ts` is the file
`src/src/runtime/runtime.ts` of this checkout).

## 1. The system

### Components

| component | state it keeps | operations | correct when |
|---|---|---|---|
| **Job runtime** `runtime/runtime.ts` | `inflight`, `stopping`, `execPromises`, probe cache; per execution `ordered`, `i`, `tried`, `failureSigs`, `lastResult` | `submit`, `execute`, `runAttempt`, `handlePermission`, `cancel`, `shutdown`, `recoverOnStart` | a task runs again only if nothing came of it before; every job settles and stays settled; capacity and workspaces are free exactly when nobody may use them |
| **Store** `storage/store.ts` | tables jobs, attempts, capacity_reservations, workspaces, approvals, events, quota, idempotency_keys, db_owner | one synchronous statement or transaction each | the transition table is obeyed, terminal rows are immutable, pools never overflow, one owner |
| **Router core** `router-core/router.ts` | none | `plan` (filters, ranking, quota normalisation), `classifyFailure` | no rejected candidate is planned; the fallback class follows from effects and retry safety |
| **Plugin host, RPC** `plugin-sdk/` | request table, notification handlers | `launch`, `probe`, `run`, `cancel`, `respondPermission`, `stop` | every call settles once; late or foreign messages change nothing |
| **Process supervision** `process/safe-spawn.ts` | retained process identities | spawn, verified signals, stop, survivors | nothing but a verified group is ever signalled; "dead" is only said of groups that are |
| **Approvals** `approval/broker.ts` | waiters with timers; approvals rows | `request`, `decide`, `waitFor`, invalidate | a decision reaches the run that asked, once, and never becomes more than was decided |
| **HTTP API, daemon** `http/` | `executing`, open SSE streams | admission, idempotency, caps, `kick`, `sse`, serve/stop | one job per idempotency key, no job starts twice, a stream has every event once in order |
| **Native adapters** `native/` | ACP session, prompt, permission selections; agy child | `runDevin`, `runAgy`, permission requests, cancel | the result never claims more than was observed |
| **Redactor** `runtime/redactor.ts` | carry window | `feed`, `flush`, `redactDeep` | no secret leaves in any split |
| **Decision adapter** `decisions/` | none that outlives a call | cascade of JEV evaluations | a missing evaluation never counts as a pass |
| **Client worker** `client/worker.ts` | one call and its key | post, retry, follow | modelled as far as it posts (`Admission`) |
| **Config, registry, bootstrap, plugin mains** | files read at start | parsing, validation | not modelled |

### How they interact

The API handler calls `submit` (workspace lock and job row) and `kick`, which starts
`execute` without awaiting it. `execute` awaits probes and the plan, then for each
candidate `runAttempt`: attempt row, reservation of all pools in one transaction,
`PluginHost.launch`, `run`. While the run is in flight the plugin sends events over the
same pipe; `permission.required` becomes an approval and a waiter that later moves the
job row and answers the plugin. When the run settles, `runAttempt` stops the plugin and
its known children and releases or quarantines the reservation. `cancel`, `shutdown`
and the waiters run between any two awaits of it. A new daemon repairs what the old
one left through `recoverOnStart`.

Node runs a handler from one `await` to the next without interruption and SQLite calls
are synchronous, so a **handler segment is the unit of interleaving**; a crash is
possible between any two statements, since most of them commit on their own.

### What is hard here

Rows, reservations, processes and the memory of the execution are four views of the
same attempt that are updated one after the other; every await lets cancel, waiters,
shutdown or a process exit in; refused row moves are silently ignored by their callers;
processes survive the daemon; and a kill may not be confirmable. `PROJECT.json` lists
the places under "hazards".

## 2. Plan

| # | module | models | state |
|---|---|---|---|
| 1 | `JobStates` | transition table, `classifyFailure`, the verdict of `executeInner` | done |
| 2 | `JobRuntime` | the runtime with rows, processes, crash, restart | done |
| 3 | `JobPromise`, `JobRuntimeRefines` | the abstract job and the refinement mapping | done |
| 4 | `JobRuntimeInv`, `JobRuntimeProofs` | type correctness; capacity, quarantine, recovery, locks, settled jobs | done |
| 5 | `Approvals` | approval rows, broker waiters, decision, expiry, delivery; plugin and agent at the other end | done |
| 6 | `Admission` | POST with idempotency keys, caps, kick, daemon ownership, restart | done |
| 7 | `NativeRun` | one run of an agent: RPC client, plugin, ACP session or agy stream, cancel, stop | done |
| 8 | `RoutePlan` | probes and their cache, quota rows, hard filter, ranking, Jev adapter with its caches and timers | done |
| 9 | `Redactor` | streaming redaction of text cut anywhere | done |
| 10 | `EventStream` | event rows of a job and the SSE streams that show them | done |
| 11 | `MCParts` | small instances of 7 to 10 in one run | done |
| 12 | `JobRuntimeImplements` | relaunch, success, settling; the refinement, for every instance | done |
| 13 | `AdmissionProofs` | every property of `Admission`, for every instance | done |
| 14 | `EventStreamProofs` | what a reader receives, for every instance | done |
| 15 | `ApprovalProofs` | every safety property of `Approvals`, for every instance | done |
| 16 | `NativeRunProofs` | every safety property of `NativeRun`, for every instance | done |
| 17 | `RoutePlanProofs` | the order of candidates; types, bounds and plans, for every instance | done |
| 18 | `RedactorProofs` | that no secret is shown and that cuts lose no text, for every instance and text of any length | done |

`JobRuntime` composes what matters of store, host and supervision. The other modules look
closely at what it leaves open: `Approvals` at its actions `PermissionRequired` and
`WaiterFires`; `NativeRun` at a run between `RunAnswered` and `RunRejected`, and at the
result it takes as given; `RoutePlan` at what comes before `PlanReady`; `EventStream` and
`Redactor` at the events it does not keep; `Admission` at how a job comes into being and
what a daemon is. Abstract specifications: `JobPromise` for the runtime; in `Admission`,
`OneJobPerKey`; in `Redactor`, the text as it comes out in one piece.

## 3. The modules

### JobStates
`Transitions` is the table of `storage/store.ts`; `Moved(from, to)` is what
`transitionJob` and `finishAttempt` do with it: a move it does not list leaves the row
alone. `classifyFailure` is the function of the same name. `Verdict` collects the
decisions `executeInner` takes between two attempts: *succeed*, *cancel*, *recover*,
*next*, *retry*, *handoff*. Results are records with the five fields the decisions read;
of the error code only equality matters (the repeated-failure rule).

### JobRuntime
One variable per column or field that the control depends on (comments in the module
name them), `proc` and `child` for the plugin's and the native CLI's process groups,
and two variables only properties read: `outcome` (what `runAttempt` returned) and
`sent` (which attempts were given their run).

`pc[j]` is the await at which the execution of job `j` is suspended:

| `pc` | in the code |
|---|---|
| `idle` | no execution in this process |
| `plan` | `probeAll`, `router.plan` |
| `launch` | `PluginHost.launch` in `runAttempt` |
| `run` | `host.run`; the job is in `inflight` |
| `stop` | `host.stop` and the stops after it, in the `finally` block |
| `judge`, `loop` | not awaits: between `runAttempt`'s return and the next attempt. No other handler runs (`Quiet`), only a crash is possible |
| `unlock` | not an await either: in `finishJob`, the row is moved and committed, `unlockWorkspace` is not |
| `done` | `executeInner` returned or threw |

Actions are the handler segments between these points: `Submit`, `PlanReady`,
`PlanThrows` (with `kick`'s error path), `LoopEnds`, `RefusedBeforeLaunch`, `NoCapacity`,
`StartLaunch`, `LaunchOk`, `LaunchFails`, `RunAnswered`, `RunRejected`, `StopDone`,
`Judge`, `Unlock`; the handlers that run in between: `PermissionRequired`, `WaiterFires`,
`Cancel`, `CancelReturns`, `CancelKills`, `ChildReported`, `Shutdown`; and the world:
`Crash`, `Restart` (with `recoverOnStart`), `ChildStarts`, `PluginExits`, `ChildExits`,
`DeadlinePasses`.

A process group is `live`, `orphan` (the leader is gone, members are not: it can no
longer be signalled, and it is not dead) or `dead`. Abstractions: a candidate is its
plugin; the profile is one pool; the optional quota pool, which has the same maximum as
the plugin pool, is left out; one native child per attempt; the reasons to refuse an
attempt before launch are one action with the error code as a choice; at most one open
approval per attempt; `recoverOnStart` is one step.

### JobPromise, JobRuntimeRefines
`JobPromise` says what a client is promised about a job: the task is handed to a plugin
only while it is clean, that is, while every earlier dispatch is known to have had no
effects and to be safe to repeat; at most `MaxRuns` times; a settled job never changes.
`JobRuntimeRefines` gives the mapping. The promise had to admit one thing a reader may
not expect: a dispatch for a job that is already cancelled (see the finding).

### Approvals
One run's permission requests between three concurrent processes.

| state | in the code |
|---|---|
| `job`, `approval`, `chosen` | `jobs.status`, `approvals.status`, `approvals.chosen_option` |
| `armed`, `hosted` | promises of `ApprovalBroker.waitFor`, and whether the handler that made one had captured an `inflight` entry |
| `toRouter`, `toPlugin` | `permission.required` events and `respondPermission` calls in the pipe |
| `open`, `polling`, `picked` | `AcpClient.pendingPermissions`, running `decidePermission` loops, `permissionSelections` and `permissionDecisions` |
| `turn`, `anyDenied`, `reported` | the `session/prompt` call, `tools.anyDenied` of `runDevin`, the status it answered |
| `answers`, `denied` | what the agent was sent; only properties read them |

The agent may ask at any time, end its turn, send garbage or exit; the plugin polls for
decisions every 10 ms, gives up after its deadline, or dies; the router records, waits,
answers, ends the run, cancels, crashes and restarts. An option is its id with two
attributes: `Kind`, what the agent says it is, and `Looks`, what the text of the id
resembles, since part of the code decides by the one and part by the other.

Abstractions: the two clocks of an approval (row and timer, 60 s each) are independent,
and a decision, its expiry and the timer may come in any order. Where the code takes the
first fitting option, any fitting one is taken. `delivery_state` and the
acknowledgement of `respondPermission`, which only sets it, are left out: nothing reads
it. JSON-RPC ids are unique, as the protocol demands; one approval row per request
follows from that. The plugin's memory and what it has not read vanish with it.

### Admission
Worker clients, the API handler, and the daemons that take turns on one database.

| state | in the code |
|---|---|
| `owner`, `jobs`, `keys`, `lockedBy` | tables `db_owner`, `jobs`, `idempotency_keys`, `workspaces.locked_by` |
| `proc` | a router process: between the statements of `acquireOwner` (*deleting*, *inserting*), *serving*, *closing* (`api.close`), *stopping* (`runtime.shutdown`) |
| `running` | `executing` of the API: jobs whose loop runs in this process |
| `posts` | requests accepted whose body is still being read |
| `call`, `sends` | what a `worker()` call awaits; its posts, all with one key |
| `midway` | the job for which `finishJob` has moved the row and not yet called `unlockWorkspace` |
| `granted`, `lost`, `raced` | answers that named a job; jobs whose loop ended with its daemon; whether two daemons started at once over the row of a dead one. Only properties read them |

`acquireOwner` is three steps, one per statement, and any number of daemons may be in the
middle of it: it is no transaction, and they may have read the same row. From the moment the body is complete
the handler has no await: `Refuse` and `Accept` are whole handlers, and `Decision` gives
the order of its checks (key, caps, policy, workspace). An execution is four actions
here (`BeginAttempt`, `EndAttempt`, and the two statements of `finishJob`, `Settle` and
`Release`; each commits by itself and a crash may come between), and `Recovered` is what `recoverOnStart`
does to a job. Everything the request is refused for besides caps and workspace is
membership in `Unadmitted`.

### NativeRun
The router's `PluginClient` and `runAttempt`, the plugin process with its two adapters
(`runDevin` over ACP, `runAgy` over a stream of JSON lines), and the agent's process.
`out` and `wire` are the two pipes, read frame by frame; `step` is the await the plugin's
`run` is suspended at; `rpc` and `cancel` are the router's two calls; `handled` and `kids`
are what lets the router tie the agent to the attempt (`run.started` seen while plugin and
agent live, or the snapshot before the stop). `tools`, `degraded`, `heard`, `cancelSent`
and `killedByUs` are the fields the result is computed from in `DevinResult` and
`AgyResult`.

The agent answers, uses tools, ends its turn, writes what cannot be parsed, floods the
line decoder or dies, at any time. An exit may be handled before the output that precedes
it is read, as Node announces 'exit' apart from the end of stdout. Things the model shows
that are not obvious in the code: the plugin stops an agy child whose stream is over its
bound and then calls the run cancelled, unconfirmed, though nobody cancelled it; a cancel before
there is an ACP session stops the agent and the run becomes a safe failure; if the prompt
cannot be written `runAgy` leaves the agent running until the router stops it;
`PluginClient.protocolError` is set and never read. Assumed: an agent runs no tools after
it ended its turn; SIGKILL works; a native plugin ends at once on SIGTERM, since it
installs no handler.

### RoutePlan
Planning of several jobs at once in one daemon. `cache` is `probeCache`, `quotaRows` the
`quota_observations` of each model, `modelEvals` and `evalCache` the two memories of Jev
evaluations (in `JevDecisionAdapter` and in `JevDecisionService`). A job goes through the
stages *probing* (per plugin: cached, or *probe* and *probed*), *task*, *models*,
*candidates*, *ready*; `call` is the request to Jev under way with the two timers of
`systemOne`. `Eligible` is the hard filter, `RuleOrder` the rule ranking, `JevOrder`
that of `rankCandidates`; scores are scaled to integers. `Launch` is the revalidation of
quota at the start of `runAttempt`.

Abstractions: profile, execution mode and effort are the same for all candidates; no
latency, which the runtime never records; manifests declare every capability; observations
with a malformed or future time are left out; the task's judgment only goes into what Jev
is asked, so its own memory is left out.

### Redactor
`DeltaRedactor` as a pure function of its carry: `Feed` and `Flush` are the loops of
`feed` and `flush`, over text made of units: a delimiter, ordinary text, halves of
markers, thirds of one exact secret, with their widths in characters. `RedactFinal` is what
a released piece goes through: `RedactText`, which replaces whatever `Shaped` says lies in a
match of one of the patterns of `decisions/jev.ts`, and then the exact secret. `Shaped` is a
parameter, and the theorems hold for every one; the instance has the pattern
`Bearer\s+\S+`. `InOnePiece` is the text that comes out if nothing was cut.

### EventStream
The event rows of a job, written by its attempts and read by the pump of `sse`: pages of
`SSE_PAGE` rows, a socket that pushes back, lost connections, a daemon that dies and one
that recovers. Rows are never changed, and so a row is its sequence number. A reader may
send no `Last-Event-ID`, that of the last row it got, one the job does not have (a 400), or
any number: numbers are taken as they are, and one beyond the last row gives a stream that
starts there. `Close` is what a shutdown does first, `api.close`: it ends every open
response where it is, rows undelivered or not; the runs go on until the process ends.

### MCParts
`RoutePlan`, `NativeRun`, `Redactor` and `EventStream` share no variable, and in the code
no step of one reads state of another. `MCParts` therefore does not multiply them:
`moving` picks one of them in the initial state and the others stay in theirs. Each is
explored in full.

## 4. Runs

| run | instance | shows |
|---|---|---|
| `one_job` | 1 job, routes of 1 and 3 candidates over 2 plugins, 3 attempts, live approvals, 4 kinds of result | `NoRelaunchAfterEffects`, `SuccessIsHonest`, refinement `PromiseKept`, types |
| `two_jobs` | 2 symmetric jobs on one handle and one plugin, 1 attempt each, `max_concurrency` 2, one crash | `CapacityBound`, `HeldWhileBusy`, `WorkspaceExclusive`, `LockHeld`, `RowsOwned`, `SettledStays` |
| `liveness` | 1 job, 2 candidates, 2 attempts, all 8 kinds of result, refusals before launch | `ExecutorSettles`, `JobSettles`, `LockReturned` |
| `approvals` | 2 requests, one with typed options, one with nothing to refuse with; both permission modes; one restart | `AllowedByOperator`, `AnswersAgree`, `DenialReported`, `AwaitingHasWaiter`, `FirstDecisionStands`, `AgentUnblocked` |
| `admission` | 4 worker calls of 2 principals: a post and its retry, the key with another body, the key under another principal, and none; 2 daemons that may start at once; one crash or stop; caps of 1 per principal and 2 in all | `SingleOwner`, `OneJobPerKey`, `CapsRespected`, `ReplayHonoured`, `LockExplained`, `OrphanNeverRun`, types |
| `parts`, planning | 2 jobs with different requests, 2 plugins (one not allowed), 2 models, the three ways to configure Jev | `PlanSound`, `PlanEnds` |
| `parts`, native run | both kinds of agent, 2 frames besides answers | `HonestCompletion`, `EffectsAdmitted`, `CancelHonest`, `AgentGone`, `AttemptEnds` |
| `parts`, text | all texts of 4 units out of 8, in deltas of 1 or 2, carry of 6 characters | `NoSecretShown`, `TextKept` |
| `parts`, streams | 1 reader, 2 attempts, 3 plugin rows, pages of 2, 1 loss of the connection or the daemon, a shutdown, `Last-Event-ID` 2 besides those of rows seen | `NoGap`, `EndComplete`, `StreamServed` |
| `leak`, `cancelled`, `approval_stuck`, `next_owner`, `opaque`, `freshest` | small instances | the findings of section 7 |

Bounds. Three attempts are the fewest that show a retry of a retry and, with three
candidates, the repeated-failure rule. Two jobs on one handle contend for the workspace
lock, the workspace slot and both other pools; with `max_concurrency` 2 a third
reservation, a quarantined one counted, must fail. One crash reaches every combination of
rows and processes recovery can find; a second adds only repetitions, since a recovered
job is never executed again. Two requests are open at once, so that one waiter's move of
the job, one failure of the connection or one row update meets another's question; a
third would only repeat this.

`admission`: two posts under one key are the fewest that can be admitted twice; with caps
of 1 and 2, a second job of a principal and a third of anybody are at the limit; the second daemon starts while the first
is starting, or after it crashed or was stopped, at any point. An execution ends in `failed` (any terminal state)
or `needs_recovery`. The two daemons are interchangeable and no liveness is checked here,
so symmetry is sound. A stopped daemon leaves no row; after the crash two can read that of
the dead one before either deletes it, and both become owner (section 7): the other
properties are checked of what follows, too.

`parts`: with `ProbeTtl` and `MaxTime` 1 a cached probe is hit before the tick and expired
after it, and an observation goes stale (`maxStale` 0). `JudgeLimit` 1 with two candidates leaves
one that Jev did not look at; `ModelMemory` 0 and `EvalMemory` 1 make both memories
overflow. `Fits` has one value, on which Jev's order and that of the rules differ. Four
units of text hold a secret of three and its neighbour, or a marker, its token and the
end of it; the carry of 6 is overrun by three units. Two frames are a tool and the end of
a turn, or noise and the end. Three rows and pages of two make a full and a partial page; `Last-Event-ID` 2 names a row
that may or may not be there yet.
`freshest` needs three jobs: one that fills the cache, one that records a newer
observation, one that brings the old one back.

`CHECK_DEADLOCK FALSE` everywhere: when all jobs are
settled the system may stop.

Fairness (`liveness`). Weak fairness of `OnItsOwn(j)`, the steps that need nobody's
answer: whatever the execution of a job
is waiting for has a timeout in the code (probe 20 s, handshake 15 s, run
`max_wall_seconds`, stop 2.8 s), after which its next step is taken; and of
`WaiterFires(j)`: `waitFor` has a 60 s timer. Nothing is assumed of plugins, children,
clients or the clock. There is no fairness for `Restart`, so liveness is checked without
crashes; and without live approvals, which break it (section 7). `LockReturned` is
stated for executions that got as far as a plan: if `executeInner` throws before, `kick`
unlocks nothing. `ExecutorSettles` in this run says that every way out of `executeInner` has
a legal move; what live approvals do to it is the run `approval_stuck`. A crash between the
two statements of `finishJob` is in the runs `two_jobs` and `admission`.

Fairness (`approvals`). Only timers of the plugin: the prompt's deadline, the polling
loop and its deadline. `AgentUnblocked` needs nothing of router, operator, agent or pipe.

Fairness (`parts`). For each component weak fairness of the steps it takes by itself,
together. Every behaviour of a component is finite under the bounds, so that one
condition for the disjunction leaves none of them undone. Planning: steps and timers of
the router; Jev may stay silent before or after the headers, and a plugin may never answer its probe
(bounded by the host's timeouts). Of the timer that ends a request about the candidates
it is assumed only that it ends it, not in which order the candidates are left
(`CandidatesTimeOut`). Native run: pipes of live processes are read, the
plugin's timers fire, a process that was killed ends, the router stops its children; nothing is
assumed of the agent, and nothing of the router's own timers. Streams: the pump, and a
reader that stays connected reads on.

## 5. Mutants

Every property has a mutant in `PROJECT.json`: a definition with a plausible fault, found
in the module just above the correct one, under which the run finds the property
violated.

## 6. What is proved

`JobRuntimeProofs`: `TypeCorrect`, `Spec => []TypeOK`, for every set of jobs, handles,
plugins and routes and every bound. `TypeOK` alone is not inductive: that `tried` stays
within `max_attempts` needs `TriesLeft`, which says that an execution busy with an
attempt has a try left for it and one that judges a result has made one. `TypeInv` is the
conjunction; one step of the proof per action. The assumptions are those of
`RuntimeAssumption`.

Also there: the six properties of the run `two_jobs`, for any number of jobs, attempts
and crashes.

| theorem | says |
|---|---|
| `Capacity` | `Spec => []CapacityBound` |
| `Held` | `Spec => []HeldWhileBusy` |
| `Exclusive` | `Spec => []WorkspaceExclusive` |
| `Rows` | `Spec => []RowsOwned` |
| `Locks` | `Spec => []LockHeld` |
| `SettledForGood` | `Spec => SettledStays` |

None of them is inductive alone. `JobRuntimeInv` has the strengthening: *Life* (a job that
was not submitted has no trace; an attempt that was not begun leaves no row, reservation,
process or dispatch; a daemon that is down executes nothing; a job that succeeded or was
parked is not being executed) and *Owned* (an execution that launches, runs or stops an
attempt holds the reservation of just this attempt, whose row is `queued`, `running` or
closed accordingly). `Lifecycle` is `Spec => [](TypeInv /\ Life /\ Owned)`.

- *Capacity*: a reservation is only added by `StartLaunch`, under `CanReserve`; because
  of *Ahead* its attempt had none before, so each pool grows by at most one. Recovery and
  release only take away.
- *Held*: by *Owned* the slots of an attempt are still held when its run is dispatched;
  `StopDone`, `LaunchFails` and `Restart` release them only if the processes the router
  tracks are confirmed dead or the attempt was never dispatched.
- *Exclusive* needs no induction of its own: two busy attempts in one workspace would be
  two reservations in a pool with one slot.
- *SlotsExplained*, `Spec => []HeldExplained`: a reservation that is held is that of the
  execution busy with its attempt, or *LeftBehind*: its daemon died, and once the next one
  is up the row is closed. With `MaxCrashes = 0` it gives `NoCrashNoLeak`,
  `Spec => []NextOwnerReleases`, the property the run `next_owner` refutes with one crash.
- *SlotsGivenBack*, `Spec => ReservationsKept`: released means that no tracked process of
  the attempt may be alive, quarantined that one was not known to be dead or that the
  attempt was left queued, and both are for good.
- *SettledForGood* rests on *Over*: the table does let `needs_recovery` go on to `failed`
  or `cancelled`, so what keeps a parked job parked is that no execution is left to end
  it, and that waiters, cancel and recovery ask for moves the table refuses.

`JobRuntimeImplements`: first what `executeInner` concludes from results.

| theorem | says | needs besides `TypeInv`, *Life*, *Owned* |
|---|---|---|
| `NoRelaunch` | `Spec => []NoRelaunchAfterEffects` | *CleanSoFar*: an execution that goes on has only clean results behind it |
| `HonestSuccess` | `Spec => []SuccessIsHonest` | *Recorded*: a completed result was written to its row before it is judged |
| `Settles` | `~Interactive => (Spec => []ExecutorSettles)` | *OnTrack*: without approvals a job is `queued`, `running` or settled, and running once its run is sent |

- *NoRelaunch*: the verdicts *next* and *retry* need a result without effects that is safe
  to repeat (`GoesOnOverClean`); by *Ahead* what was sent lies among the attempts begun,
  so results filed later belong to later attempts.
- *HonestSuccess*: only the verdict on a clean success writes `succeeded`
  (`SucceedsByVerdict`); afterwards nothing changes the rows, since by *Over* no
  execution is left and recovery touches unfinished rows only.
- *Settles* has a hypothesis because with approvals it is false: the table refuses
  `awaiting_approval -> succeeded` (section 7).

Then `Implements`, `Spec => PromiseKept`, by the mapping of
`JobRuntimeRefines`. `LaunchOk` is a dispatch, the result of a run is *ComesToNothing* or
a stutter, `Restart` parks a set of jobs, row moves are *Settle* or stutter. That a
dispatch finds the task clean is *CleanSoFar*; that it makes it unclean needs *Unheard*
(nothing was filed for an attempt not yet answered); that the job has not failed needs
*FailedIsOver*; that success has a dispatch needs *Dispatched*.

`LocksGivenBack` is `~Interactive => (Spec => []LockFreed)`: a terminal job that still holds
its workspace is being executed and has `Unlock` ahead of it, or its execution ended without
a plan, or a daemon died over it. The last includes a crash between the two statements of
`finishJob`: it leaves a failed or succeeded job with the lock, and no later daemon gives it
back. The proof rests on *OnTrack*, since `Unlock` looks at the row once and whatever
settles the job later unlocks nothing (with approvals `cancel` does just that), on
*NoPlanYet*, since planning that throws settles the job without `finishJob`, and on
*IdleByCrash*: a job that was submitted and has no execution lost its daemon.

`AdmissionProofs`: every property of the run `admission`, for any clients, keys, bodies,
workspaces, daemons, crashes and caps.

| theorem | says | inductive with |
|---|---|---|
| `TypeCorrect` | `Spec => []TypeOK` | itself |
| `OwnerUnique` | `Spec => []SingleOwner` | *OwnerInv*: unless there was a race, a daemon past its start is in the row, and one about to delete the row of a dead process is the only one alive |
| `KeysUnique` | `Spec => []OneJobPerKey` | *KeysNameJobs*: key rows are just the jobs posted with a key; *AnswersRight* |
| `Replays` | `Spec => []ReplayHonoured` | the same |
| `Caps` | `Spec => []CapsRespected` | itself: only `Accept` adds an open job, under `UnderCaps` |
| `LocksExplained` | `Spec => []LockExplained` | *LoopInv*: an unsettled job has a loop or is among those lost; between the statements of `finishJob` the row is settled and the loop still counted |
| `OrphansNeverRun` | `Spec => OrphanNeverRun` | an action property, from `TypeOK` |

Daemons start at any time. `OwnerUnique` says that two owners take a race of two starters over
the row of a dead process. The other theorems hold for two owners as well: the admission of a
post is one transaction, so keys, caps and locks are decided by the database and not by who
owns it. Assumed: `AdmissionAssumption`
(`None` is no daemon and no number, caps are numbers, loops settle jobs).

`EventStreamProofs`: `EveryRowOnce` is `StreamSpec => []NoGap` and `EndsComplete` is
`StreamSpec => []EndComplete`, for any readers, page size, buffer, attempts, rows,
numeric `Last-Event-ID`s, lost connections, shutdowns and restarts; `StreamTyped` is `StreamSpec => []StreamTypeOK`. *Aligned* is the invariant: what a reader has from the row it asked for, what is on the
socket and what is left of the page are three adjacent runs of consecutive sequences, and
the cursor is the end of the second; a stream that ends has an empty page, and as many rows
behind it as there were when the job was settled, unless it was *cut*: ended by `Close`. A
reader cannot tell a stream that was cut from one that is complete. A lost connection forgets the second and
third run only, so that the last row received is where the reader goes on. The bounds of
the types need it: the cursor is a row of the job because the rows in front of it are,
unless the reader asked to start beyond the last one; and a page is shorter than it was fetched because its first row has gone to the socket
(*StreamBounds*). Assumed: `StreamAssumption` (a page holds at least one row).

`ApprovalProofs`: every safety property of the run `approvals`, for any requests, options,
bound on restarts and ways in which a job may end.

| theorem | says | inductive with |
|---|---|---|
| `ApprovalTypes` | `Spec => []TypeOK` | itself |
| `FailsClosed` | `Spec => []AllowedByOperator` | *Asked*, *Backed* |
| `DecisionStands` | `Spec => FirstDecisionStands` | *Asked* |
| `OneAnswer` | `Spec => []AnswersAgree` | *Answering* |
| `DenialsTold` | `IdsTell => (Spec => []DenialReported)` | *Denials* |
| `SomebodyWaits` | `Spec => []AwaitingHasWaiter` | *Waiting*: a daemon that is down has crashed |

- *Asked*: a request is on its way to the router at most once and before it has a row, so
  `handlePermission` never opens a decided row again; only interactive runs have rows.
- *Backed*: what allows something, in the pipe, in the plugin's memory or at the agent, is
  the option of an approved row. A row is approved in the step that writes the answer to
  the pipe, and rows do not change afterwards; timers and refusals never allow anything.
- *Answering*: a pending question has no answer yet; a loop that polls for a question that
  is not pending any more can only repeat `cancelled`, which `failAll` had sent.
- *WaitersGone* (no waiter is armed any more after a crash) gives `DecisionUnheard`,
  `Spec => DecidedInVain`: after a restart nothing more is sent to a plugin.
- *Denials* needs *IdsTell*: ids read the way their kinds are meant. Without it the property
  is false, which is the run `opaque`.

`NativeRunProofs`: every safety property of `NativeRun`, for agents of either kind and any
number of frames.

| theorem | says | inductive with |
|---|---|---|
| `CompletionHonest` | `NativeSpec => []HonestCompletion` | *Ends*, *Noisy*, *Ran* |
| `CancelConfirmedByAgent` | `NativeSpec => []CancelHonest` | *Ends* |
| `EffectsNeverDenied` | `NativeSpec => EffectsAdmitted` | *Reported*, *Handshake*, *Stopping* |
| `NoAgentLeft` | `NativeSpec => []AgentGone` | *Gone* |
| `NativeTyped` | `NativeSpec => []NativeTypeOK` | *NativeBounds* |

- The pipe from the agent keeps its order: behind the end of a turn there is no tool
  (*Ends*), so once it is read all tools are known (*Ran*), and noise of the turn is marked
  or still unread before an end not yet read (*Noisy*). A result built then is good, and
  stays good: what is on its way to the router is in *GoodResults*, and `GoodStays` shows
  that no step takes a result out of it.
- The pipe to the router keeps its order too: a result without side effects was written by
  a plugin that had reported no tool (*Reported*). For a failed handshake this is because
  the agent was not asked yet and no tool can follow (*Handshake*); for a run being stopped
  because the turn has ended (*Stopping*).
- *Gone*: when the run is over for the router, the plugin is not up, and an agent still
  living is in the snapshot or its plugin crashed.
- *NativeBounds*: the agent owes one answer at a time, and the next call goes out when the
  answer has been read, so that the pipe holds the agent's own frames and one answer.

Assumed: `NativeAssumption` (the two kinds; a number of frames), and that the pipes keep
their order, which is part of the model.

`RoutePlanProofs`, for any plugins, models, policies, requests, answers of Jev, bounds of
the memories and jobs planned at the same time.

| theorem | says | inductive with |
|---|---|---|
| `BestFirstSorts` | an order by score has every model once, the better score and then the smaller id first | |
| `PlanTyped` | `RoutePlanSpec => []PlanTypeOK` | *SharedTypes*, *JobTypes*, *MemoryBounded* |
| `PlansAreSound` | `RoutePlanSpec => []PlanSound` | *RouteSound* |

- The order of `sort` is defined without sorting: the k-th is the one that has k - 1 ahead
  of it. That there is just one such model for each k is the pigeonhole principle
  (`AheadGrows`, `InOrderSorts`); ids tell all models apart.
- *RouteSound* says for each stage what the route has by then: no request is under way
  outside the stages that make one, only a key leads into Jev's stages, nothing is launched
  before the plan is there, and what was launched comes from the part of the plan that has
  been gone through.
- *MemoryBounded* is why the adapter's memory of evaluations, which is cleared only when a
  model comes up and it is over its threshold, still has a bound: what it remembers and
  the jobs that are asking about a model are together at most the threshold and one per
  job.

Assumed: `RoutePlanAssumption` (finitely many models and jobs, ids that differ, a registry
without repetitions, thresholds that are numbers, a cache with room for one evaluation).

`RedactorProofs`, for any units and their widths, delimiters, markers, exact secret, bound
of the carry and text of any length.

| theorem | says |
|---|---|
| `RedactorTyped` | `RedactorSpec => []RedactorTypeOK` |
| `SecretNeverShown` | `Keepable` implies `RedactorSpec => []NoSecretShown` |
| `TextIsKept` | `SecretsApart` implies `RedactorSpec => []TextKept` |

The loops are looked at first as they are without `redactText` (`FeedRaw`, `FlushRaw`); what
it does to a released piece is put back by *Veils*: the text shown is that of the bare loops,
of which some units are replaced (`FeedVeils`, `FlushVeils`). Nothing is supposed of what
`Shaped` matches. Replacing units shows no secret that was not there (`VeiledNoSecret`).

The invariant has to speak about text that has not come in yet. *NothingBegins* says that
at no position of what the bare loops released a secret begins, however the carry and
everything behind it go on (*Safe*). Released text ends before an open region or before the
last run of tokens, and nothing that begins before either is a secret in the making: it would
have been a region itself, or it would reach over a delimiter (`HeldBack`, which is where
`Keepable` is needed). A redaction belongs to no secret, so what follows it starts afresh
(`SafeRedacted`). The loops of `feed` and `flush` are recursive functions over positions;
`RecursionDown` shows that a function defined from the end of its domain downwards exists, and
`FeedResult` and `FlushResult` carry the invariant from the last iteration to the first.
Inductions over data are over numbers here, by the least counterexample.

That a cut loses nothing has `FlushRaw` as its measure. *AllThere* says: what was released,
followed by what `FlushRaw` would make of the carry with any text behind it, is what it makes
of all the text with that behind it. Two facts carry it through a delta:

- A text can be cut before its earliest region. The regions of its end are the regions of
  the whole (`RegionsInEnd`), the same one is the earliest (`EarliestInEnd`), and `FlushRaw`
  returns the beginning as it is (`FlushSplit`).
- What `feed` finds it also finds with more text behind: where its earliest region begins
  nothing could have begun before, however the text goes on (`ClearBefore`), and that
  region stays the earliest (`EarliestAppended`). By induction on the length of the text
  `feed` is ahead of whatever comes (`FeedIsAhead`).

So in pieces and in one piece the same text comes out with the same regions replaced, and the
two differ only in what `redactText` replaces within a piece, which is `TextKept`. They do
differ in that: `Bearer\s+\S+` matches within a token, where no marker is looked for, so
`feed("xBearer ")` and then `feed("abc ")` release the text as it is, and `feed("xBearer abc ")`
redacts it. The instance `BearerShaped` has texts of this kind.

`Keepable` is the hypothesis of `SecretNeverShown`. What begins like the exact secret is held
back from four characters on. If a delimiter is among the first three, as in a value like
`>=3000.0.0 <3001.0.0`, the piece before it goes out when a delta ends there, and the rest
of the secret comes after it. And a marker inside the exact secret is not looked for when a
beginning of the secret is let go at the end of the stream. The code takes any secret of six
characters, and of such a one it can show both pieces; section 7 has the place in the docs.

`SecretsApart` is the hypothesis of `TextIsKept`. Besides `Keepable` it says two things. The
exact secret does not begin like a marker: a marker is looked for at the beginning of a token,
the exact secret anywhere. If the exact secret begins like a marker, as an API key that begins
with `sk-` does, then text of a token that happens to end with the first four characters of
the key is held back from there when a delta ends behind them, and looked at again without
the token before it: what is no region in one piece is then a marker's and is redacted. Here
the redactor shows less, not more. And the carry has room for every beginning of a secret: one
of more than 4096 characters would be swallowed as a run. `MCParts` has `SecretsApart` as an
`ASSUME`.

Assumed, in `RedactorAssumption`, is only what the parameters are: sets and sequences of
units, widths that are numbers, markers of two pieces, and a replacement that is no unit of
the agent's text. The values of the bounds `MaxText` and `MaxDelta` do not matter; TLC needs
them.

Progress. Liveness needs fairness and ENABLED, which the prover does not have. What can be
proved of each liveness property, for all values of the constants, is its safety half:
that nothing goes back or round in circles, and that whoever waits waits for something
that is armed, signalled or there.

| checked by TLC | proved | says |
|---|---|---|
| `JobSettles` | `ExecutionsTerminate` | *StepsLeft*, the tries an execution has left and the awaits of the current one, is at most `5 * max_attempts + 4`; each of its own steps lowers it and no other step changes it |
| `LockReturned` | `LocksGivenBack` | as above |
| `AgentUnblocked` | `NoneForgotten` | while agent and plugin live, a request was answered or its polling loop, with its deadline, runs |
| `PlanEnds` | `RequestsTimed` | a request to Jev that is under way has its timers, and no timer outlives its request |
| | `PlanningEnds` | each step of a planning leads to a later stage or further within its stage, and no step of another moves it |
| `AttemptEnds` | `AgentsAreStopped` | a plugin that waits for the exit of its agent has signalled it, or it is gone |
| | `RunsMoveOn` | the calls of a run are made once, in order, and it is answered once |
| `StreamServed` | `StreamsMoveOn` | a stream that is behind can write or its reader can receive, each such step brings it nearer (*Behind*), only a new row puts it back, and it is never more than two steps behind for each row; one that is not behind can end once the job is settled |

`StreamsMoveOn` supposes `Buffer # 0`: a socket that takes no frame at all has no use for
a pump. The fairness that is missing is stated in section 4. TLC finds these halves true on
the instances of the runs; no run lists them, since the theorems say more.

What stays with TLC:

- `StreamServed`, `PlanEnds`, `AttemptEnds`, `JobSettles`, `LockReturned`,
  `AgentUnblocked` as such.
- `TypeOK` of `MCParts` as such: it is the conjunction of `PlanTypeOK`, `NativeTypeOK`,
  `RedactorTypeOK` and `StreamTypeOK`, each of which is proved of its component.
- The violations of section 7, which are counterexamples.

## 7. Where code and documentation disagree

1. **A leaked plugin does not count** (`leak`). A handshake that times out does not stop
   the plugin, and its reservation is released, against the comment in
   `runtime/runtime.ts:617-619`.
2. **Cancel in the launch window** (`cancelled`). The row is settled as cancelled, the
   run is dispatched all the same, against `runtime/runtime.ts:721-723`.
3. **A result during an open approval** (`approval_stuck`). `awaiting_approval` cannot
   move to `succeeded`; the job stays open with nobody executing it, against
   `docs/architecture.md:31-32`.
4. **Slots that no owner releases** (`next_owner`). `runAttempt` closes the row of its
   attempt, stops the processes and only then releases the reservations. If the daemon
   dies, or has closed its store, in between, they stay held: `recoverOnStart` frees those
   of unfinished attempts only (`runtime/runtime.ts:773`, `storage/store.ts:317-321`), and
   slots of plugin, profile and workspace are lost until somebody edits the database,
   against the comment in `runtime/runtime.ts:641` ("reservation handled by next owner").
   The theorem `NoCrashNoLeak` says that nothing but the death of a daemon does it, and
   `SlotsExplained` that every slot lost in this way is of an attempt whose row was closed.
5. **A refusal by an opaque id goes unreported** (`opaque`). Whether something was
   refused is read off the text of the selected option's id, not off its kind; a turn
   with a refusal can be reported as completed, against `docs/plugin-protocol.md:46-47`
   and the comment in `native/acp.ts:200-202`. `DenialReported` holds where ids resemble
   their kinds, which is what the run `approvals` assumes.

6. **A stale probe masks a newer observation** (`freshest`). `probeAll` records
   every quota it used once more, a cached or overtaken one included, and compares only
   with the row of the highest id: an older observation becomes that row and the next
   planning takes it, against the comment in `runtime/runtime.ts:408-409`.

These differences have no run of their own:

- A failure without effects but with unknown retry safety goes to lead handoff
  (`router-core/router.ts:224`), which records `failed`, while
  `docs/security-and-recovery.md:80-81` has unknown outcomes become `needs_recovery`.
- An approval left pending by an attempt that had finished stays pending after a restart
  (`approval/broker.ts:2` says "restart invalidates"); it can be decided, and
  `DecisionUnheard` shows that no agent hears of it.
- An option of unknown kind that the operator chooses is recorded as denied unless its id
  begins with "allow", but delivered verbatim.
- Two daemons started together over the row of a dead one can both own the database:
  `acquireOwner` (`storage/store.ts:186-206`) is no transaction, and the second one's DELETE
  removes the row the first has just written. `docs/security-and-recovery.md:73` says "Single
  DB owner"; `SingleOwner` and `OwnerUnique` say that there is no other way.
- A shutdown ends open event streams like finished ones (`http/api.ts:49-56`): the reader
  cannot tell a response that is complete from one that was cut, unless it looks at the last
  event or asks for the job. `README.md:59-60` of the repository lists "complete terminal
  drain"; that holds of the streams `pump` ends (`EndComplete`).
- A numeric `Last-Event-ID` is taken without a look at the job's rows (`http/api.ts:257`), while
  `README.md:60` calls it strict: with one beyond the last row the reader gets the rows after
  it only, and none if there are none.
- A secret can be shown in two pieces if a delimiter is among its first three characters
  (`runtime/redactor.ts:59` takes any of six characters, `182-188` hold back from four), and
  what a pattern of `redactText` matches is shown if a cut divides it inside a token. The docs
  say that "a secret split across arbitrary delta boundaries cannot leak a suffix"
  (`docs/security-and-recovery.md`, "Recovery"); `Keepable` and `TextKept` say how far that
  goes.

## 8. Not modelled

- *Contents.* Artifacts, prompts, handoff packets, event payloads, what is logged. Of the
  patterns of `redactText` the checked instance has one, `Bearer\s+\S+`; the proofs are for
  any. `redactDeep`, which applies it to whole payloads, is left out. `Redactor` has one
  marker and one exact secret of each relevant form: markers followed by other white space
  than one blank, and PEM blocks, are not among them.
- *Formats.* JSON framing, canonical bodies, schema validation (`contracts/index.ts`),
  the bytes a line decoder bounds: an over-long or malformed frame is a frame of its own
  kind.
- *Start-up.* Configuration, registry, bootstrap and the plugin mains read files once and
  keep no state that changes afterwards.
- *The client after its post.* `worker()` follows the job's stream and polls; what it
  shows is `EventStream`'s reader. Reading endpoints of the API change nothing.
- *Processes.* How a group is verified before a signal (`/proc`, start times) is the
  outcome `live`, `orphan` or `dead` in `JobRuntime`.
