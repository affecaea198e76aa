----------------------------- MODULE JobRuntime -----------------------------
(***************************************************************************)
(* The job execution runtime: submit, the candidate loop, one attempt's    *)
(* launch / run / stop, capacity reservations, workspace locks, cancel,    *)
(* shutdown, crash and restart recovery.                                   *)
(*                                                                         *)
(*   src/src/runtime/runtime.ts   JobRuntime                               *)
(*   src/src/storage/store.ts     jobs, attempts, capacity, workspaces     *)
(*   src/src/http/api.ts          kick                                     *)
(*                                                                         *)
(* Node runs one handler at a time, from one await to the next; pc[j] is   *)
(* the await at which the execution of job j is suspended.  Three of its   *)
(* values, "judge", "loop" and "unlock", are not awaits but the middle of  *)
(* a handler: while a job is there no other handler of the router runs     *)
(* (Quiet), but the whole daemon may crash, since each SQLite statement    *)
(* commits alone.                                                          *)
(***************************************************************************)
EXTENDS JobStates, Integers, FiniteSets

CONSTANTS
  Jobs,           \* jobs clients may submit
  Handles,        \* registered workspaces a job may lock
  HandleOf,       \* the workspace each job asks for; NoHandle: a fresh one
  NoHandle,
  Nobody,         \* locked_by IS NULL
  Plugins,
  Routes,         \* what router.plan may answer: sequences of plugins
  MaxAttempts,    \* policy.max_attempts
  MaxConcurrency, \* policy.max_concurrency
  RunResults,     \* what plugins may answer to "run"
  RejectCodes,    \* error codes of the checks before launch
  Interactive,    \* policy.permission_mode = "interactive"
  MaxCrashes      \* bound on daemon restarts

ASSUME RuntimeAssumption ==
  /\ IsFiniteSet(Jobs)
  /\ HandleOf \in [Jobs -> Handles \cup {NoHandle}]
  /\ NoHandle \notin Handles
  /\ Nobody \notin Jobs
  /\ Plugins # {}
  /\ Routes \subseteq Seq(Plugins)
  /\ MaxAttempts \in Nat
  /\ MaxConcurrency \in Nat
  /\ RunResults \subseteq RunResult
  /\ RejectCodes \subseteq ErrorCode
  /\ Interactive \in BOOLEAN
  /\ MaxCrashes \in Nat

VARIABLES
  (* rows of the database: they survive a crash *)
  status,     \* jobs.status; "absent" before the job is created
  cancelReq,  \* jobs.cancel_requested
  lock,       \* workspaces.locked_by
  att,        \* attempts.status of a job's n-th try; "absent": no row
  plug,       \* attempts.plugin_id
  childRec,   \* attempts.child_pid is recorded
  res,        \* capacity_reservations.state of the attempt's pools
  (* the daemon's memory *)
  up, stopping,
  pc,
  plan,       \* ordered
  cand,       \* i + 1
  tried,      \* tried.length
  seen,       \* keys of failureSigs
  kid,        \* kids: the native child is in the snapshot taken before stop
  waiters,    \* attempts with an armed approval waiter
  cancelling, \* the attempt a suspended cancel() call captured, 0: none
  (* the operating system and the plugins *)
  proc,       \* plugin process group of each attempt
  child,      \* native CLI child of each attempt
  late,       \* Date.now() > deadline_ms
  crashes,
  (* observed by the properties only *)
  outcome,    \* the result runAttempt returned
  sent        \* attempts whose run request was sent

rows   == <<status, cancelReq, lock, att, plug, childRec, res>>
os     == <<proc, child, late>>
loopv  == <<plan, cand, seen>>
vars   == <<rows, up, stopping, pc, loopv, tried, kid, waiters, cancelling,
            os, crashes, outcome, sent>>

Tries    == 1 .. MaxAttempts
Attempts == Jobs \X Tries

-----------------------------------------------------------------------------
(* Rows *)

JobMoved(s, j, to) == [s EXCEPT ![j] = Moved(@, to)]

TransitionJob(j, to) == status' = JobMoved(status, j, to)

finishAttempt(j, n, to) == att' = [att EXCEPT ![j][n] = Moved(@, to)]

\* Parked jobs give their workspace back too.
UnlockedIfSettled(l, s, j) ==
  IF HandleOf[j] # NoHandle /\ s[j] \in Settled /\ l[HandleOf[j]] = j
  THEN [l EXCEPT ![HandleOf[j]] = Nobody] ELSE l

\* Only successful jobs give it back.
UnlockedIfSucceeded(l, s, j) ==
  IF HandleOf[j] # NoHandle /\ s[j] = "succeeded" /\ l[HandleOf[j]] = j
  THEN [l EXCEPT ![HandleOf[j]] = Nobody] ELSE l

\* Only a settled-for-good job gives its workspace back.
UnlockedIfTerminal(l, s, j) ==
  IF /\ HandleOf[j] # NoHandle
     /\ s[j] \in Terminal
     /\ l[HandleOf[j]] = j
  THEN [l EXCEPT ![HandleOf[j]] = Nobody]
  ELSE l

\* finishJob: the row moves; the workspace is the business of Unlock, a statement
\* of its own.
finishJob(j, to) ==
  /\ TransitionJob(j, to)
  /\ pc' = [pc EXCEPT ![j] = "unlock"]

-----------------------------------------------------------------------------
(* Capacity pools: one slot per plugin, profile and workspace path. *)

Pool == ({"plugin"} \X Plugins) \cup {<<"profile">>}
          \cup ({"workspace"} \X (Handles \cup Jobs))

WorkspacePool(j) ==
  <<"workspace", IF HandleOf[j] = NoHandle THEN j ELSE HandleOf[j]>>

PoolsOf(j, p) == {<<"plugin", p>>, <<"profile">>, WorkspacePool(j)}

PoolMax(pool) == IF pool[1] = "workspace" THEN 1 ELSE MaxConcurrency

CountsAgainst(pool) ==
  { a \in Attempts : /\ res[a[1]][a[2]] \in {"held", "quarantined"}
                     /\ pool \in PoolsOf(a[1], plug[a[1]][a[2]]) }

\* One slot too many.
PoolFreeOffByOne(pool) == Cardinality(CountsAgainst(pool)) <= PoolMax(pool)

PoolFree(pool) == Cardinality(CountsAgainst(pool)) < PoolMax(pool)

\* The workspace slot is forgotten.
CanReserveElsewhere(j, p) ==
  \A pool \in PoolsOf(j, p) \ {WorkspacePool(j)} : PoolFree(pool)

\* reserveCapacityMulti: all pools or none.
CanReserve(j, p) == \A pool \in PoolsOf(j, p) : PoolFree(pool)

\* No quarantine.
AfterReleaseAlways(state, unknown) == IF state # "held" THEN state ELSE "released"

\* What becomes of a reservation when the attempt's processes are (not) known dead.
AfterRelease(state, unknown) ==
  IF state # "held" THEN state ELSE IF unknown THEN "quarantined" ELSE "released"

-----------------------------------------------------------------------------
(* Processes.  "orphan": the group leader is gone, members of its group live *)
(* on; only a group with a live leader can be signalled.                     *)

\* SafeProcess.stop gives up after TERM, KILL and 2.8 s.
Stopped(p) == IF p = "live" THEN {"dead", "orphan", "live"} ELSE {p}

\* stopVerifiedGroup on a child: only one with a retained identity is signalled.
ChildStopped(c, known) == IF c = "live" /\ known THEN {"dead", "live"} ELSE {c}

\* groupConfirmedDead fails for the plugin group or for a child it knows of.
NotConfirmedDead(p, c, known) == p # "dead" \/ (known /\ c = "live")

-----------------------------------------------------------------------------
(* Scheduling *)

Deciding   == {"judge", "loop"}
MidHandler == Deciding \cup {"unlock"}
AtAwait    == {"plan", "launch", "run", "stop"}

Quiet == up /\ \A j \in Jobs : pc[j] \notin MidHandler

\* The attempt the execution of job j is busy with.
Current(j) == tried[j] + 1

InFlight(j) == pc[j] = "run"
-----------------------------------------------------------------------------
Init ==
  /\ status = [j \in Jobs |-> "absent"]
  /\ cancelReq = [j \in Jobs |-> FALSE]
  /\ lock = [h \in Handles |-> Nobody]
  /\ att = [j \in Jobs |-> [n \in Tries |-> "absent"]]
  /\ plug \in {[j \in Jobs |-> [n \in Tries |-> CHOOSE p \in Plugins : TRUE]]}
  /\ childRec = [j \in Jobs |-> [n \in Tries |-> FALSE]]
  /\ res = [j \in Jobs |-> [n \in Tries |-> "none"]]
  /\ up = TRUE
  /\ stopping = FALSE
  /\ pc = [j \in Jobs |-> "idle"]
  /\ plan = [j \in Jobs |-> <<>>]
  /\ cand = [j \in Jobs |-> 1]
  /\ tried = [j \in Jobs |-> 0]
  /\ seen = [j \in Jobs |-> {}]
  /\ kid = [j \in Jobs |-> FALSE]
  /\ waiters = [j \in Jobs |-> {}]
  /\ cancelling = [j \in Jobs |-> 0]
  /\ proc = [j \in Jobs |-> [n \in Tries |-> "none"]]
  /\ child = [j \in Jobs |-> [n \in Tries |-> "none"]]
  /\ late = [j \in Jobs |-> FALSE]
  /\ crashes = 0
  /\ outcome = [j \in Jobs |-> [n \in Tries |-> UnknownOutcome]]
  /\ sent = [j \in Jobs |-> {}]

\* submit + kick: the workspace is locked, the row created, and executeInner
\* runs up to its first await.
Submit(j) ==
  /\ Quiet /\ ~stopping
  /\ status[j] = "absent"
  /\ HandleOf[j] # NoHandle => lock[HandleOf[j]] = Nobody
  /\ lock' = IF HandleOf[j] = NoHandle THEN lock
             ELSE [lock EXCEPT ![HandleOf[j]] = j]
  /\ status' = [status EXCEPT ![j] = "queued"]
  /\ pc' = [pc EXCEPT ![j] = "plan"]
  /\ UNCHANGED <<cancelReq, att, plug, childRec, res, up, stopping, loopv, tried,
                 kid, waiters, cancelling, os, crashes, outcome, sent>>

\* exhausted(): the job fails, whatever its row says now (a refused move is
\* ignored).
Exhausted(j) == finishJob(j, "failed")

\* probeAll and router.plan are back; the loop starts, or there is nothing to try.
PlanReady(j) ==
  /\ Quiet
  /\ pc[j] = "plan"
  /\ \E route \in Routes :
       /\ plan' = [plan EXCEPT ![j] = route]
       /\ IF route = <<>> THEN Exhausted(j)
          ELSE /\ pc' = [pc EXCEPT ![j] = "loop"]
               /\ UNCHANGED status
  /\ UNCHANGED <<cancelReq, lock, att, plug, childRec, res, up, stopping, cand, seen, tried,
                 kid, waiters, cancelling, os, crashes, outcome, sent>>

\* executeInner throws: kick parks the job in needs_recovery.
PlanThrows(j) ==
  /\ Quiet
  /\ pc[j] = "plan"
  /\ status' = IF status[j] \in Settled THEN status ELSE JobMoved(status, j, "needs_recovery")
  /\ pc' = [pc EXCEPT ![j] = "done"]
  /\ UNCHANGED <<cancelReq, lock, att, plug, childRec, res, up, stopping, loopv, tried,
                 kid, waiters, cancelling, os, crashes, outcome, sent>>

\* The conditions under which the loop launches nothing more.
MayNotLaunch(j) ==
  \/ cand[j] > Len(plan[j])
  \/ tried[j] >= MaxAttempts
  \/ stopping
  \/ status[j] \in Settled
  \/ cancelReq[j]
  \/ late[j]

LoopEnds(j) ==
  /\ up /\ pc[j] = "loop"
  /\ MayNotLaunch(j)
  /\ Exhausted(j)
  /\ UNCHANGED <<cancelReq, lock, att, plug, childRec, res, up, stopping, loopv, tried,
                 kid, waiters, cancelling, os, crashes, outcome, sent>>

\* runAttempt returned result r for the current try.
Returned(j, r) ==
  /\ outcome' = [outcome EXCEPT ![j][Current(j)] = r]
  /\ tried' = [tried EXCEPT ![j] = @ + 1]
  /\ pc' = [pc EXCEPT ![j] = "judge"]

\* Profile, quota or executable identity refuse the launch: no attempt row.
RefusedBeforeLaunch(j) ==
  /\ up /\ pc[j] = "loop"
  /\ ~MayNotLaunch(j)
  /\ \E code \in RejectCodes : Returned(j, Refused(code))
  /\ UNCHANGED <<rows, up, stopping, loopv, kid, waiters, cancelling, os, crashes, sent>>

\* The attempt row is written, the reservation fails, the row is closed.
NoCapacity(j) ==
  LET n == Current(j)
      p == plan[j][cand[j]]
  IN /\ up /\ pc[j] = "loop"
     /\ ~MayNotLaunch(j)
     /\ ~CanReserve(j, p)
     /\ plug' = [plug EXCEPT ![j][n] = p]
     /\ att' = [att EXCEPT ![j][n] = Moved("queued", "failed")]
     /\ Returned(j, Refused("RATE_LIMITED"))
     /\ UNCHANGED <<status, cancelReq, lock, childRec, res, up, stopping, loopv, kid,
                    waiters, cancelling, os, crashes, sent>>

\* Attempt row, reservations, and PluginHost.launch spawns the plugin.
StartLaunch(j) ==
  LET n == Current(j)
      p == plan[j][cand[j]]
  IN /\ up /\ pc[j] = "loop"
     /\ ~MayNotLaunch(j)
     /\ CanReserve(j, p)
     /\ plug' = [plug EXCEPT ![j][n] = p]
     /\ att' = [att EXCEPT ![j][n] = "queued"]
     /\ res' = [res EXCEPT ![j][n] = "held"]
     /\ proc' = [proc EXCEPT ![j][n] = "live"]
     /\ pc' = [pc EXCEPT ![j] = "launch"]
     /\ UNCHANGED <<status, cancelReq, lock, childRec, up, stopping, loopv, tried, kid,
                    waiters, cancelling, child, late, crashes, outcome, sent>>

\* Handshake accepted: the attempt and the job are running, the run is sent.
LaunchOk(j) ==
  LET n == Current(j)
  IN /\ Quiet
     /\ pc[j] = "launch"
     /\ proc[j][n] = "live"
     /\ att' = [att EXCEPT ![j][n] = IF @ = "queued" THEN "running" ELSE @]
     /\ TransitionJob(j, "running")
     /\ sent' = [sent EXCEPT ![j] = @ \cup {n}]
     /\ pc' = [pc EXCEPT ![j] = "run"]
     /\ UNCHANGED <<cancelReq, lock, plug, childRec, res, up, stopping, loopv, tried,
                    kid, waiters, cancelling, os, crashes, outcome>>

\* The handshake is refused (the client is stopped), the plugin exits, or the
\* handshake times out or does not parse: then nothing stops the process.  The
\* attempt has no recorded identity, which the finally block takes for "never
\* launched": its reservations are released.
LaunchFails(j) ==
  LET n == Current(j)
  IN /\ Quiet
     /\ pc[j] = "launch"
     /\ \E p \in Stopped(proc[j][n]) :
          proc' = [proc EXCEPT ![j][n] = p]
     /\ finishAttempt(j, n, "needs_recovery")
     /\ res' = [res EXCEPT ![j][n] = AfterRelease(@, FALSE)]
     /\ Returned(j, UnknownOutcome)
     /\ UNCHANGED <<status, cancelReq, lock, plug, childRec, up, stopping, loopv, kid,
                    waiters, cancelling, child, late, crashes, sent>>

\* host.run settled with result r: the row is closed, the execution leaves
\* inflight, the plugin's live children are noted and host.stop() is awaited.
RunSettles(j, r, rowTo) ==
  LET n == Current(j)
  IN /\ finishAttempt(j, n, rowTo)
     /\ outcome' = [outcome EXCEPT ![j][n] = r]
     /\ kid' = [kid EXCEPT ![j] = proc[j][n] = "live" /\ child[j][n] = "live"]
     /\ pc' = [pc EXCEPT ![j] = "stop"]
     /\ UNCHANGED <<status, cancelReq, lock, plug, childRec, res, up, stopping, loopv,
                    tried, waiters, cancelling, os, crashes, sent>>

RunAnswered(j) ==
  /\ Quiet
  /\ pc[j] = "run"
  /\ proc[j][Current(j)] = "live"
  /\ \E r \in RunResults : RunSettles(j, r, AttemptOutcome(r))

\* A run without a timeout: only the exit of the plugin ends it.
RunRejectedOnExit(j) ==
  /\ Quiet
  /\ pc[j] = "run"
  /\ proc[j][Current(j)] # "live"
  /\ RunSettles(j, UnknownOutcome, "needs_recovery")

\* Plugin exit, RPC timeout, protocol error, or the client was stopped.
RunRejected(j) ==
  /\ Quiet
  /\ pc[j] = "run"
  /\ RunSettles(j, UnknownOutcome, "needs_recovery")

\* The plugin and the children it is known to have are stopped; the reservations
\* are released if all of them are confirmed dead, quarantined otherwise.
StopDone(j) ==
  LET n == Current(j)
      known == childRec[j][n] \/ kid[j]
  IN /\ Quiet
     /\ pc[j] = "stop"
     /\ \E p \in Stopped(proc[j][n]), c \in ChildStopped(child[j][n], known) :
          /\ proc' = [proc EXCEPT ![j][n] = p]
          /\ child' = [child EXCEPT ![j][n] = c]
          /\ res' = [res EXCEPT ![j][n] =
                       AfterRelease(@, \/ att[j][n] \notin Settled
                                       \/ NotConfirmedDead(p, c, known))]
     /\ tried' = [tried EXCEPT ![j] = @ + 1]
     /\ pc' = [pc EXCEPT ![j] = "judge"]
     /\ UNCHANGED <<status, cancelReq, lock, att, plug, childRec, up, stopping, loopv,
                    kid, waiters, cancelling, late, crashes, outcome, sent>>

-----------------------------------------------------------------------------
(* Back in executeInner, with the result of the attempt just made. *)

LastResult(j) == outcome[j][tried[j]]

VerdictOf(j) ==
  Verdict(LastResult(j), tried[j], MaxAttempts, cand[j] < Len(plan[j]), seen[j])

Ends(j, to) ==
  /\ finishJob(j, to)
  /\ UNCHANGED <<cand, seen>>

\* The loop variable is set to the candidate before the one meant, but the
\* increment of the loop is not run.
ContinuesBefore(j, i) ==
  /\ cand' = [cand EXCEPT ![j] = i - 1]
  /\ pc' = [pc EXCEPT ![j] = "loop"]
  /\ UNCHANGED status

\* The loop goes on with the i-th candidate.
Continues(j, i) ==
  /\ cand' = [cand EXCEPT ![j] = i]
  /\ pc' = [pc EXCEPT ![j] = "loop"]
  /\ UNCHANGED status

\* Only the hard-failure path of "next" counts the signature.
ActsOnVerdict(j) ==
  \/ VerdictOf(j) = "succeed" /\ Ends(j, "succeeded")
  \/ VerdictOf(j) = "cancel"  /\ Ends(j, "cancelled")
  \/ VerdictOf(j) = "recover" /\ Ends(j, "needs_recovery")
  \/ VerdictOf(j) = "handoff" /\ Ends(j, "failed")
  \/ /\ VerdictOf(j) = "next"
     /\ Continues(j, cand[j] + 1)
     /\ seen' = IF SoftCompletion(LastResult(j)) THEN seen
                ELSE [seen EXCEPT ![j] = @ \cup {Signature(LastResult(j))}]
  \/ /\ VerdictOf(j) = "retry"
     /\ Continues(j, 1)
     /\ UNCHANGED seen

Judge(j) ==
  /\ up /\ pc[j] = "judge"
  /\ ActsOnVerdict(j)
  /\ UNCHANGED <<cancelReq, lock, att, plug, childRec, res, up, stopping, plan, tried,
                 kid, waiters, cancelling, os, crashes, outcome, sent>>

\* finishJob looks at the row again: what it says now decides.  The execution of
\* the job is over.
Unlock(j) ==
  /\ up /\ pc[j] = "unlock"
  /\ lock' = UnlockedIfTerminal(lock, status, j)
  /\ pc' = [pc EXCEPT ![j] = "done"]
  /\ UNCHANGED <<status, cancelReq, att, plug, childRec, res, up, stopping, loopv, tried,
                 kid, waiters, cancelling, os, crashes, outcome, sent>>

-----------------------------------------------------------------------------
(* Approvals, as far as they move the job (Approvals.tla has the rest). *)

\* The plugin of the current attempt asks; its events are handled for as long as
\* its process lives, after the run has settled too.  One open question each.
PermissionRequired(j) ==
  LET n == Current(j)
  IN /\ Quiet /\ Interactive
     /\ pc[j] \in {"run", "stop"}
     /\ proc[j][n] = "live"
     /\ n \notin waiters[j]
     /\ TransitionJob(j, "awaiting_approval")
     /\ waiters' = [waiters EXCEPT ![j] = @ \cup {n}]
     /\ UNCHANGED <<cancelReq, lock, att, plug, childRec, res, up, stopping, pc, loopv,
                    tried, kid, cancelling, os, crashes, outcome, sent>>

\* A decision, or the 60 s timeout of waitFor: the waiter puts the job back to
\* running, whichever attempt asked and whatever that attempt does now.
WaiterFires(j) ==
  /\ Quiet
  /\ \E n \in waiters[j] : waiters' = [waiters EXCEPT ![j] = @ \ {n}]
  /\ TransitionJob(j, "running")
  /\ UNCHANGED <<cancelReq, lock, att, plug, childRec, res, up, stopping, pc, loopv,
                 tried, kid, cancelling, os, crashes, outcome, sent>>

-----------------------------------------------------------------------------
(* Cancel *)

\* Without a run in flight the row goes to cancelled at once; the execution, if
\* there is one, is not told.  With one, the native cancel is sent.
Cancel(j) ==
  /\ Quiet /\ ~stopping
  /\ status[j] \notin Settled \cup {"absent"}
  /\ cancelReq' = [cancelReq EXCEPT ![j] = TRUE]
  /\ IF InFlight(j)
     THEN /\ cancelling' = [cancelling EXCEPT ![j] = Current(j)]
          /\ UNCHANGED status
     ELSE /\ TransitionJob(j, "cancelled")
          /\ UNCHANGED cancelling
  /\ UNCHANGED <<lock, att, plug, childRec, res, up, stopping, pc, loopv, tried, kid,
                 waiters, os, crashes, outcome, sent>>

\* The plugin refuses the cancel, or the job has settled within the 10 s of polling.
CancelReturns(j) ==
  /\ Quiet
  /\ cancelling[j] # 0
  /\ cancelling' = [cancelling EXCEPT ![j] = 0]
  /\ UNCHANGED <<rows, up, stopping, pc, loopv, tried, kid, waiters, os, crashes,
                 outcome, sent>>

\* The plugin accepted the cancel but the job did not settle: local stop.
CancelKills(j) ==
  LET n == cancelling[j]
  IN /\ Quiet
     /\ n # 0
     /\ status[j] \notin Settled
     /\ \E p \in Stopped(proc[j][n]),
           c \in ChildStopped(child[j][n], childRec[j][n] \/ proc[j][n] = "live") :
          /\ proc' = [proc EXCEPT ![j][n] = p]
          /\ child' = [child EXCEPT ![j][n] = c]
     /\ cancelling' = [cancelling EXCEPT ![j] = 0]
     /\ UNCHANGED <<rows, up, stopping, pc, loopv, tried, kid, waiters, late, crashes,
                    outcome, sent>>

-----------------------------------------------------------------------------
(* Shutdown, crash, restart *)

\* shutdown(): no more launches, and the plugins of all runs in flight are told to
\* stop.  The groups in "gone" die at once, the others exit or answer first.
Shutdown ==
  /\ Quiet /\ ~stopping
  /\ stopping' = TRUE
  /\ \E gone \in SUBSET {j \in Jobs : InFlight(j)} :
       proc' = [j \in Jobs |-> [n \in Tries |->
                  IF j \in gone /\ n = Current(j) /\ proc[j][n] = "live"
                  THEN "dead" ELSE proc[j][n]]]
  /\ UNCHANGED <<rows, up, pc, loopv, tried, kid, waiters, cancelling, child, late,
                 crashes, outcome, sent>>

\* The daemon dies, or exits when shutdown() is over: only rows and processes stay.
Crash ==
  /\ up
  /\ crashes < MaxCrashes
  /\ crashes' = crashes + 1
  /\ up' = FALSE
  /\ pc' = [j \in Jobs |-> "idle"]
  /\ waiters' = [j \in Jobs |-> {}]
  /\ cancelling' = [j \in Jobs |-> 0]
  /\ kid' = [j \in Jobs |-> FALSE]
  /\ UNCHANGED <<rows, stopping, loopv, tried, os, outcome, sent>>

Unfinished(j, n) == att[j][n] \in NonTerminalRow

\* An attempt row whose plugin was never recorded, a group that was alive or may
\* have members left, or a recorded child that was alive: the outcome is unknown.
UnknownAtRestart(j, n) ==
  att[j][n] = "queued" \/ NotConfirmedDead(proc[j][n], child[j][n], childRec[j][n])

\* The recorded plugin of an unfinished attempt is the one that can be killed.
KilledAtRestart(j, n) == Unfinished(j, n) /\ att[j][n] # "queued"

\* recoverOnStart(), before the API listens.
Restart ==
  /\ ~up
  /\ up' = TRUE
  /\ stopping' = FALSE
  /\ att' = [j \in Jobs |-> [n \in Tries |->
               IF Unfinished(j, n) THEN Moved(att[j][n], "needs_recovery") ELSE att[j][n]]]
  /\ res' = [j \in Jobs |-> [n \in Tries |->
               IF Unfinished(j, n) THEN AfterRelease(res[j][n], UnknownAtRestart(j, n))
               ELSE res[j][n]]]
  /\ status' = [j \in Jobs |->
                  IF status[j] \notin Settled /\ \E n \in Tries : Unfinished(j, n)
                  THEN Moved(status[j], "needs_recovery") ELSE status[j]]
  /\ proc' = [j \in Jobs |-> [n \in Tries |->
                IF KilledAtRestart(j, n) /\ proc[j][n] = "live" THEN "dead" ELSE proc[j][n]]]
  /\ child' = [j \in Jobs |-> [n \in Tries |->
                IF Unfinished(j, n) /\ childRec[j][n] /\ child[j][n] = "live"
                THEN "dead" ELSE child[j][n]]]
  /\ UNCHANGED <<cancelReq, lock, plug, childRec, pc, loopv, tried, kid, waiters,
                 cancelling, late, crashes, outcome, sent>>

-----------------------------------------------------------------------------
(* Plugins, the operating system and the clock *)

\* A running plugin starts its native CLI, in a process group of its own.
ChildStarts(j, n) ==
  /\ n \in sent[j]
  /\ proc[j][n] = "live"
  /\ child[j][n] = "none"
  /\ child' = [child EXCEPT ![j][n] = "live"]
  /\ UNCHANGED <<rows, up, stopping, pc, loopv, tried, kid, waiters, cancelling, proc,
                 late, crashes, outcome, sent>>

\* run.started with a pid that /proc shows to descend from the plugin.
ChildReported(j) ==
  LET n == Current(j)
  IN /\ Quiet
     /\ pc[j] \in {"run", "stop"}
     /\ proc[j][n] = "live" /\ child[j][n] = "live"
     /\ ~childRec[j][n]
     /\ childRec' = [childRec EXCEPT ![j][n] = TRUE]
     /\ UNCHANGED <<status, cancelReq, lock, att, plug, res, up, stopping, pc, loopv,
                    tried, kid, waiters, cancelling, os, crashes, outcome, sent>>

PluginExits(j, n) ==
  /\ proc[j][n] \in {"live", "orphan"}
  /\ \E p \in Stopped(proc[j][n]) \cup {"dead"} :
       /\ p # proc[j][n]
       /\ proc' = [proc EXCEPT ![j][n] = p]
  /\ UNCHANGED <<rows, up, stopping, pc, loopv, tried, kid, waiters, cancelling, child,
                 late, crashes, outcome, sent>>

ChildExits(j, n) ==
  /\ child[j][n] = "live"
  /\ child' = [child EXCEPT ![j][n] = "dead"]
  /\ UNCHANGED <<rows, up, stopping, pc, loopv, tried, kid, waiters, cancelling, proc,
                 late, crashes, outcome, sent>>

\* Only a suspended execution will ever look at the clock again.
DeadlinePasses(j) ==
  /\ pc[j] \in AtAwait
  /\ ~late[j]
  /\ late' = [late EXCEPT ![j] = TRUE]
  /\ UNCHANGED <<rows, up, stopping, pc, loopv, tried, kid, waiters, cancelling, proc,
                 child, crashes, outcome, sent>>

-----------------------------------------------------------------------------
LoopStep(j) ==
  \/ LoopEnds(j)
  \/ RefusedBeforeLaunch(j)
  \/ NoCapacity(j)
  \/ StartLaunch(j)

\* What the daemon goes on doing for job j without anybody's help: every await
\* of it is bounded by a timeout of the code.
OnItsOwn(j) ==
  \/ PlanReady(j)
  \/ PlanThrows(j)
  \/ LoopStep(j)
  \/ LaunchFails(j)
  \/ RunRejected(j)
  \/ StopDone(j)
  \/ Judge(j)
  \/ Unlock(j)

\* The plugin may answer before that.
Executes(j) ==
  \/ OnItsOwn(j)
  \/ LaunchOk(j)
  \/ RunAnswered(j)

Environment(j, n) ==
  \/ ChildStarts(j, n)
  \/ PluginExits(j, n)
  \/ ChildExits(j, n)

Next ==
  \/ \E j \in Jobs :
       \/ Submit(j)
       \/ Executes(j)
       \/ PermissionRequired(j)
       \/ WaiterFires(j)
       \/ Cancel(j)
       \/ CancelReturns(j)
       \/ CancelKills(j)
       \/ ChildReported(j)
       \/ DeadlinePasses(j)
       \/ \E n \in Tries : Environment(j, n)
  \/ Shutdown
  \/ Crash
  \/ Restart

Spec == Init /\ [][Next]_vars

\* Timeouts: probe 20 s, handshake 15 s, run timeoutMs, stop 2.8 s, waitFor 60 s.
Fairness ==
  \A j \in Jobs : /\ WF_vars(OnItsOwn(j))
                  /\ WF_vars(WaiterFires(j))

FairSpec == Spec /\ Fairness

-----------------------------------------------------------------------------
(* Properties *)

PcValue == {"idle", "done"} \cup AtAwait \cup MidHandler

ReservationState == {"none", "held", "released", "quarantined"}

RowTypes ==
  /\ status \in [Jobs -> JobState \cup {"absent"}]
  /\ cancelReq \in [Jobs -> BOOLEAN]
  /\ lock \in [Handles -> Jobs \cup {Nobody}]
  /\ att \in [Jobs -> [Tries -> JobState \cup {"absent"}]]
  /\ plug \in [Jobs -> [Tries -> Plugins]]
  /\ childRec \in [Jobs -> [Tries -> BOOLEAN]]
  /\ res \in [Jobs -> [Tries -> ReservationState]]

LoopTypes ==
  /\ pc \in [Jobs -> PcValue]
  /\ plan \in [Jobs -> Routes \cup {<<>>}]
  /\ cand \in [Jobs -> Nat \ {0}]
  /\ tried \in [Jobs -> 0 .. MaxAttempts]
  /\ seen \in [Jobs -> SUBSET Signatures]

DaemonTypes ==
  /\ up \in BOOLEAN /\ stopping \in BOOLEAN
  /\ kid \in [Jobs -> BOOLEAN]
  /\ waiters \in [Jobs -> SUBSET Tries]
  /\ cancelling \in [Jobs -> 0 .. MaxAttempts]

WorldTypes ==
  /\ proc \in [Jobs -> [Tries -> {"none", "live", "orphan", "dead"}]]
  /\ child \in [Jobs -> [Tries -> {"none", "live", "dead"}]]
  /\ late \in [Jobs -> BOOLEAN]
  /\ crashes \in 0 .. MaxCrashes
  /\ outcome \in [Jobs -> [Tries -> RunResult]]
  /\ sent \in [Jobs -> SUBSET Tries]

\* Every variable has its type: among others, an execution never counts more
\* attempts than max_attempts, nor looks for a candidate outside the plan's range.
TypeOK == RowTypes /\ LoopTypes /\ DaemonTypes /\ WorldTypes

\* No pool ever holds more reservations than it has slots, quarantined ones
\* counted, whatever crashes and recoveries do (reserveCapacityMulti).
CapacityBound == \A pool \in Pool : Cardinality(CountsAgainst(pool)) <= PoolMax(pool)

\* An attempt that was given its run and has a process the router keeps track of.
Busy(j, n) ==
  n \in sent[j] /\ NotConfirmedDead(proc[j][n], child[j][n], childRec[j][n])

\* As long as a tracked process of a dispatched run may be alive, its slots are
\* not free again (the finally block of runAttempt, recoverOnStart).
HeldWhileBusy ==
  \A j \in Jobs, n \in Tries : Busy(j, n) => res[j][n] \in {"held", "quarantined"}

\* Two dispatched runs with tracked processes never share a workspace: not after
\* a retry, a cancel of a launching job, a crash or an unconfirmed kill.
WorkspaceExclusive ==
  \A a, b \in Attempts :
    Busy(a[1], a[2]) /\ Busy(b[1], b[2]) /\ WorkspacePool(a[1]) = WorkspacePool(b[1])
      => a = b

\* A job is given to a plugin again only if every earlier attempt is known to
\* have had no side effects and to be safe to retry (executeInner).
NoRelaunchAfterEffects ==
  \A j \in Jobs : \A m \in sent[j] : \A n \in 1 .. (m - 1) :
    outcome[j][n].side_effects = "none" /\ outcome[j][n].retry_safety = "safe"

\* While the daemon is up, an unfinished attempt row belongs to an execution that
\* is launching or running just this attempt; recovery leaves none behind.
RowsOwned ==
  up => \A j \in Jobs, n \in Tries :
          att[j][n] \notin Settled \cup {"absent"} => pc[j] \in {"launch", "run"} /\ n = Current(j)

\* A succeeded job ends with an attempt that completed, with known effects, and
\* whose row says so; nothing was launched after it (executeInner, finishAttempt).
SuccessIsHonest ==
  \A j \in Jobs : status[j] = "succeeded" =>
    /\ tried[j] # 0
    /\ LastResult(j).outcome = "completed"
    /\ LastResult(j).status = "completed"
    /\ LastResult(j).side_effects # "unknown"
    /\ att[j][tried[j]] = "succeeded"
    /\ \A n \in Tries : n > tried[j] => att[j][n] = "absent"

\* A locked workspace stays with its job while the job is open, and also while a
\* job already cancelled is still being executed (finishJob).
LockHeld ==
  \A j \in Jobs :
    /\ HandleOf[j] # NoHandle
    /\ \/ status[j] \notin Terminal \cup {"absent"}
       \/ pc[j] \in AtAwait \cup MidHandler
    => lock[HandleOf[j]] = j

\* When the execution of a job is over, the job is settled.
ExecutorSettles == \A j \in Jobs : pc[j] = "done" => status[j] \in Settled

\* A settled job keeps its status: no late waiter, cancel, handoff or recovery
\* moves it, although the table lets needs_recovery go on to failed or queued.
SettledStays ==
  [][\A j \in Jobs : status[j] \in Settled => status'[j] = status[j]]_vars

\* Every submitted job settles.
JobSettles == \A j \in Jobs : status[j] # "absent" ~> status[j] \in Settled

\* The workspace of a terminal job becomes free again, a cancelled one's once its
\* execution has come to an end.  (Not if executeInner throws: kick unlocks nothing.)
LockReturned ==
  \A j \in Jobs : HandleOf[j] # NoHandle =>
    (status[j] \in Terminal /\ plan[j] # <<>> ~> lock[HandleOf[j]] # j)

(* What the documentation says and the code does not keep. *)

\* runtime.ts:721-723: a cancel is a request, and the observed outcome of the run
\* settles the job: a job that is already cancelled has no run in flight.
CancelledIsOver ==
  \A j \in Jobs : status[j] = "cancelled" => ~InFlight(j)

\* runtime.ts:617-619: reservations are released only when the processes are
\* confirmed dead, so a plugin never has more of them than max_concurrency.
PluginsWithinCapacity ==
  \A p \in Plugins :
    Cardinality({a \in Attempts : proc[a[1]][a[2]] = "live" /\ plug[a[1]][a[2]] = p})
      <= MaxConcurrency

\* runtime.ts:641: what the finally block of runAttempt could not release is "handled by
\* next owner".  Once recovery is over, every reservation that is held belongs to the
\* execution that is busy with its attempt.
NextOwnerReleases ==
  up => \A j \in Jobs, n \in Tries :
          res[j][n] = "held" => pc[j] \in {"launch", "run", "stop"} /\ n = Current(j)
=============================================================================
