----------------------- MODULE JobRuntimeImplements -----------------------
(***************************************************************************)
(* What the candidate loop of executeInner may conclude from the results   *)
(* it is given: when it launches again, when it calls a job succeeded, and *)
(* that it settles every job it leaves.  With that, JobRuntime implements  *)
(* JobPromise, for any jobs, plugins, routes, limits and crashes.          *)
(*                                                                         *)
(*   CleanSoFar                relative to TypeInv /\ Life                 *)
(*   NoRelaunchAfterEffects    relative to TypeInv /\ Life /\ CleanSoFar   *)
(*   Recorded                  relative to TypeInv /\ Life /\ Owned        *)
(*   SuccessIsHonest           relative to TypeInv /\ Life /\ Recorded     *)
(*   SettleInv                 relative to TypeInv /\ Life, no approvals   *)
(*                                                                         *)
(* The mapping also needs Dispatching: which attempts of an execution were *)
(* given their run, that nothing was heard of the one that is not answered *)
(* yet, and that no execution is left of a job that failed.                *)
(***************************************************************************)
EXTENDS JobRuntimeProofs, JobRuntimeRefines

LEMMA ResultSteps ==
  ASSUME [Next]_vars
  PROVE  \/ UNCHANGED <<pc, tried, outcome, sent, att>>
         \/ Crash
         \/ Restart
         \/ \E j \in Jobs :
              \/ Submit(j) \/ PlanReady(j) \/ PlanThrows(j) \/ LoopEnds(j)
              \/ RefusedBeforeLaunch(j) \/ NoCapacity(j) \/ StartLaunch(j) \/ LaunchOk(j)
              \/ LaunchFails(j) \/ RunAnswered(j) \/ RunRejected(j) \/ StopDone(j) \/ Judge(j)
              \/ Unlock(j)
BY DEF Next, Executes, OnItsOwn, LoopStep, Environment, vars, rows, loopv, os,
       PermissionRequired, WaiterFires, Cancel, CancelReturns, CancelKills, ChildReported,
       DeadlinePasses, ChildStarts, PluginExits, ChildExits, Shutdown

\* A verdict to go on is reached only over a result without effects that is safe
\* to repeat, soft completions included.
LEMMA GoesOnOverClean ==
  ASSUME NEW r \in RunResult, NEW used, NEW max, NEW more, NEW sigs,
         Verdict(r, used, max, more, sigs) \in {"next", "retry"}
  PROVE  Clean(r)
<1>1. CASE SoftCompletion(r)
  BY <1>1 DEF Verdict, CleanSuccess, SoftCompletion, classifyFailure, Clean, RunResult
<1>2. CASE ~SoftCompletion(r)
  <2>1. classifyFailure(r, used, max, more) \in {"next_candidate", "retry_bounded"}
    BY <1>2 DEF Verdict, CleanSuccess, classifyFailure
  <2>2. QED
    BY <2>1 DEF classifyFailure, Clean, RunResult, SideEffects
<1>3. QED
  BY <1>1, <1>2

LEMMA OnlyCleanSucceeds ==
  ASSUME NEW r, NEW used, NEW max, NEW more, NEW sigs,
         Verdict(r, used, max, more, sigs) = "succeed"
  PROVE  CleanSuccess(r)
<1>1. classifyFailure(r, used, max, more) \in FailAction
  BY DEF classifyFailure, FailAction
<1>2. QED
  BY <1>1 DEF Verdict, FailAction

\* A result is filed under the attempt being made: earlier ones stay.
LEMMA EarlierResultsStay ==
  ASSUME TypeInv, NEW j \in Jobs, NEW r \in RunResult,
         outcome' = [outcome EXCEPT ![j][Current(j)] = r]
  PROVE  /\ \A k \in Jobs : k # j => outcome'[k] = outcome[k]
         /\ \A n \in 1 .. tried[j] : outcome'[j][n] = outcome[j][n]
         /\ Current(j) \in Tries => outcome'[j][Current(j)] = r
BY DEF TypeInv, TypeOK, LoopTypes, WorldTypes, Current

-----------------------------------------------------------------------------
(* The loop goes on over clean results only. *)

LEMMA ReturnedClean ==
  ASSUME TypeInv, CleanSoFar, NEW j \in Jobs, NEW r \in RunResult, Returned(j, r),
         pc[j] \in BusyPc \cup {"loop"}
  PROVE  CleanSoFar'
<1>1. /\ pc' = [pc EXCEPT ![j] = "judge"] /\ tried' = [tried EXCEPT ![j] = @ + 1]
      /\ \A k \in Jobs : k # j => outcome'[k] = outcome[k]
      /\ \A n \in 1 .. tried[j] : outcome'[j][n] = outcome[j][n]
  BY EarlierResultsStay DEF Returned
<1>2. tried'[j] - 1 = tried[j] /\ pc'[j] = "judge"
  BY <1>1 DEF TypeInv, TypeOK, LoopTypes
<1>3. \A k \in Jobs : k # j => pc'[k] = pc[k] /\ tried'[k] = tried[k]
  BY <1>1 DEF TypeInv, TypeOK, LoopTypes
<1>4. QED
  BY <1>1, <1>2, <1>3 DEF CleanSoFar, BusyPc

LEMMA CleanStep ==
  ASSUME TypeInv, Life, CleanSoFar, [Next]_vars
  PROVE  CleanSoFar'
<1>1. CASE UNCHANGED <<pc, tried, outcome, sent, att>>
  BY <1>1 DEF CleanSoFar
<1>2. ASSUME NEW j \in Jobs, Submit(j) PROVE CleanSoFar'
  BY <1>2 DEF Submit, CleanSoFar, Life, Unborn, BusyPc, TypeInv, TypeOK, LoopTypes
<1>3. ASSUME NEW j \in Jobs, PlanReady(j) PROVE CleanSoFar'
  <2>1. /\ pc[j] = "plan" /\ UNCHANGED <<tried, outcome>>
        /\ pc' \in {[pc EXCEPT ![j] = "unlock"], [pc EXCEPT ![j] = "loop"]}
    BY <1>3 DEF PlanReady, Exhausted, finishJob
  <2>2. tried[j] = 0
    BY <2>1 DEF CleanSoFar
  <2>3. QED
    BY <2>1, <2>2 DEF CleanSoFar, BusyPc, TypeInv, TypeOK, LoopTypes
<1>4. ASSUME NEW j \in Jobs, PlanThrows(j) \/ LoopEnds(j) \/ Unlock(j) PROVE CleanSoFar'
  BY <1>4 DEF PlanThrows, LoopEnds, Unlock, Exhausted, finishJob, loopv, CleanSoFar, BusyPc, TypeInv, TypeOK, LoopTypes
<1>5. ASSUME NEW j \in Jobs, RefusedBeforeLaunch(j) \/ NoCapacity(j) PROVE CleanSoFar'
  <2>1. pc[j] = "loop" /\ \E r \in RunResult : Returned(j, r)
    BY <1>5, RefusedType, RuntimeAssumption
       DEF RefusedBeforeLaunch, NoCapacity, RuntimeAssumption, ErrorCode
  <2>2. QED
    BY <2>1, ReturnedClean
<1>6. ASSUME NEW j \in Jobs, StartLaunch(j) \/ LaunchOk(j) PROVE CleanSoFar'
  <2>1. /\ pc[j] \in BusyPc \cup {"loop"} /\ UNCHANGED <<tried, outcome>>
        /\ pc' \in {[pc EXCEPT ![j] = "launch"], [pc EXCEPT ![j] = "run"]}
    BY <1>6 DEF StartLaunch, LaunchOk, loopv, BusyPc
  <2>2. QED
    BY <2>1 DEF CleanSoFar, BusyPc, TypeInv, TypeOK, LoopTypes
<1>7. ASSUME NEW j \in Jobs, LaunchFails(j) PROVE CleanSoFar'
  BY <1>7, ReturnedClean, UnknownOutcomeType DEF LaunchFails, BusyPc
<1>8. ASSUME NEW j \in Jobs, RunAnswered(j) \/ RunRejected(j) PROVE CleanSoFar'
  <2>1. PICK r \in RunResult : \E to : RunSettles(j, r, to)
    BY <1>8, UnknownOutcomeType, RuntimeAssumption DEF RunAnswered, RunRejected, RuntimeAssumption
  <2>2. pc[j] = "run" /\ pc' = [pc EXCEPT ![j] = "stop"] /\ tried' = tried
    BY <1>8, <2>1 DEF RunAnswered, RunRejected, RunSettles
  <2>3. /\ \A k \in Jobs : k # j => outcome'[k] = outcome[k]
        /\ \A n \in 1 .. tried[j] : outcome'[j][n] = outcome[j][n]
    BY <2>1, EarlierResultsStay DEF RunSettles
  <2>4. QED
    BY <2>2, <2>3 DEF CleanSoFar, BusyPc, TypeInv, TypeOK, LoopTypes
<1>9. ASSUME NEW j \in Jobs, StopDone(j) PROVE CleanSoFar'
  <2>1. /\ pc[j] = "stop" /\ pc' = [pc EXCEPT ![j] = "judge"]
        /\ tried' = [tried EXCEPT ![j] = @ + 1] /\ outcome' = outcome
    BY <1>9 DEF StopDone
  <2>2. tried'[j] - 1 = tried[j]
    BY <2>1 DEF TypeInv, TypeOK, LoopTypes
  <2>3. QED
    BY <2>1, <2>2 DEF CleanSoFar, BusyPc, TypeInv, TypeOK, LoopTypes
<1>10. ASSUME NEW j \in Jobs, Judge(j) PROVE CleanSoFar'
  <2>1. pc[j] = "judge" /\ UNCHANGED <<tried, outcome>>
    BY <1>10 DEF Judge
  <2>2. \/ pc' = [pc EXCEPT ![j] = "unlock"]
        \/ pc' = [pc EXCEPT ![j] = "loop"] /\ VerdictOf(j) \in {"next", "retry"}
    BY <1>10 DEF Judge, ActsOnVerdict, Ends, Continues, finishJob
  <2>3. tried[j] \in Tries /\ LastResult(j) \in RunResult
    BY <2>1, RuntimeAssumption
       DEF TypeInv, TypeOK, TriesLeft, LoopTypes, WorldTypes, Tries, LastResult, RuntimeAssumption
  <2>4. VerdictOf(j) \in {"next", "retry"} => Clean(outcome[j][tried[j]])
    BY <2>3, GoesOnOverClean DEF VerdictOf, LastResult
  <2>5. \A n \in 1 .. tried[j] : n = tried[j] \/ n \in 1 .. (tried[j] - 1)
    BY DEF TypeInv, TypeOK, LoopTypes
  <2>6. QED
    BY <2>1, <2>2, <2>4, <2>5 DEF CleanSoFar, BusyPc, TypeInv, TypeOK, LoopTypes
<1>11. CASE Crash
  BY <1>11 DEF Crash, CleanSoFar, BusyPc
<1>12. CASE Restart
  BY <1>12 DEF Restart, CleanSoFar
<1>13. QED
  BY <1>1, <1>2, <1>3, <1>4, <1>5, <1>6, <1>7, <1>8, <1>9, <1>10, <1>11, <1>12, ResultSteps

\* What an execution that is under way sent lies among the attempts it has begun.
LEMMA SentIsBegun ==
  ASSUME TypeInv, Life, NEW j \in Jobs, pc[j] \in Executing, NEW m \in sent[j]
  PROVE  m \in Tries /\ m <= Begun(j)
BY RuntimeAssumption
   DEF RuntimeAssumption, Life, Ahead, Fresh, Begun, Current, Tries, TypeInv, TypeOK, LoopTypes, WorldTypes

LEMMA RelaunchStep ==
  ASSUME TypeInv, Life, CleanSoFar, NoRelaunchAfterEffects, [Next]_vars
  PROVE  NoRelaunchAfterEffects'
<1>1. CASE UNCHANGED <<outcome, sent>>
  BY <1>1 DEF NoRelaunchAfterEffects
<1>2. ASSUME NEW j \in Jobs, LaunchOk(j) PROVE NoRelaunchAfterEffects'
  <2>1. pc[j] = "launch" /\ sent' = [sent EXCEPT ![j] = @ \cup {Current(j)}] /\ outcome' = outcome
    BY <1>2 DEF LaunchOk
  <2>2. \A n \in 1 .. tried[j] : Clean(outcome[j][n])
    BY <2>1 DEF CleanSoFar, BusyPc
  <2>3. Current(j) - 1 = tried[j]
    BY DEF Current, TypeInv, TypeOK, LoopTypes
  <2>4. QED
    BY <2>1, <2>2, <2>3 DEF NoRelaunchAfterEffects, Clean, TypeInv, TypeOK, WorldTypes
<1>3. ASSUME NEW j \in Jobs, NEW r \in RunResult, pc[j] \in Executing \ {"judge"},
             outcome' = [outcome EXCEPT ![j][Current(j)] = r], sent' = sent
      PROVE  NoRelaunchAfterEffects'
  <2>1. \A m \in sent[j] : m \in Tries /\ m <= Begun(j)
    BY <1>3, SentIsBegun
  <2>2. Begun(j) <= tried[j] + 1 /\ tried[j] \in Nat
    BY DEF Begun, Current, TypeInv, TypeOK, LoopTypes
  <2>3. \A m \in sent[j] : \A n \in 1 .. (m - 1) : n \in 1 .. tried[j]
    <3> SUFFICES ASSUME NEW m \in sent[j], NEW n \in 1 .. (m - 1) PROVE n <= tried[j]
      OBVIOUS
    <3>1. m \in Int /\ m <= tried[j] + 1
      BY <2>1, <2>2 DEF Tries, Begun, Current
    <3>2. QED
      BY <2>2, <3>1
  <2>4. /\ \A k \in Jobs : k # j => outcome'[k] = outcome[k]
        /\ \A n \in 1 .. tried[j] : outcome'[j][n] = outcome[j][n]
    BY <1>3, EarlierResultsStay
  <2>5. QED
    BY <1>3, <2>3, <2>4 DEF NoRelaunchAfterEffects
<1>4. ASSUME NEW j \in Jobs,
             \/ RefusedBeforeLaunch(j) \/ NoCapacity(j) \/ LaunchFails(j)
             \/ RunAnswered(j) \/ RunRejected(j)
      PROVE  /\ pc[j] \in Executing \ {"judge"} /\ sent' = sent
             /\ \E r \in RunResult : outcome' = [outcome EXCEPT ![j][Current(j)] = r]
  BY <1>4, RefusedType, UnknownOutcomeType, RuntimeAssumption
     DEF RefusedBeforeLaunch, NoCapacity, LaunchFails, RunAnswered, RunRejected, RunSettles,
         Returned, Executing, AtAwait, MidHandler, Deciding, RuntimeAssumption, ErrorCode
<1>5. \/ UNCHANGED <<outcome, sent>>
      \/ \E j \in Jobs : \/ LaunchOk(j) \/ RefusedBeforeLaunch(j) \/ NoCapacity(j)
                         \/ LaunchFails(j) \/ RunAnswered(j) \/ RunRejected(j)
  BY ResultSteps DEF Crash, Restart, Submit, PlanReady, PlanThrows, LoopEnds, StartLaunch,
                     StopDone, Judge, Unlock
<1>6. QED
  BY <1>1, <1>2, <1>3, <1>4, <1>5

\* A job is never handed to a plugin again over an attempt that had, or may have had,
\* effects, whatever plugins answer, however launches fail and the daemon crashes.
THEOREM NoRelaunch == Spec => []NoRelaunchAfterEffects
<1>1. Init => CleanSoFar /\ NoRelaunchAfterEffects
  BY DEF Init, CleanSoFar, NoRelaunchAfterEffects, BusyPc
<1>2. /\ TypeInv /\ Life /\ Owned /\ CleanSoFar /\ NoRelaunchAfterEffects
      /\ [Next]_vars
      => (CleanSoFar /\ NoRelaunchAfterEffects)'
  BY CleanStep, RelaunchStep
<1>3. QED
  BY <1>1, <1>2, Lifecycle, PTL DEF Spec

-----------------------------------------------------------------------------
(* A success has its completed row. *)

\* A refused or failed launch is filed as a failed result.
LEMMA ReturnedFailed ==
  ASSUME NEW j \in Jobs, RefusedBeforeLaunch(j) \/ NoCapacity(j) \/ LaunchFails(j)
  PROVE  \E r \in RunResult : r.outcome = "failed" /\ Returned(j, r)
<1>1. /\ \A code \in RejectCodes \cup {"RATE_LIMITED"} :
           Refused(code) \in RunResult /\ Refused(code).outcome = "failed"
      /\ UnknownOutcome \in RunResult /\ UnknownOutcome.outcome = "failed"
  <2>1. RejectCodes \cup {"RATE_LIMITED"} \subseteq ErrorCode
    BY RuntimeAssumption DEF RuntimeAssumption, ErrorCode
  <2>2. \A code : Refused(code).outcome = "failed"
    BY DEF Refused
  <2>3. UnknownOutcome.outcome = "failed"
    BY DEF UnknownOutcome
  <2>4. QED
    BY <2>1, <2>2, <2>3, RefusedType, UnknownOutcomeType
<1>2. Returned(j, UnknownOutcome)
        \/ \E code \in RejectCodes \cup {"RATE_LIMITED"} : Returned(j, Refused(code))
  BY DEF RefusedBeforeLaunch, NoCapacity, LaunchFails
<1>3. QED
  BY <1>1, <1>2

LEMMA RecordedStep ==
  ASSUME TypeInv, Life, Owned, Recorded, [Next]_vars
  PROVE  Recorded'
<1>1. CASE UNCHANGED <<pc, tried, outcome, sent, att>>
  BY <1>1 DEF Recorded, Current, LastResult
<1>2. ASSUME NEW j \in Jobs,
             \/ Submit(j) \/ PlanReady(j) \/ PlanThrows(j) \/ LoopEnds(j) \/ LaunchOk(j)
             \/ StartLaunch(j) \/ Judge(j) \/ Unlock(j)
      PROVE  Recorded'
  <2>1. /\ UNCHANGED <<tried, outcome>>
        /\ \E to \in {"plan", "loop", "unlock", "done", "launch", "run"} :
             pc' = [pc EXCEPT ![j] = to]
    BY <1>2 DEF Submit, PlanReady, PlanThrows, LoopEnds, LaunchOk, StartLaunch, Judge, Unlock,
                ActsOnVerdict, Ends, Continues, Exhausted, finishJob, loopv
  <2>2. \A k \in Jobs : k # j => att'[k] = att[k]
    BY <1>2 DEF Submit, PlanReady, PlanThrows, LoopEnds, LaunchOk, StartLaunch, Judge, Unlock, rows,
                TypeInv, TypeOK, RowTypes
  <2>3. ASSUME NEW k \in Jobs, pc'[k] \in {"stop", "judge"} PROVE k # j /\ pc'[k] = pc[k]
    BY <2>1, <2>3 DEF TypeInv, TypeOK, LoopTypes
  <2>4. QED
    BY <2>1, <2>2, <2>3 DEF Recorded, LastResult, Current
<1>3. ASSUME NEW j \in Jobs,
             RefusedBeforeLaunch(j) \/ NoCapacity(j) \/ LaunchFails(j)
      PROVE  Recorded'
  <2>1. PICK r \in RunResult : r.outcome = "failed" /\ Returned(j, r)
    BY <1>3, ReturnedFailed
  <2>2. Current(j) \in Tries
    BY <1>3, CurrentType DEF RefusedBeforeLaunch, NoCapacity, LaunchFails
  <2>3. /\ pc'[j] = "judge" /\ tried'[j] = Current(j) /\ outcome'[j][Current(j)] = r
        /\ \A k \in Jobs : k # j =>
             pc'[k] = pc[k] /\ tried'[k] = tried[k] /\ outcome'[k] = outcome[k]
    BY <2>1, <2>2, EarlierResultsStay DEF Returned, Current, TypeInv, TypeOK, LoopTypes
  <2>4. \A k \in Jobs : k # j => att'[k] = att[k]
    BY <1>3 DEF RefusedBeforeLaunch, NoCapacity, LaunchFails, finishAttempt, rows,
                TypeInv, TypeOK, RowTypes
  <2>5. QED
    BY <2>1, <2>3, <2>4 DEF Recorded, Current, LastResult
<1>4. ASSUME NEW j \in Jobs, RunAnswered(j) \/ RunRejected(j) PROVE Recorded'
  <2>1. PICK r \in RunResult, to \in Settled :
          /\ RunSettles(j, r, to)
          /\ r.outcome = "completed" => to = "succeeded"
    BY <1>4, UnknownOutcomeType, AttemptOutcomeSettled, RuntimeAssumption
       DEF RunAnswered, RunRejected, RuntimeAssumption, AttemptOutcome, UnknownOutcome,
           Settled, Terminal
  <2>2. Current(j) \in Tries /\ att[j][Current(j)] = "running"
    BY <1>4, CurrentType DEF RunAnswered, RunRejected, Owned, BusyPc
  <2>3. /\ att'[j][Current(j)] = to
        /\ \A k \in Jobs : k # j => att'[k] = att[k]
    BY <2>1, <2>2, MovedSettles DEF RunSettles, finishAttempt, TypeInv, TypeOK, RowTypes
  <2>4. /\ pc'[j] = "stop" /\ outcome'[j][Current(j)] = r /\ tried' = tried
        /\ \A k \in Jobs : k # j => pc'[k] = pc[k] /\ outcome'[k] = outcome[k]
    BY <2>1, <2>2, EarlierResultsStay DEF RunSettles, TypeInv, TypeOK, LoopTypes
  <2>5. QED
    BY <2>1, <2>3, <2>4 DEF Recorded, Current, LastResult
<1>5. ASSUME NEW j \in Jobs, StopDone(j) PROVE Recorded'
  <2>1. /\ pc[j] = "stop" /\ pc' = [pc EXCEPT ![j] = "judge"]
        /\ tried' = [tried EXCEPT ![j] = @ + 1] /\ UNCHANGED <<att, outcome>>
    BY <1>5 DEF StopDone
  <2>2. tried'[j] = Current(j) /\ pc'[j] = "judge"
    BY <2>1 DEF Current, TypeInv, TypeOK, LoopTypes
  <2>3. \A k \in Jobs : k # j => pc'[k] = pc[k] /\ tried'[k] = tried[k]
    BY <2>1 DEF TypeInv, TypeOK, LoopTypes
  <2>4. QED
    BY <2>1, <2>2, <2>3 DEF Recorded, Current, LastResult
<1>6. CASE Crash
  BY <1>6 DEF Crash, Recorded
<1>7. CASE Restart
  BY <1>7 DEF Restart, Recorded, Life, Down
<1>8. QED
  BY <1>1, <1>2, <1>3, <1>4, <1>5, <1>6, <1>7, ResultSteps

\* What SuccessIsHonest says of one job.
Honest(j) ==
  /\ tried[j] # 0
  /\ LastResult(j).outcome = "completed"
  /\ LastResult(j).status = "completed"
  /\ LastResult(j).side_effects # "unknown"
  /\ att[j][tried[j]] = "succeeded"
  /\ \A n \in Tries : n > tried[j] => att[j][n] = "absent"

\* Nothing but its own execution and recovery touches what a job has recorded.
LEMMA HonestKept ==
  ASSUME NEW k \in Jobs, Honest(k), tried'[k] = tried[k], outcome'[k] = outcome[k],
         att'[k] = att[k]
  PROVE  Honest(k)'
BY DEF Honest, LastResult

\* Who else may write "succeeded": only the verdict on a clean success.
LEMMA SucceedsByVerdict ==
  ASSUME TypeInv, [Next]_vars, NEW k \in Jobs, status[k] # "succeeded", status'[k] = "succeeded"
  PROVE  Judge(k) /\ VerdictOf(k) = "succeed"
<1>1. status'[k] # status[k]
  OBVIOUS
<1>2. \A j \in Jobs : \A to : TransitionJob(j, to) => j = k /\ to = "succeeded"
  BY <1>1, StatusMoves
<1>3. \A j \in Jobs :
        /\ ~PlanReady(j) /\ ~PlanThrows(j) /\ ~LoopEnds(j) /\ ~LaunchOk(j)
        /\ ~PermissionRequired(j) /\ ~WaiterFires(j) /\ ~Cancel(j) /\ ~Submit(j)
  BY <1>1, <1>2, MovedType
     DEF PlanReady, PlanThrows, LoopEnds, Exhausted, finishJob, LaunchOk, PermissionRequired,
         WaiterFires, Cancel, Submit, JobMoved, TypeInv, TypeOK, RowTypes
<1>4. ~Restart
  <2>1. Restart => status'[k] \in {status[k], Moved(status[k], "needs_recovery")}
    BY DEF Restart
  <2>2. Moved(status[k], "needs_recovery") \in {status[k], "needs_recovery"}
    BY DEF Moved
  <2>3. QED
    BY <1>1, <2>1, <2>2
<1>5. PICK j \in Jobs : Judge(j)
  <2>1. ASSUME NEW j \in Jobs, Executes(j) PROVE Judge(j)
    <3>1. ~ RefusedBeforeLaunch(j) /\ ~ NoCapacity(j) /\ ~ StartLaunch(j)
      BY <1>1 DEF RefusedBeforeLaunch, NoCapacity, StartLaunch, rows
    <3>2. /\ ~ LaunchFails(j) /\ ~ RunAnswered(j) /\ ~ RunRejected(j) /\ ~ StopDone(j)
          /\ ~ Unlock(j)
      BY <1>1 DEF LaunchFails, RunAnswered, RunRejected, RunSettles, StopDone, Unlock
    <3>3. QED
      BY <1>3, <2>1, <3>1, <3>2 DEF Executes, OnItsOwn, LoopStep
  <2>2. ASSUME NEW j \in Jobs
        PROVE  ~ (CancelReturns(j) \/ CancelKills(j) \/ ChildReported(j) \/ DeadlinePasses(j))
    BY <1>1 DEF CancelReturns, CancelKills, ChildReported, DeadlinePasses, rows
  <2>3. ASSUME NEW j \in Jobs, NEW n \in Tries PROVE ~ Environment(j, n)
    BY <1>1 DEF Environment, ChildStarts, PluginExits, ChildExits, rows
  <2>4. ~ Shutdown /\ ~ Crash /\ ~ UNCHANGED vars
    BY <1>1 DEF Shutdown, Crash, vars, rows
  <2>5. QED
    BY <1>3, <1>4, <2>1, <2>2, <2>3, <2>4 DEF Next
<1>6. j = k /\ VerdictOf(j) = "succeed"
  BY <1>1, <1>2, <1>5 DEF Judge, ActsOnVerdict, Ends, Continues, finishJob
<1>7. QED
  BY <1>5, <1>6

LEMMA HonestStep ==
  ASSUME TypeInv, Life, Recorded, SuccessIsHonest, [Next]_vars
  PROVE  SuccessIsHonest'
<1> SUFFICES ASSUME NEW k \in Jobs, status'[k] = "succeeded" PROVE Honest(k)'
  BY DEF SuccessIsHonest, Honest, LastResult
<1>1. CASE status[k] # "succeeded"
  <2>1. Judge(k) /\ VerdictOf(k) = "succeed"
    BY <1>1, SucceedsByVerdict
  <2>2. pc[k] = "judge" /\ tried[k] # 0 /\ UNCHANGED <<tried, outcome, att>>
    BY <2>1 DEF Judge, TypeInv, TriesLeft
  <2>3. CleanSuccess(LastResult(k))
    BY <2>1, OnlyCleanSucceeds DEF VerdictOf
  <2>4. att[k][tried[k]] = "succeeded"
    BY <2>2, <2>3 DEF Recorded, CleanSuccess
  <2>5. \A n \in Tries : n > tried[k] => att[k][n] = "absent"
    BY <2>2 DEF Life, Ahead, Fresh, Begun, BusyPc, Executing, MidHandler, Deciding
  <2>6. QED
    BY <2>2, <2>3, <2>4, <2>5, HonestKept DEF Honest, CleanSuccess
<1>2. CASE status[k] = "succeeded"
  <2>1. Honest(k) /\ pc[k] \notin Executing
    BY <1>2 DEF SuccessIsHonest, Honest, Life, Over
  <2>2. CASE UNCHANGED <<pc, tried, outcome, sent, att>> \/ Crash \/ \E j \in Jobs : Unlock(j)
    BY <2>1, <2>2, HonestKept DEF Crash, Unlock, rows
  <2>3. CASE Restart
    <3>1. UNCHANGED <<tried, outcome>>
      BY <2>3 DEF Restart
    <3>2. tried[k] \in Tries
      BY <2>1, RuntimeAssumption
         DEF Honest, TypeInv, TypeOK, LoopTypes, Tries, RuntimeAssumption
    <3>3. \A n \in Tries : att[k][n] \in {"succeeded", "absent"} => att'[k][n] = att[k][n]
      BY <2>3 DEF Restart, Unfinished, NonTerminalRow
    <3>4. QED
      BY <2>1, <3>1, <3>2, <3>3 DEF Honest, LastResult
  <2>4. ASSUME NEW j \in Jobs, j # k,
               \/ Submit(j) \/ PlanReady(j) \/ PlanThrows(j) \/ LoopEnds(j)
               \/ RefusedBeforeLaunch(j) \/ NoCapacity(j) \/ StartLaunch(j) \/ LaunchOk(j)
               \/ LaunchFails(j) \/ RunAnswered(j) \/ RunRejected(j) \/ StopDone(j) \/ Judge(j)
        PROVE  Honest(k)'
    <3>1. tried'[k] = tried[k] /\ outcome'[k] = outcome[k] /\ att'[k] = att[k]
      BY <2>4, ZenonT(60)
         DEF Submit, PlanReady, PlanThrows, LoopEnds, RefusedBeforeLaunch, NoCapacity,
             StartLaunch, LaunchOk, LaunchFails, RunAnswered, RunRejected, RunSettles,
             StopDone, Judge, Returned, finishAttempt, rows, loopv,
             TypeInv, TypeOK, RowTypes, LoopTypes, WorldTypes
    <3>2. QED
      BY <2>1, <3>1, HonestKept
  <2>5. \A j \in Jobs :
          \/ Submit(j) \/ PlanReady(j) \/ PlanThrows(j) \/ LoopEnds(j)
          \/ RefusedBeforeLaunch(j) \/ NoCapacity(j) \/ StartLaunch(j) \/ LaunchOk(j)
          \/ LaunchFails(j) \/ RunAnswered(j) \/ RunRejected(j) \/ StopDone(j) \/ Judge(j)
          => j # k
    BY <1>2, <2>1, ZenonT(60)
       DEF Submit, PlanReady, PlanThrows, LoopEnds, RefusedBeforeLaunch, NoCapacity,
           StartLaunch, LaunchOk, LaunchFails, RunAnswered, RunRejected, StopDone, Judge,
           Executing, AtAwait, MidHandler, Deciding
  <2>6. QED
    BY <2>2, <2>3, <2>4, <2>5, ResultSteps
<1>3. QED
  BY <1>1, <1>2

\* The row of a succeeded job always rests on its last attempt: a completed result
\* with known effects whose own row says succeeded, and nothing launched after it.
THEOREM HonestSuccess == Spec => []SuccessIsHonest
<1>1. Init => Recorded /\ SuccessIsHonest
  BY DEF Init, Recorded, SuccessIsHonest
<1>2. TypeInv /\ Life /\ Owned /\ Recorded /\ SuccessIsHonest /\ [Next]_vars
      => (Recorded /\ SuccessIsHonest)'
  BY RecordedStep, HonestStep
<1>3. QED
  BY <1>1, <1>2, Lifecycle, PTL DEF Spec

-----------------------------------------------------------------------------
(* An execution that is over has settled its job. *)

\* Nobody is asked: the job never leaves the line queued - running - settled, and
\* is running from the moment its run is sent.
OnTrack(j) ==
  /\ waiters[j] = {}
  /\ status[j] \in {"absent", "queued", "running"} \cup Settled
  /\ pc[j] \in {"run", "stop"} => status[j] \in {"running"} \cup Settled
  /\ pc[j] = "judge" /\ LastResult(j).outcome = "completed"
       => status[j] \in {"running"} \cup Settled
  /\ pc[j] \in {"unlock", "done"} => status[j] \in Settled

SettleInv == \A j \in Jobs : OnTrack(j)

LEMMA LineMoves ==
  /\ \A s \in {"queued", "running"} :
       \A to \in {"failed", "cancelled", "needs_recovery"} : Moved(s, to) = to
  /\ Moved("running", "succeeded") = "succeeded"
  /\ \A s \in {"queued", "running"} : Moved(s, "running") = "running"
                                      \/ Moved(s, "running") = s
  /\ Moved("queued", "running") = "running"
BY DEF Moved, Transitions

LEMMA SettledValues ==
  /\ {"succeeded", "failed", "cancelled", "needs_recovery"} = Settled
  /\ "queued" \notin Settled /\ "running" \notin Settled /\ "absent" \notin Settled
BY DEF Settled, Terminal

\* Whatever an execution on track tries to settle its job with, the job is settled.
LEMMA TrackSettles ==
  ASSUME TypeInv, Life, [Next]_vars, NEW j \in Jobs, OnTrack(j), status[j] # "absent",
         NEW to \in {"failed", "cancelled", "needs_recovery"}, TransitionJob(j, to)
  PROVE  status'[j] \in Settled
<1>1. status'[j] = Moved(status[j], to)
  BY DEF TransitionJob, JobMoved, TypeInv, TypeOK, RowTypes
<1>2. CASE status[j] \in Settled
  BY <1>2, SettledStep
<1>3. CASE status[j] \in {"queued", "running"}
  BY <1>1, <1>3, LineMoves, SettledValues
<1>4. QED
  BY <1>2, <1>3 DEF OnTrack

LEMMA TrackSteps ==
  ASSUME [Next]_vars
  PROVE  \/ UNCHANGED <<status, pc, tried, outcome, waiters>>
         \/ Crash
         \/ Restart
         \/ \E j \in Jobs :
              \/ Submit(j) \/ PlanReady(j) \/ PlanThrows(j) \/ LoopEnds(j)
              \/ RefusedBeforeLaunch(j) \/ NoCapacity(j) \/ StartLaunch(j) \/ LaunchOk(j)
              \/ LaunchFails(j) \/ RunAnswered(j) \/ RunRejected(j) \/ StopDone(j) \/ Judge(j)
              \/ Unlock(j) \/ PermissionRequired(j) \/ WaiterFires(j) \/ Cancel(j)
BY DEF Next, Executes, OnItsOwn, LoopStep, Environment, vars, rows, loopv, os,
       CancelReturns, CancelKills, ChildReported, DeadlinePasses, ChildStarts,
       PluginExits, ChildExits, Shutdown

LEMMA SettleStep ==
  ASSUME ~Interactive, TypeInv, Life, SettleInv, [Next]_vars
  PROVE  SettleInv'
<1> SUFFICES ASSUME NEW k \in Jobs PROVE OnTrack(k)'
  BY DEF SettleInv
<1>1. OnTrack(k) /\ (status[k] \in Settled => status'[k] = status[k])
  BY SettledStep DEF SettleInv
<1>2. status[k] = "absent" => pc[k] = "idle"
  BY DEF Life, Unborn
<1>3. CASE UNCHANGED <<status, pc, tried, outcome, waiters>>
  BY <1>1, <1>3 DEF OnTrack, LastResult
<1>4. CASE \E j \in Jobs : PermissionRequired(j) \/ WaiterFires(j)
  BY <1>4 DEF PermissionRequired, WaiterFires, SettleInv, OnTrack
<1>5. ASSUME NEW j \in Jobs, Submit(j) PROVE OnTrack(k)'
  <2>1. /\ status' = [status EXCEPT ![j] = "queued"] /\ pc' = [pc EXCEPT ![j] = "plan"]
        /\ UNCHANGED <<tried, outcome, waiters>>
    BY <1>5 DEF Submit
  <2>2. CASE k = j
    BY <1>1, <2>1, <2>2 DEF OnTrack, TypeInv, TypeOK, RowTypes, LoopTypes
  <2>3. CASE k # j
    BY <1>1, <2>1, <2>3 DEF OnTrack, LastResult, TypeInv, TypeOK, RowTypes, LoopTypes
  <2>4. QED
    BY <2>2, <2>3
<1>6. ASSUME NEW j \in Jobs, k # j,
             \/ PlanReady(j) \/ PlanThrows(j) \/ LoopEnds(j)
             \/ RefusedBeforeLaunch(j) \/ NoCapacity(j) \/ StartLaunch(j) \/ LaunchOk(j)
             \/ LaunchFails(j) \/ RunAnswered(j) \/ RunRejected(j) \/ StopDone(j) \/ Judge(j)
             \/ Unlock(j) \/ Cancel(j)
      PROVE  OnTrack(k)'
  <2>1. status'[k] = status[k]
    BY <1>6, StatusMoves
       DEF PlanReady, PlanThrows, LoopEnds, RefusedBeforeLaunch, NoCapacity, StartLaunch,
           LaunchOk, LaunchFails, RunAnswered, RunRejected, RunSettles, StopDone, Judge,
           Unlock, Cancel, Exhausted, finishJob, ActsOnVerdict, Ends, Continues, TransitionJob,
           JobMoved, rows
  <2>2. /\ pc'[k] = pc[k] /\ tried'[k] = tried[k] /\ outcome'[k] = outcome[k]
        /\ waiters'[k] = waiters[k]
    BY <1>6
       DEF PlanReady, PlanThrows, LoopEnds, RefusedBeforeLaunch, NoCapacity, StartLaunch,
           LaunchOk, LaunchFails, RunAnswered, RunRejected, RunSettles, StopDone, Judge,
           Unlock, Cancel, Exhausted, finishJob, Returned, ActsOnVerdict, Ends, Continues, loopv,
           TypeInv, TypeOK, LoopTypes, WorldTypes
  <2>3. QED
    BY <1>1, <2>1, <2>2 DEF OnTrack, LastResult
<1>7. CASE PlanReady(k) \/ LoopEnds(k)
  <2>1. pc[k] \in {"plan", "loop"} /\ UNCHANGED <<waiters, tried, outcome>>
    BY <1>7 DEF PlanReady, LoopEnds, loopv
  <2>2. CASE TransitionJob(k, "failed") /\ pc' = [pc EXCEPT ![k] = "unlock"]
    BY <1>1, <1>2, <2>1, <2>2, TrackSettles DEF OnTrack, TypeInv, TypeOK, LoopTypes
  <2>3. CASE status' = status /\ pc' = [pc EXCEPT ![k] = "loop"]
    BY <1>1, <2>1, <2>3 DEF OnTrack, TypeInv, TypeOK, LoopTypes
  <2>4. QED
    BY <1>7, <2>2, <2>3 DEF PlanReady, LoopEnds, Exhausted, finishJob
<1>8. CASE PlanThrows(k)
  <2>1. /\ pc[k] = "plan" /\ pc' = [pc EXCEPT ![k] = "done"] /\ waiters' = waiters
        /\ \/ status' = status /\ status[k] \in Settled
           \/ TransitionJob(k, "needs_recovery")
    BY <1>8 DEF PlanThrows, TransitionJob
  <2>2. status'[k] \in Settled
    BY <1>1, <1>2, <2>1, TrackSettles
  <2>3. QED
    BY <1>1, <2>1, <2>2 DEF OnTrack, TypeInv, TypeOK, LoopTypes
<1>9. CASE RefusedBeforeLaunch(k) \/ NoCapacity(k) \/ LaunchFails(k)
  <2>1. PICK r \in RunResult : r.outcome = "failed" /\ Returned(k, r)
    BY <1>9, ReturnedFailed
  <2>2. Current(k) \in Tries /\ UNCHANGED <<status, waiters>>
    BY <1>9, CurrentType DEF RefusedBeforeLaunch, NoCapacity, LaunchFails, rows
  <2>3. pc'[k] = "judge" /\ tried'[k] = Current(k) /\ outcome'[k][Current(k)] = r
    BY <2>1, <2>2, EarlierResultsStay DEF Returned, Current, TypeInv, TypeOK, LoopTypes
  <2>4. QED
    BY <1>1, <2>1, <2>2, <2>3 DEF OnTrack, LastResult
<1>10. CASE StartLaunch(k) \/ LaunchOk(k)
  <2>1. CASE StartLaunch(k)
    BY <1>1, <2>1 DEF StartLaunch, OnTrack, loopv, TypeInv, TypeOK, LoopTypes
  <2>2. CASE LaunchOk(k)
    <3>1. pc[k] = "launch" /\ pc'[k] = "run" /\ waiters' = waiters
      BY <2>2 DEF LaunchOk, TypeInv, TypeOK, LoopTypes
    <3>2. status'[k] = Moved(status[k], "running")
      BY <2>2 DEF LaunchOk, TransitionJob, JobMoved, TypeInv, TypeOK, RowTypes
    <3>3. status'[k] \in {"running"} \cup Settled
      <4>1. CASE status[k] \in Settled
        BY <1>1, <4>1
      <4>2. CASE status[k] \in {"queued", "running"}
        BY <3>2, <4>2, LineMoves
      <4>3. QED
        BY <1>1, <1>2, <3>1, <4>1, <4>2 DEF OnTrack
    <3>4. QED
      BY <1>1, <3>1, <3>3 DEF OnTrack
  <2>3. QED
    BY <1>10, <2>1, <2>2
<1>11. CASE RunAnswered(k) \/ RunRejected(k) \/ StopDone(k)
  <2>1. /\ pc[k] \in {"run", "stop"} /\ UNCHANGED <<status, waiters>>
        /\ pc'[k] \in {"stop", "judge"}
    BY <1>11 DEF RunAnswered, RunRejected, RunSettles, StopDone, TypeInv, TypeOK, LoopTypes
  <2>2. QED
    BY <1>1, <2>1 DEF OnTrack
<1>12. CASE Judge(k)
  <2>1. pc[k] = "judge" /\ UNCHANGED <<waiters, tried, outcome>>
    BY <1>12 DEF Judge
  <2>2. CASE pc' = [pc EXCEPT ![k] = "loop"] /\ status' = status
    BY <1>1, <2>1, <2>2 DEF OnTrack, TypeInv, TypeOK, LoopTypes
  <2>3. CASE /\ pc' = [pc EXCEPT ![k] = "unlock"]
             /\ \E to \in {"failed", "cancelled", "needs_recovery"} : TransitionJob(k, to)
    BY <1>1, <1>2, <2>1, <2>3, TrackSettles DEF OnTrack, TypeInv, TypeOK, LoopTypes
  <2>4. CASE /\ pc' = [pc EXCEPT ![k] = "unlock"] /\ TransitionJob(k, "succeeded")
             /\ VerdictOf(k) = "succeed"
    <3>1. status[k] \in {"running"} \cup Settled
      BY <1>1, <2>1, <2>4, OnlyCleanSucceeds DEF OnTrack, VerdictOf, CleanSuccess
    <3>2. status'[k] = Moved(status[k], "succeeded")
      BY <2>4 DEF TransitionJob, JobMoved, TypeInv, TypeOK, RowTypes
    <3>3. status'[k] \in Settled
      BY <1>1, <3>1, <3>2, LineMoves, SettledValues
    <3>4. QED
      BY <1>1, <2>1, <2>4, <3>3 DEF OnTrack, TypeInv, TypeOK, LoopTypes
  <2>5. QED
    BY <1>12, <2>2, <2>3, <2>4 DEF Judge, ActsOnVerdict, Ends, Continues, finishJob
<1>13. CASE Cancel(k)
  <2>1. /\ UNCHANGED <<pc, tried, outcome, waiters>> /\ status[k] # "absent"
        /\ status' = status \/ TransitionJob(k, "cancelled")
    BY <1>13 DEF Cancel
  <2>2. status'[k] = status[k] \/ status'[k] \in Settled
    BY <1>1, <2>1, TrackSettles
  <2>3. QED
    BY <1>1, <2>1, <2>2 DEF OnTrack, LastResult
<1>u. CASE Unlock(k)
  BY <1>1, <1>u DEF Unlock, OnTrack, loopv, TypeInv, TypeOK, LoopTypes
<1>14. CASE Crash
  BY <1>1, <1>14 DEF Crash, OnTrack, rows
<1>15. CASE Restart
  <2>1. /\ UNCHANGED <<pc, tried, outcome, waiters>> /\ pc[k] = "idle"
        /\ status'[k] \in {status[k], Moved(status[k], "needs_recovery")}
    BY <1>15 DEF Restart, Life, Down
  <2>2. Moved(status[k], "needs_recovery") \in {status[k], "needs_recovery"}
    BY DEF Moved
  <2>3. QED
    BY <1>1, <2>1, <2>2, SettledValues DEF OnTrack
<1>16. QED
  BY <1>3, <1>4, <1>5, <1>6, <1>7, <1>8, <1>9, <1>10, <1>11, <1>12, <1>13, <1>14, <1>15, <1>u, TrackSteps

\* If jobs are never asked for approval, whatever verdict or refusal ends an
\* execution leaves its job settled: the transition table refuses none of these
\* moves.  (With approvals it does: a job left awaiting one cannot succeed.)
THEOREM Settles == ~Interactive => (Spec => []ExecutorSettles)
<1> SUFFICES ASSUME ~Interactive PROVE Spec => []ExecutorSettles
  OBVIOUS
<1>1. Init => SettleInv
  BY DEF Init, SettleInv, OnTrack
<1>2. TypeInv /\ Life /\ Owned /\ SettleInv /\ [Next]_vars => SettleInv'
  BY SettleStep
<1>3. SettleInv => ExecutorSettles
  BY DEF SettleInv, OnTrack, ExecutorSettles
<1>4. QED
  BY <1>1, <1>2, <1>3, Lifecycle, PTL DEF Spec

-----------------------------------------------------------------------------
(* Workspaces given back *)

\* Locks, plans and the end of an execution: Submit locks, PlanReady plans, and an
\* execution ends in Unlock, except for the planning that throws.
LEMMA FinishSteps ==
  ASSUME TypeInv, [Next]_vars
  PROVE  \/ \E j \in Jobs : Submit(j) \/ PlanThrows(j) \/ PlanReady(j) \/ Unlock(j)
         \/ /\ UNCHANGED <<lock, plan>>
            /\ \A k \in Jobs : pc'[k] \in {"done", "plan"} => pc'[k] = pc[k]
<1> DEFINE Quietly == /\ UNCHANGED <<lock, plan>>
                      /\ \A k \in Jobs : pc'[k] \in {"done", "plan"} => pc'[k] = pc[k]
<1> USE DEF TypeInv, TypeOK, LoopTypes
<1>1. UNCHANGED <<pc, lock, plan>> => Quietly
  OBVIOUS
<1>2. ASSUME NEW j \in Jobs,
             \/ LoopEnds(j) \/ Judge(j)
             \/ RefusedBeforeLaunch(j) \/ NoCapacity(j) \/ StartLaunch(j) \/ LaunchOk(j)
             \/ LaunchFails(j) \/ RunAnswered(j) \/ RunRejected(j) \/ StopDone(j)
      PROVE  Quietly
  <2>1. UNCHANGED <<lock, plan>>
    BY <1>2 DEF LoopEnds, Judge, RefusedBeforeLaunch, NoCapacity, StartLaunch, LaunchOk,
         LaunchFails, RunAnswered, RunRejected, RunSettles, StopDone, loopv, rows
  <2>2. \E v \in {"unlock", "loop", "judge", "launch", "run", "stop"} :
          pc' = [pc EXCEPT ![j] = v]
    BY <1>2 DEF LoopEnds, Judge, RefusedBeforeLaunch, NoCapacity, StartLaunch, LaunchOk,
         LaunchFails, RunAnswered, RunRejected, RunSettles, StopDone, Returned, Exhausted,
         finishJob, ActsOnVerdict, Ends, Continues
  <2>3. QED
    BY <2>1, <2>2
<1>3. ASSUME NEW j \in Jobs, PermissionRequired(j) \/ WaiterFires(j) \/ Cancel(j)
      PROVE  UNCHANGED <<pc, lock, plan>>
  BY <1>3 DEF PermissionRequired, WaiterFires, Cancel, loopv
<1>4. Crash \/ Restart => Quietly
  BY DEF Crash, Restart, rows, loopv
<1>5. ASSUME NEW j \in Jobs, \/ CancelReturns(j) \/ CancelKills(j) \/ ChildReported(j)
                             \/ DeadlinePasses(j) \/ \E n \in Tries : Environment(j, n)
      PROVE  UNCHANGED <<pc, lock, plan>>
  BY <1>5 DEF CancelReturns, CancelKills, ChildReported, DeadlinePasses, Environment,
       ChildStarts, PluginExits, ChildExits, rows, loopv
<1>6. Shutdown \/ UNCHANGED vars => UNCHANGED <<pc, lock, plan>>
  BY DEF Shutdown, vars, rows, loopv
<1> HIDE DEF Quietly
<1>7. \/ \E j \in Jobs : Submit(j) \/ PlanThrows(j) \/ PlanReady(j) \/ Unlock(j)
      \/ Quietly
  <2>1. ASSUME NEW j \in Jobs, Executes(j), ~PlanThrows(j), ~PlanReady(j), ~Unlock(j)
        PROVE  Quietly
    BY <1>2, <2>1 DEF Executes, OnItsOwn, LoopStep
  <2>2. CASE UNCHANGED <<pc, lock, plan>>
    BY <1>1, <2>2
  <2>3. CASE \E j \in Jobs : Submit(j) \/ Executes(j)
    BY <2>1, <2>3
  <2>4. QED
    BY <1>3, <1>4, <1>5, <1>6, <2>2, <2>3, Zenon DEF Next
<1>8. QED
  BY <1>7 DEF Quietly

LEMMA NoPlanYetStep ==
  ASSUME TypeInv, Life, NoPlanYet, [Next]_vars
  PROVE  NoPlanYet'
<1> SUFFICES ASSUME NEW k \in Jobs, status'[k] = "absent" \/ pc'[k] = "plan"
             PROVE  plan'[k] = <<>>
  BY DEF NoPlanYet
<1> USE DEF TypeInv, TypeOK, LoopTypes
<1>1. status'[k] = "absent" => status[k] = "absent"
  BY StatusStays
<1>2. status[k] = "absent" => pc[k] = "idle"
  BY DEF Life, Unborn
<1>3. CASE \E j \in Jobs : Submit(j) \/ PlanThrows(j) \/ Unlock(j)
  BY <1>1, <1>2, <1>3 DEF Submit, PlanThrows, Unlock, NoPlanYet, loopv
<1>4. ASSUME NEW j \in Jobs, PlanReady(j) PROVE plan'[k] = <<>>
  <2>1. /\ pc[j] = "plan" /\ pc'[j] # "plan"
        /\ \A i \in Jobs : i # j => pc'[i] = pc[i] /\ plan'[i] = plan[i]
    BY <1>4 DEF PlanReady, Exhausted, finishJob
  <2>2. k # j
    BY <1>1, <1>2, <2>1
  <2>3. QED
    BY <1>1, <2>1, <2>2 DEF NoPlanYet
<1>5. CASE plan' = plan /\ (pc'[k] = "plan" => pc'[k] = pc[k])
  BY <1>1, <1>5 DEF NoPlanYet
<1>6. QED
  BY <1>3, <1>4, <1>5, FinishSteps

\* A job that was submitted and is not being executed lost its daemon.
IdleByCrash == \A j \in Jobs : pc[j] = "idle" /\ status[j] # "absent" => crashes # 0

LEMMA IdleStep ==
  ASSUME TypeInv, Life, IdleByCrash, [Next]_vars
  PROVE  IdleByCrash'
<1> SUFFICES ASSUME NEW k \in Jobs, pc'[k] = "idle", status'[k] # "absent"
             PROVE  crashes' # 0
  BY DEF IdleByCrash
<1> USE DEF TypeInv, TypeOK, LoopTypes, RowTypes
<1>1. CASE Crash
  BY <1>1, RuntimeAssumption DEF Crash, WorldTypes, RuntimeAssumption
<1>2. CASE crashes' = crashes
  <2>1. pc[k] = "idle" /\ status[k] = "absent" => status'[k] = "absent" \/ pc'[k] # "idle"
    <3> SUFFICES ASSUME pc[k] = "idle", status[k] = "absent", status'[k] # status[k]
                 PROVE  pc'[k] # "idle"
      OBVIOUS
    <3>1. waiters[k] = {} /\ \A n \in Tries : att[k][n] = "absent"
      BY DEF Life, Unborn, Fresh
    <3>2. ~Restart
      BY <3>1 DEF Restart, Unfinished, NonTerminalRow
    <3>3. \A j \in Jobs : \A to : TransitionJob(j, to) => j = k
      BY StatusMoves
    <3>4. ASSUME NEW j \in Jobs,
                 \/ PlanReady(j) \/ PlanThrows(j) \/ LoopEnds(j) \/ LaunchOk(j) \/ Judge(j)
                 \/ PermissionRequired(j) \/ WaiterFires(j) \/ Cancel(j)
          PROVE  FALSE
      <4>1. \E to : TransitionJob(j, to)
        BY <3>4 DEF PlanReady, PlanThrows, LoopEnds, LaunchOk, Judge, PermissionRequired,
             WaiterFires, Cancel, Exhausted, ActsOnVerdict, Ends, Continues, finishJob, TransitionJob
      <4>2. j = k
        BY <3>3, <4>1
      <4>3. QED
        BY <3>1, <3>4, <4>2 DEF PlanReady, PlanThrows, LoopEnds, LaunchOk, Judge,
             PermissionRequired, WaiterFires, Cancel
    <3>5. ASSUME NEW j \in Jobs, Submit(j) PROVE pc'[k] # "idle"
      BY <3>5 DEF Submit
    <3>6. QED
      BY <3>2, <3>4, <3>5, StatusSteps
         DEF Crash, RefusedBeforeLaunch, NoCapacity, StartLaunch, LaunchFails, RunAnswered,
             RunRejected, RunSettles, StopDone, Unlock, rows
  <2>2. pc[k] = "idle"
    <3>1. ASSUME NEW j \in Jobs,
                 \/ Submit(j) \/ PlanReady(j) \/ PlanThrows(j) \/ LoopEnds(j)
                 \/ RefusedBeforeLaunch(j) \/ NoCapacity(j) \/ StartLaunch(j) \/ LaunchOk(j)
                 \/ LaunchFails(j) \/ RunAnswered(j) \/ RunRejected(j) \/ StopDone(j)
                 \/ Judge(j) \/ Unlock(j)
          PROVE  pc[k] = "idle"
      <4>1. \E v \in {"plan", "unlock", "done", "judge", "launch", "run", "stop", "loop"} :
              pc' = [pc EXCEPT ![j] = v]
        BY <3>1 DEF Submit, PlanReady, PlanThrows, LoopEnds, RefusedBeforeLaunch, NoCapacity,
             StartLaunch, LaunchOk, LaunchFails, RunAnswered, RunRejected, RunSettles, StopDone,
             Judge, Unlock, Returned, Exhausted, finishJob, ActsOnVerdict, Ends, Continues
      <4>2. QED
        BY <4>1
    <3>2. CASE \E j \in Jobs : PermissionRequired(j) \/ WaiterFires(j) \/ Cancel(j)
      BY <3>2 DEF PermissionRequired, WaiterFires, Cancel
    <3>3. CASE Restart \/ UNCHANGED <<status, pc, lock>>
      BY <3>3 DEF Restart
    <3>4. ~Crash
      BY <1>2 DEF Crash, WorldTypes
    <3>5. QED
      BY <3>1, <3>2, <3>3, <3>4, StatusSteps
  <2>3. QED
    BY <1>2, <2>1, <2>2 DEF IdleByCrash
<1>3. QED
  BY <1>1, <1>2, CrashesStay

\* Unlock leaves the lock of its job, if terminal, with nobody, and locks nothing.
LEMMA UnlockFrees ==
  ASSUME TypeInv, NEW j \in Jobs, Unlock(j)
  PROVE  \A k \in Jobs : HandleOf[k] # NoHandle =>
           /\ lock[HandleOf[k]] # k => lock'[HandleOf[k]] # k
           /\ k = j /\ status'[k] \in Terminal => lock'[HandleOf[k]] # k
<1> SUFFICES ASSUME NEW k \in Jobs, HandleOf[k] # NoHandle
             PROVE  /\ lock[HandleOf[k]] # k => lock'[HandleOf[k]] # k
                    /\ k = j /\ status'[k] \in Terminal => lock'[HandleOf[k]] # k
  OBVIOUS
<1>1. HandleOf[k] \in Handles /\ Nobody \notin Jobs
  BY RuntimeAssumption DEF RuntimeAssumption
<1>2. /\ lock' = IF HandleOf[j] # NoHandle /\ status[j] \in Terminal /\ lock[HandleOf[j]] = j
                 THEN [lock EXCEPT ![HandleOf[j]] = Nobody] ELSE lock
      /\ status' = status
  BY DEF Unlock, UnlockedIfTerminal
<1>3. QED
  BY <1>1, <1>2 DEF TypeInv, TypeOK, RowTypes

LEMMA LockFreedStep ==
  ASSUME TypeInv, Life, SettleInv, NoPlanYet, IdleByCrash', LockFreed, [Next]_vars
  PROVE  LockFreed'
<1> SUFFICES ASSUME NEW k \in Jobs, status'[k] \in Terminal, HandleOf[k] # NoHandle,
                    pc'[k] = "done", plan'[k] # <<>>
             PROVE  lock'[HandleOf[k]] # k
  <2>1. \A k \in Jobs : pc'[k] \in {"idle", "done"} \cup AtAwait \cup MidHandler
    BY TypeStep DEF TypeInv, TypeOK, LoopTypes, PcValue
  <2>2. \A k \in Jobs : status'[k] \in Terminal /\ pc'[k] = "idle" => crashes' # 0
    BY DEF IdleByCrash, Terminal
  <2>3. QED
    BY <2>1, <2>2 DEF LockFreed
<1> USE DEF TypeInv, TypeOK, LoopTypes, RowTypes
<1>1. pc[k] = "done" => status'[k] = status[k]
  BY SettledStep DEF SettleInv, OnTrack
<1>2. pc[k] = "done" /\ plan'[k] = plan[k] => lock[HandleOf[k]] # k
  BY <1>1 DEF LockFreed, AtAwait, MidHandler, Deciding
<1>3. ASSUME NEW j \in Jobs, Submit(j) PROVE lock'[HandleOf[k]] # k
  <2>1. /\ k # j /\ pc[k] = "done" /\ plan'[k] = plan[k]
        /\ lock' = lock \/ lock' = [lock EXCEPT ![HandleOf[j]] = j]
    BY <1>3 DEF Submit, loopv
  <2>2. QED
    BY <1>2, <2>1, RuntimeAssumption DEF RuntimeAssumption
<1>4. ASSUME NEW j \in Jobs, PlanThrows(j) PROVE lock'[HandleOf[k]] # k
  <2>1. plan' = plan /\ lock' = lock /\ pc[j] = "plan" /\ pc' = [pc EXCEPT ![j] = "done"]
    BY <1>4 DEF PlanThrows, loopv
  <2>2. k # j
    BY <2>1 DEF NoPlanYet
  <2>3. QED
    BY <1>2, <2>1, <2>2
<1>5. ASSUME NEW j \in Jobs, PlanReady(j) PROVE lock'[HandleOf[k]] # k
  <2>1. /\ lock' = lock /\ pc'[j] # "done"
        /\ \A i \in Jobs : i # j => pc'[i] = pc[i] /\ plan'[i] = plan[i]
    BY <1>5 DEF PlanReady, Exhausted, finishJob
  <2>2. QED
    BY <1>2, <2>1
<1>6. ASSUME NEW j \in Jobs, Unlock(j) PROVE lock'[HandleOf[k]] # k
  <2>1. plan' = plan /\ pc' = [pc EXCEPT ![j] = "done"]
    BY <1>6 DEF Unlock, loopv
  <2>2. CASE k = j
    BY <1>6, <2>2, UnlockFrees
  <2>3. CASE k # j
    BY <1>2, <1>6, <2>1, <2>3, UnlockFrees
  <2>4. QED
    BY <2>2, <2>3
<1>7. CASE UNCHANGED <<lock, plan>> /\ pc'[k] = pc[k]
  BY <1>2, <1>7
<1>8. QED
  BY <1>3, <1>4, <1>5, <1>6, <1>7, FinishSteps

\* The safety half of LockReturned, over crashes and restarts: if jobs are never asked
\* for approval, a terminal job that still holds its workspace is being executed and has
\* its Unlock ahead, or got no plan, or a daemon died over it; the last two keep it.
\* (With approvals a job left awaiting one is cancelled later, and cancel() unlocks
\* nothing.)
THEOREM LocksGivenBack == ~Interactive => (Spec => []LockFreed)
<1> SUFFICES ASSUME ~Interactive PROVE Spec => []LockFreed
  OBVIOUS
<1>1. Init => SettleInv /\ NoPlanYet /\ IdleByCrash /\ LockFreed
  BY DEF Init, SettleInv, OnTrack, NoPlanYet, IdleByCrash, LockFreed, Terminal
<1>2. TypeInv /\ Life /\ SettleInv /\ NoPlanYet /\ IdleByCrash /\ LockFreed /\ [Next]_vars
        => SettleInv' /\ NoPlanYet' /\ IdleByCrash' /\ LockFreed'
  BY SettleStep, NoPlanYetStep, IdleStep, LockFreedStep
<1>3. QED
  BY <1>1, <1>2, Lifecycle, PTL DEF Spec

-----------------------------------------------------------------------------
\* The attempts of j a result was filed for are those up to this one.
Heard(j) == IF pc[j] = "stop" THEN Current(j) ELSE tried[j]

Unheard ==
  \A j \in Jobs, n \in Tries :
    (status[j] = "absent" \/ pc[j] \in Executing) /\ n > Heard(j)
      => outcome[j][n] = UnknownOutcome

Dispatched ==
  \A j \in Jobs :
    /\ pc[j] \in {"run", "stop"} => Current(j) \in sent[j]
    /\ pc[j] = "judge" /\ LastResult(j).outcome = "completed" => tried[j] \in sent[j]

FailedIsOver == \A j \in Jobs : status[j] = "failed" => pc[j] \notin Executing

Dispatching == Unheard /\ Dispatched /\ FailedIsOver

-----------------------------------------------------------------------------
\* What execution k is at changes only by its own steps and by a crash.
LEMMA OwnSteps ==
  ASSUME TypeInv, [Next]_vars, NEW k \in Jobs
  PROVE  \/ /\ pc'[k] \in {pc[k], "idle"}
            /\ tried'[k] = tried[k] /\ outcome'[k] = outcome[k] /\ sent'[k] = sent[k]
         \/ Submit(k) \/ PlanReady(k) \/ PlanThrows(k) \/ LoopEnds(k)
         \/ RefusedBeforeLaunch(k) \/ NoCapacity(k) \/ StartLaunch(k) \/ LaunchOk(k)
         \/ LaunchFails(k) \/ RunAnswered(k) \/ RunRejected(k) \/ StopDone(k) \/ Judge(k)
         \/ Unlock(k)
<1>1. CASE UNCHANGED <<pc, tried, outcome, sent, att>> \/ Crash \/ Restart
  BY <1>1 DEF Crash, Restart
<1>2. ASSUME NEW j \in Jobs, j # k,
             \/ Submit(j) \/ PlanReady(j) \/ PlanThrows(j) \/ LoopEnds(j)
             \/ RefusedBeforeLaunch(j) \/ NoCapacity(j) \/ StartLaunch(j) \/ LaunchOk(j)
             \/ LaunchFails(j) \/ RunAnswered(j) \/ RunRejected(j) \/ StopDone(j) \/ Judge(j)
             \/ Unlock(j)
      PROVE  /\ pc'[k] = pc[k]
             /\ tried'[k] = tried[k] /\ outcome'[k] = outcome[k] /\ sent'[k] = sent[k]
  BY <1>2 DEF Submit, PlanReady, PlanThrows, LoopEnds, RefusedBeforeLaunch, NoCapacity,
              StartLaunch, LaunchOk, LaunchFails, RunAnswered, RunRejected, RunSettles,
              StopDone, Judge, Unlock, Exhausted, finishJob, Returned, ActsOnVerdict, Ends, Continues, loopv,
              TypeInv, TypeOK, LoopTypes, WorldTypes
<1>3. QED
  BY <1>1, <1>2, ResultSteps

LEMMA FailedStep ==
  ASSUME TypeInv, Life, FailedIsOver, [Next]_vars
  PROVE  FailedIsOver'
<1> SUFFICES ASSUME NEW k \in Jobs, status'[k] = "failed", pc'[k] \in Executing
             PROVE  FALSE
  BY DEF FailedIsOver, Executing
<1>1. CASE status[k] = "failed"
  <2>1. pc[k] \notin Executing
    BY <1>1 DEF FailedIsOver
  <2>2. ~Submit(k)
    BY <1>1 DEF Submit
  <2>3. ~Unlock(k)
    BY DEF Unlock, Executing, AtAwait, Deciding, TypeInv, TypeOK, LoopTypes
  <2>4. QED
    BY <2>1, <2>2, <2>3, OwnSteps
       DEF PlanReady, PlanThrows, LoopEnds, RefusedBeforeLaunch, NoCapacity, StartLaunch,
           LaunchOk, LaunchFails, RunAnswered, RunRejected, StopDone, Judge, Executing,
           AtAwait, MidHandler, Deciding
<1>2. CASE status[k] # "failed"
  <2>1. \A j \in Jobs : \A to : TransitionJob(j, to) => j = k /\ to = "failed"
    BY <1>2, StatusMoves
  <2>2. \A j \in Jobs :
          /\ ~PlanThrows(j) /\ ~LaunchOk(j) /\ ~PermissionRequired(j) /\ ~WaiterFires(j)
          /\ ~Cancel(j) /\ ~Submit(j)
    BY <1>2, <2>1, MovedType
       DEF PlanThrows, LaunchOk, PermissionRequired, WaiterFires, Cancel, Submit, JobMoved,
           TypeInv, TypeOK, RowTypes
  <2>3. ~Restart
    <3>1. Restart => status'[k] \in {status[k], Moved(status[k], "needs_recovery")}
      BY DEF Restart
    <3>2. Moved(status[k], "needs_recovery") \in {status[k], "needs_recovery"}
      BY DEF Moved
    <3>3. QED
      BY <1>2, <3>1, <3>2
  <2>4. PICK j \in Jobs : PlanReady(j) \/ LoopEnds(j) \/ Judge(j)
    BY <1>2, <2>2, <2>3, StatusSteps
       DEF Crash, RefusedBeforeLaunch, NoCapacity, StartLaunch, LaunchFails, RunAnswered,
           RunRejected, RunSettles, StopDone, Unlock, rows
  <2>5. \E to : TransitionJob(j, to) /\ pc' = [pc EXCEPT ![j] = "unlock"]
    BY <1>2, <2>4 DEF PlanReady, LoopEnds, Judge, Exhausted, finishJob, ActsOnVerdict, Ends,
                      Continues
  <2>6. pc'[k] = "unlock"
    BY <2>1, <2>5 DEF TypeInv, TypeOK, LoopTypes
  <2>7. QED
    BY <2>6 DEF Executing, AtAwait, MidHandler, Deciding
<1>3. QED
  BY <1>1, <1>2

LEMMA DispatchedStep ==
  ASSUME TypeInv, Life, Dispatched, [Next]_vars
  PROVE  Dispatched'
<1> SUFFICES ASSUME NEW k \in Jobs
             PROVE  /\ pc'[k] \in {"run", "stop"} => Current(k)' \in sent'[k]
                    /\ pc'[k] = "judge" /\ LastResult(k)'.outcome = "completed"
                         => tried'[k] \in sent'[k]
  BY DEF Dispatched
<1>1. /\ pc[k] \in {"run", "stop"} => Current(k) \in sent[k]
      /\ pc[k] = "judge" /\ LastResult(k).outcome = "completed" => tried[k] \in sent[k]
  BY DEF Dispatched
<1>2. CASE /\ pc'[k] \in {pc[k], "idle"}
           /\ tried'[k] = tried[k] /\ outcome'[k] = outcome[k] /\ sent'[k] = sent[k]
  BY <1>1, <1>2 DEF Current, LastResult
<1>3. CASE \/ Submit(k) \/ PlanReady(k) \/ PlanThrows(k) \/ LoopEnds(k) \/ StartLaunch(k)
           \/ Judge(k) \/ Unlock(k)
  <2>1. \E to \in {"plan", "loop", "unlock", "done", "launch"} : pc' = [pc EXCEPT ![k] = to]
    BY <1>3 DEF Submit, PlanReady, PlanThrows, LoopEnds, StartLaunch, Judge, Unlock,
                ActsOnVerdict, Ends, Continues, Exhausted, finishJob
  <2>2. QED
    BY <2>1 DEF TypeInv, TypeOK, LoopTypes
<1>4. CASE RefusedBeforeLaunch(k) \/ NoCapacity(k) \/ LaunchFails(k)
  <2>1. PICK r \in RunResult : r.outcome = "failed" /\ Returned(k, r)
    BY <1>4, ReturnedFailed
  <2>2. Current(k) \in Tries
    BY <1>4, CurrentType DEF RefusedBeforeLaunch, NoCapacity, LaunchFails
  <2>3. pc'[k] = "judge" /\ tried'[k] = Current(k) /\ outcome'[k][Current(k)] = r
    BY <2>1, <2>2, EarlierResultsStay DEF Returned, Current, TypeInv, TypeOK, LoopTypes
  <2>4. QED
    BY <2>1, <2>3 DEF LastResult
<1>5. CASE LaunchOk(k)
  BY <1>5 DEF LaunchOk, Current, loopv, TypeInv, TypeOK, LoopTypes, WorldTypes
<1>6. CASE RunAnswered(k) \/ RunRejected(k)
  <2>1. pc[k] = "run" /\ pc'[k] = "stop" /\ UNCHANGED <<tried, sent>>
    BY <1>6 DEF RunAnswered, RunRejected, RunSettles, TypeInv, TypeOK, LoopTypes
  <2>2. QED
    BY <1>1, <2>1 DEF Current
<1>7. CASE StopDone(k)
  <2>1. pc[k] = "stop" /\ pc'[k] = "judge" /\ tried'[k] = Current(k) /\ sent' = sent
    BY <1>7 DEF StopDone, Current, TypeInv, TypeOK, LoopTypes
  <2>2. QED
    BY <1>1, <2>1
<1>8. QED
  BY <1>2, <1>3, <1>4, <1>5, <1>6, <1>7, OwnSteps

\* A submitted job stays submitted.
LEMMA BornStays ==
  ASSUME TypeInv, [Next]_vars, NEW k \in Jobs, status'[k] = "absent"
  PROVE  status[k] = "absent"
<1> SUFFICES ASSUME status[k] # "absent" PROVE FALSE
  OBVIOUS
<1>1. \A j \in Jobs : \A to : TransitionJob(j, to) => to = "absent"
  BY StatusMoves
<1>2. \A to : to # "absent" => Moved(status[k], to) # "absent"
  BY DEF Moved
<1>3. ASSUME NEW j \in Jobs, PlanReady(j) \/ LoopEnds(j) \/ Judge(j) PROVE FALSE
  <2>1. status' = status \/ \E to \in Settled : TransitionJob(j, to)
    BY <1>3 DEF PlanReady, LoopEnds, Judge, Exhausted, finishJob, ActsOnVerdict, Ends,
                Continues, Settled, Terminal
  <2>2. QED
    BY <1>1, <2>1, SettledValues
<1>4. ASSUME NEW j \in Jobs,
             PlanThrows(j) \/ LaunchOk(j) \/ PermissionRequired(j) \/ WaiterFires(j) \/ Cancel(j)
      PROVE  FALSE
  <2>1. status' = status \/ \E to \in JobState : TransitionJob(j, to)
    BY <1>4 DEF PlanThrows, LaunchOk, PermissionRequired, WaiterFires, Cancel, JobState,
                TransitionJob
  <2>2. QED
    BY <1>1, <2>1 DEF JobState
<1>5. ASSUME NEW j \in Jobs, Submit(j) PROVE FALSE
  BY <1>5 DEF Submit, TypeInv, TypeOK, RowTypes
<1>6. CASE Restart
  BY <1>2, <1>6 DEF Restart
<1>7. QED
  BY <1>3, <1>4, <1>5, <1>6, StatusSteps
     DEF Crash, RefusedBeforeLaunch, NoCapacity, StartLaunch, LaunchFails, RunAnswered,
         RunRejected, RunSettles, StopDone, Unlock, rows

LEMMA UnheardStep ==
  ASSUME TypeInv, Life, Unheard, [Next]_vars
  PROVE  Unheard'
<1> SUFFICES ASSUME NEW k \in Jobs, NEW n \in Tries,
                    status'[k] = "absent" \/ pc'[k] \in Executing, n > Heard(k)'
             PROVE  outcome'[k][n] = UnknownOutcome
  BY DEF Unheard, Executing
<1>1. (status[k] = "absent" \/ pc[k] \in Executing) /\ n > Heard(k)
        => outcome[k][n] = UnknownOutcome
  BY DEF Unheard
<1>2. status'[k] = "absent" => status[k] = "absent" /\ pc[k] = "idle"
  BY BornStays DEF Life, Unborn
<1>3. CASE /\ pc'[k] \in {pc[k], "idle"}
           /\ tried'[k] = tried[k] /\ outcome'[k] = outcome[k] /\ sent'[k] = sent[k]
  <2>1. CASE pc'[k] = pc[k]
    BY <1>1, <1>2, <1>3, <2>1 DEF Heard, Current
  <2>2. CASE pc'[k] = "idle"
    BY <1>1, <1>2, <1>3, <2>2 DEF Heard, Executing, AtAwait, MidHandler, Deciding
  <2>3. QED
    BY <1>3, <2>1, <2>2
<1>4. CASE \/ Submit(k) \/ PlanReady(k) \/ PlanThrows(k) \/ LoopEnds(k) \/ StartLaunch(k)
           \/ LaunchOk(k) \/ Judge(k)
  <2>1. /\ UNCHANGED <<tried, outcome>>
        /\ \E to \in {"plan", "loop", "unlock", "done", "launch", "run"} :
             pc' = [pc EXCEPT ![k] = to]
        /\ pc[k] \in {"plan", "loop", "launch", "judge"} \/ status[k] = "absent"
    BY <1>4 DEF Submit, PlanReady, PlanThrows, LoopEnds, LaunchOk, StartLaunch, Judge,
                ActsOnVerdict, Ends, Continues, Exhausted, finishJob, loopv
  <2>2. Heard(k) = tried[k] /\ Heard(k)' = tried[k]
    BY <2>1 DEF Heard, Life, Unborn, TypeInv, TypeOK, LoopTypes
  <2>3. QED
    BY <1>1, <2>1, <2>2 DEF Executing, AtAwait, MidHandler, Deciding
<1>5. CASE \/ RefusedBeforeLaunch(k) \/ NoCapacity(k) \/ LaunchFails(k)
  <2>1. PICK r \in RunResult : Returned(k, r)
    BY <1>5, ReturnedFailed
  <2>2. pc[k] \in {"loop", "launch"}
    BY <1>5 DEF RefusedBeforeLaunch, NoCapacity, LaunchFails
  <2>3. Heard(k) = tried[k] /\ Heard(k)' = tried[k] + 1
    BY <2>1, <2>2 DEF Returned, Heard, TypeInv, TypeOK, LoopTypes
  <2>4. \A i \in Tries : i # Current(k) => outcome'[k][i] = outcome[k][i]
    BY <2>1 DEF Returned, TypeInv, TypeOK, WorldTypes
  <2>5. n > Heard(k) /\ n # Current(k)
    BY <2>3 DEF Current, Tries, TypeInv, TypeOK, LoopTypes
  <2>6. pc[k] \in Executing
    BY <2>2 DEF Executing, AtAwait, MidHandler, Deciding
  <2>7. QED
    BY <1>1, <2>4, <2>5, <2>6
<1>6. CASE RunAnswered(k) \/ RunRejected(k)
  <2>1. PICK r, to : RunSettles(k, r, to)
    BY <1>6 DEF RunAnswered, RunRejected
  <2>2. pc[k] = "run"
    BY <1>6 DEF RunAnswered, RunRejected
  <2>3. Heard(k) = tried[k] /\ Heard(k)' = tried[k] + 1
    BY <2>1, <2>2 DEF RunSettles, Heard, Current, TypeInv, TypeOK, LoopTypes
  <2>4. \A i \in Tries : i # Current(k) => outcome'[k][i] = outcome[k][i]
    BY <2>1 DEF RunSettles, TypeInv, TypeOK, WorldTypes
  <2>5. QED
    BY <1>1, <2>2, <2>3, <2>4 DEF Current, Tries, Executing, AtAwait, MidHandler, Deciding, TypeInv, TypeOK, LoopTypes
<1>7. CASE StopDone(k)
  <2>1. /\ pc[k] = "stop" /\ pc'[k] = "judge" /\ tried'[k] = Current(k)
        /\ outcome' = outcome
    BY <1>7 DEF StopDone, Current, TypeInv, TypeOK, LoopTypes
  <2>2. QED
    BY <1>1, <2>1 DEF Heard, Executing, AtAwait, MidHandler, Deciding
<1>8. CASE Unlock(k)
  <2>1. pc'[k] = "done" /\ pc[k] = "unlock"
    BY <1>8 DEF Unlock, TypeInv, TypeOK, LoopTypes
  <2>2. QED
    BY <1>2, <2>1 DEF Executing, AtAwait, Deciding
<1>9. QED
  BY <1>3, <1>4, <1>5, <1>6, <1>7, <1>8, OwnSteps

-----------------------------------------------------------------------------
(* The mapping *)

AllClean(j) == \A n \in sent[j] : CameToNothing(outcome[j][n])

LEMMA SentFinite ==
  ASSUME TypeInv, NEW j \in Jobs
  PROVE  /\ IsFiniteSet(sent[j]) /\ Cardinality(sent[j]) \in Nat
         /\ sent[j] # {} => Cardinality(sent[j]) > 0
<1>1. sent[j] \subseteq 1 .. MaxAttempts
  BY DEF TypeInv, TypeOK, WorldTypes, Tries
<1>2. IsFiniteSet(1 .. MaxAttempts)
  <2>1. 1 \in Int /\ MaxAttempts \in Int
    BY RuntimeAssumption DEF RuntimeAssumption
  <2>2. QED
    BY <2>1, FS_Interval
<1>3. IsFiniteSet(sent[j])
  BY <1>1, <1>2, FS_Subset
<1>4. QED
  BY <1>3, FS_CardinalityType, FS_EmptySet

\* What an execution has sent when it launches the next attempt.
LEMMA SentBeforeLaunch ==
  ASSUME TypeInv, Life, Owned, CleanSoFar, NEW j \in Jobs, pc[j] = "launch"
  PROVE  AllClean(j) /\ Current(j) \notin sent[j] /\ Cardinality(sent[j]) < MaxAttempts
<1>1. Current(j) \notin sent[j] /\ tried[j] < MaxAttempts /\ tried[j] \in Nat
  BY DEF Owned, BusyPc, TypeInv, TypeOK, TriesLeft, LoopTypes
<1>2. \A m \in sent[j] : m \in Tries /\ m <= Current(j)
  BY SentIsBegun DEF Executing, AtAwait, Begun, BusyPc
<1>3. sent[j] \subseteq 1 .. tried[j]
  BY <1>1, <1>2 DEF Current, Tries
<1>4. AllClean(j)
  BY <1>3 DEF AllClean, CleanSoFar, Clean, CameToNothing, BusyPc
<1>5. Cardinality(sent[j]) <= tried[j]
  <2>1. IsFiniteSet(1 .. tried[j]) /\ Cardinality(1 .. tried[j]) = tried[j]
    <3>1. 1 \in Int /\ tried[j] \in Int /\ tried[j] - 1 + 1 = tried[j] /\ ~ (1 > tried[j] /\ tried[j] # 0)
      BY <1>1
    <3>2. QED
      BY <1>1, <3>1, FS_Interval, SMTT(30)
  <2>2. QED
    BY <1>3, <2>1, FS_Subset
<1>6. QED
  BY <1>1, <1>4, <1>5, SentFinite, RuntimeAssumption DEF RuntimeAssumption

LEMMA PhaseValues ==
  ASSUME NEW s \in JobState \cup {"absent"}
  PROVE  /\ s = "absent" => PhaseOf(s) = "none"
         /\ s \in Settled => PhaseOf(s) = s
         /\ s \in NonTerminalRow => PhaseOf(s) = "open"
         /\ s \in {"absent"} \cup Settled \cup NonTerminalRow
BY DEF PhaseOf, JobState, Settled, Terminal, NonTerminalRow

\* A step that files no result of a dispatched attempt changes runs and clean of none.
LEMMA SameRuns ==
  ASSUME sent' = sent,
         \A j \in Jobs : \A n \in sent[j] : outcome'[j][n] = outcome[j][n]
  PROVE  /\ [j \in Jobs |-> Cardinality(sent[j])]' = [j \in Jobs |-> Cardinality(sent[j])]
         /\ [j \in Jobs |-> AllClean(j)]' = [j \in Jobs |-> AllClean(j)]
<1>1. \A j \in Jobs : AllClean(j)' = AllClean(j)
  BY DEF AllClean
<1>2. QED
  BY <1>1

LEMMA MoveMaps ==
  ASSUME TypeInv, Life, [Next]_vars, NEW j \in Jobs, status[j] # "absent",
         NEW to \in JobState, TransitionJob(j, to), UNCHANGED <<sent, outcome>>,
         to = "queued" => FALSE,
         to = "succeeded" => sent[j] # {}
  PROVE  [Promise!Next]_(Promise!vars)
<1> DEFINE ph == [k \in Jobs |-> PhaseOf(status[k])]
           rs == [k \in Jobs |-> Cardinality(sent[k])]
<1>1. /\ rs' = rs /\ [k \in Jobs |-> AllClean(k)]' = [k \in Jobs |-> AllClean(k)]
  BY SameRuns
<1>2. status' = [status EXCEPT ![j] = Moved(status[j], to)]
      /\ Moved(status[j], to) \in {status[j], to}
  BY DEF TransitionJob, JobMoved, Moved
<1>3. status[j] \in Settled => status'[j] = status[j]
  BY SettledStep
<1>4. status'[j] \in {status[j], to} /\ \A k \in Jobs : k # j => status'[k] = status[k]
  BY <1>2 DEF TypeInv, TypeOK, RowTypes
<1>5. status[j] \in JobState /\ status'[j] \in JobState
  BY <1>4 DEF TypeInv, TypeOK, RowTypes
<1>6. ph' = [ph EXCEPT ![j] = PhaseOf(status'[j])]
  BY <1>4
<1>7. CASE PhaseOf(status'[j]) = PhaseOf(status[j])
  <2>1. ph' = ph
    BY <1>4, <1>7
  <2>2. QED
    BY <1>1, <2>1 DEF Promise!vars, AllClean
<1>8. CASE PhaseOf(status'[j]) # PhaseOf(status[j])
  <2>1. ph[j] = "open" /\ status'[j] = to /\ to \in Settled /\ PhaseOf(to) = to
    <3>1. status'[j] = to /\ status[j] \notin Settled
      BY <1>3, <1>4, <1>8
    <3>2. status[j] \in NonTerminalRow
      BY <1>5, <3>1 DEF JobState, NonTerminalRow, Settled, Terminal
    <3>3. PhaseOf(status[j]) = "open"
      BY <1>5, <3>2, PhaseValues
    <3>4. to \notin NonTerminalRow
      BY <1>8, <3>1, <3>3, PhaseValues
    <3>5. to \in Settled
      BY <3>4 DEF JobState, NonTerminalRow, Settled, Terminal
    <3>6. QED
      BY <3>1, <3>3, <3>5, PhaseValues
  <2>2. to \in {"succeeded", "failed", "cancelled", "needs_recovery"}
    BY <2>1, SettledValues
  <2>3. to = "succeeded" => rs[j] > 0
    BY SentFinite
  <2>4. Promise!Settle(j)
    BY <1>1, <1>6, <2>1, <2>2, <2>3 DEF Promise!Settle, Promise!Outcomes, AllClean
  <2>5. QED
    BY <2>4 DEF Promise!Next
<1>9. QED
  BY <1>7, <1>8

\* A result filed for an attempt that was never dispatched, or by a step that moves
\* no job, is no step of the promise.
LEMMA StutterMaps ==
  ASSUME UNCHANGED <<status, sent>>,
         \A j \in Jobs : \A n \in sent[j] : outcome'[j][n] = outcome[j][n]
  PROVE  UNCHANGED Promise!vars
<1>1. /\ [j \in Jobs |-> Cardinality(sent[j])]' = [j \in Jobs |-> Cardinality(sent[j])]
      /\ [j \in Jobs |-> AllClean(j)]' = [j \in Jobs |-> AllClean(j)]
  BY SameRuns
<1>2. QED
  BY <1>1 DEF Promise!vars, AllClean

\* A handshake that is accepted is a dispatch of a clean job.
LEMMA LaunchMaps ==
  ASSUME TypeInv, Life, Owned, CleanSoFar, Dispatching, [Next]_vars,
         NEW j \in Jobs, LaunchOk(j)
  PROVE  Promise!Dispatch(j)
<1> DEFINE ph == [k \in Jobs |-> PhaseOf(status[k])]
           rs == [k \in Jobs |-> Cardinality(sent[k])]
           cl == [k \in Jobs |-> AllClean(k)]
<1>1. /\ pc[j] = "launch" /\ TransitionJob(j, "running") /\ outcome' = outcome
      /\ sent' = [sent EXCEPT ![j] = @ \cup {Current(j)}]
  BY DEF LaunchOk
<1>2. AllClean(j) /\ Current(j) \notin sent[j] /\ Cardinality(sent[j]) < MaxAttempts
  BY <1>1, SentBeforeLaunch
<1>3. sent'[j] = sent[j] \cup {Current(j)} /\ \A k \in Jobs : k # j => sent'[k] = sent[k]
  BY <1>1 DEF TypeInv, TypeOK, WorldTypes
<1>4. rs' = [rs EXCEPT ![j] = @ + 1]
  <2>1. Cardinality(sent'[j]) = Cardinality(sent[j]) + 1
    BY <1>2, <1>3, SentFinite, FS_AddElement
  <2>2. QED
    BY <1>3, <2>1
<1>5. ~AllClean(j)'
  <2>1. Current(j) \in Tries
    BY <1>1, CurrentType
  <2>2. outcome[j][Current(j)] = UnknownOutcome
    BY <1>1, <2>1 DEF Dispatching, Unheard, Heard, Executing, AtAwait, Current, TypeInv, TypeOK,
                      LoopTypes
  <2>3. ~CameToNothing(UnknownOutcome)
    BY DEF CameToNothing, UnknownOutcome
  <2>4. QED
    BY <1>1, <1>3, <2>2, <2>3 DEF AllClean
<1>6. cl' = [cl EXCEPT ![j] = FALSE]
  <2>1. \A k \in Jobs : k # j => AllClean(k)' = AllClean(k)
    BY <1>1, <1>3 DEF AllClean
  <2>2. \A k \in Jobs : AllClean(k)' \in BOOLEAN
    BY DEF AllClean
  <2>3. AllClean(j)' = FALSE
    BY <1>5 DEF AllClean
  <2>4. QED
    BY <2>1, <2>3
<1>7. ph[j] \in {"open", "cancelled"}
  <2>1. status[j] \in JobState \ {"succeeded", "failed", "needs_recovery"}
    BY <1>1 DEF Dispatching, FailedIsOver, Life, Over, Unborn, Executing, AtAwait, TypeInv, TypeOK,
                RowTypes
  <2>2. \/ status[j] \in NonTerminalRow
        \/ status[j] = "cancelled" /\ status[j] \in Settled
    BY <2>1 DEF JobState, NonTerminalRow, Settled, Terminal
  <2>3. QED
    BY <2>1, <2>2, PhaseValues
<1>8. ph' = ph
  <2>1. \A k \in Jobs : k # j => status'[k] = status[k]
    BY <1>1 DEF TransitionJob, JobMoved, TypeInv, TypeOK, RowTypes
  <2>2. status'[j] \in {status[j], "running"} /\ status[j] \in JobState \cup {"absent"}
    BY <1>1, MovedType DEF TransitionJob, JobMoved, TypeInv, TypeOK, RowTypes
  <2>3. PhaseOf(status'[j]) = PhaseOf(status[j])
    <3>1. CASE status[j] \in Settled
      BY <3>1, SettledStep
    <3>2. CASE status[j] \in NonTerminalRow
      BY <2>2, <3>2, PhaseValues DEF JobState, NonTerminalRow
    <3>3. QED
      BY <1>1, <2>2, <3>1, <3>2, PhaseValues DEF Life, Unborn
  <2>4. QED
    BY <2>1, <2>3
<1>9. QED
  BY <1>2, <1>4, <1>6, <1>7, <1>8 DEF Promise!Dispatch, AllClean

\* The result of the run an execution waits for: the task may be clean again.
LEMMA ResultMaps ==
  ASSUME TypeInv, Life, Owned, CleanSoFar, Dispatching, [Next]_vars,
         NEW j \in Jobs, RunAnswered(j) \/ RunRejected(j)
  PROVE  [Promise!Next]_(Promise!vars)
<1> DEFINE cl == [k \in Jobs |-> AllClean(k)]
<1>1. /\ pc[j] = "run" /\ UNCHANGED <<status, sent>>
      /\ \E r : outcome' = [outcome EXCEPT ![j][Current(j)] = r]
  BY DEF RunAnswered, RunRejected, RunSettles
<1>2. Current(j) \in Tries /\ Current(j) \in sent[j]
  BY <1>1, CurrentType DEF Dispatching, Dispatched
<1>3. ~AllClean(j)
  <2>1. outcome[j][Current(j)] = UnknownOutcome
    BY <1>1, <1>2, SMTT(30)
       DEF Dispatching, Unheard, Heard, Executing, AtAwait, Current, TypeInv, TypeOK, LoopTypes
  <2>2. QED
    BY <1>2, <2>1 DEF AllClean, CameToNothing, UnknownOutcome
<1>4. \A k \in Jobs : k # j => AllClean(k)' = AllClean(k)
  BY <1>1 DEF AllClean, TypeInv, TypeOK, WorldTypes
<1>5. CASE ~AllClean(j)'
  <2>1. cl' = cl
    <3>1. AllClean(j)' = AllClean(j)
      BY <1>3, <1>5 DEF AllClean
    <3>2. QED
      BY <1>4, <3>1
  <2>2. QED
    BY <1>1, <2>1 DEF Promise!vars, AllClean
<1>6. CASE AllClean(j)'
  <2>1. cl' = [cl EXCEPT ![j] = TRUE] /\ ~cl[j]
    <3>1. AllClean(j)' = TRUE
      BY <1>6 DEF AllClean
    <3>2. QED
      BY <1>3, <1>4, <3>1
  <2>2. Cardinality(sent[j]) > 0
    BY <1>2, SentFinite
  <2>3. Promise!ComesToNothing(j)
    BY <1>1, <2>1, <2>2 DEF Promise!ComesToNothing, AllClean
  <2>4. QED
    BY <2>3 DEF Promise!Next
<1>7. QED
  BY <1>5, <1>6

LEMMA RestartMaps ==
  ASSUME TypeInv, Life, Restart
  PROVE  [Promise!Next]_(Promise!vars)
<1> DEFINE S == {k \in Jobs : status[k] \notin Settled /\ \E n \in Tries : Unfinished(k, n)}
           ph == [k \in Jobs |-> PhaseOf(status[k])]
<1>1. /\ [k \in Jobs |-> Cardinality(sent[k])]' = [k \in Jobs |-> Cardinality(sent[k])]
      /\ [k \in Jobs |-> AllClean(k)]' = [k \in Jobs |-> AllClean(k)]
  BY SameRuns DEF Restart
<1>2. \A k \in S : status[k] \in NonTerminalRow
  <2>1. \A k \in S : status[k] # "absent"
    BY DEF Life, Unborn, Fresh, Unfinished, NonTerminalRow
  <2>2. QED
    BY <2>1 DEF TypeInv, TypeOK, RowTypes, JobState, Settled, Terminal, NonTerminalRow
<1>3. \A k \in Jobs : status'[k] = IF k \in S THEN "needs_recovery" ELSE status[k]
  BY <1>2, MovedSettles DEF Restart
<1>4. PhaseOf("needs_recovery") = "needs_recovery"
  BY PhaseValues DEF JobState, Settled
<1>5. ph' = [k \in Jobs |-> IF k \in S THEN "needs_recovery" ELSE ph[k]]
  BY <1>3, <1>4
<1>6. \A k \in S : ph[k] = "open"
  BY <1>2, PhaseValues DEF TypeInv, TypeOK, RowTypes
<1>7. Promise!ParkSome(S)
  BY <1>1, <1>5, <1>6 DEF Promise!ParkSome, AllClean
<1>8. QED
  BY <1>7 DEF Promise!Next

LEMMA SubmitMaps ==
  ASSUME TypeInv, NEW j \in Jobs, Submit(j)
  PROVE  [Promise!Next]_(Promise!vars)
<1> DEFINE ph == [k \in Jobs |-> PhaseOf(status[k])]
<1>1. status[j] = "absent" /\ status' = [status EXCEPT ![j] = "queued"]
      /\ UNCHANGED <<sent, outcome>>
  BY DEF Submit
<1>2. PhaseOf("absent") = "none" /\ PhaseOf("queued") = "open"
  BY PhaseValues DEF JobState, NonTerminalRow
<1>3. ph[j] = "none" /\ ph' = [ph EXCEPT ![j] = "open"]
  BY <1>1, <1>2 DEF TypeInv, TypeOK, RowTypes
<1>4. Promise!Admit(j)
  BY <1>1, <1>3, SameRuns DEF Promise!Admit, AllClean
<1>5. QED
  BY <1>4 DEF Promise!Next

LEMMA MapSteps ==
  ASSUME [Next]_vars
  PROVE  \/ UNCHANGED <<status, sent, outcome>>
         \/ Restart
         \/ \E j \in Jobs :
              \/ Submit(j) \/ PlanReady(j) \/ PlanThrows(j) \/ LoopEnds(j)
              \/ RefusedBeforeLaunch(j) \/ NoCapacity(j) \/ LaunchOk(j)
              \/ LaunchFails(j) \/ RunAnswered(j) \/ RunRejected(j) \/ Judge(j)
              \/ PermissionRequired(j) \/ WaiterFires(j) \/ Cancel(j)
BY ResultSteps, StatusSteps, ZenonT(60) DEF Crash, StartLaunch, StopDone, Unlock, rows

LEMMA NextMaps ==
  ASSUME TypeInv, Life, Owned, CleanSoFar, Dispatching, [Next]_vars
  PROVE  [Promise!Next]_(Promise!vars)
<1>1. CASE UNCHANGED <<status, sent, outcome>>
  BY <1>1, StutterMaps
<1>2. ASSUME NEW j \in Jobs, PlanReady(j) \/ PlanThrows(j) \/ LoopEnds(j) \/ Cancel(j)
      PROVE  [Promise!Next]_(Promise!vars)
  <2>1. UNCHANGED <<sent, outcome>> /\ status[j] # "absent"
    BY <1>2 DEF PlanReady, PlanThrows, LoopEnds, Cancel, Life, Unborn
  <2>2. status' = status \/ \E to \in {"failed", "needs_recovery", "cancelled"} : TransitionJob(j, to)
    BY <1>2 DEF PlanReady, PlanThrows, LoopEnds, Cancel, Exhausted, finishJob, TransitionJob
  <2>3. CASE status' = status
    BY <2>1, <2>3, StutterMaps
  <2>4. QED
    BY <2>1, <2>2, <2>3, MoveMaps DEF JobState
<1>3. ASSUME NEW j \in Jobs, PermissionRequired(j) \/ WaiterFires(j)
      PROVE  [Promise!Next]_(Promise!vars)
  <2>1. UNCHANGED <<sent, outcome>> /\ status[j] # "absent"
    BY <1>3 DEF PermissionRequired, WaiterFires, Life, Unborn
  <2>2. \E to \in {"running", "awaiting_approval"} : TransitionJob(j, to)
    BY <1>3 DEF PermissionRequired, WaiterFires
  <2>3. QED
    BY <2>1, <2>2, MoveMaps DEF JobState
<1>4. ASSUME NEW j \in Jobs, Judge(j) PROVE [Promise!Next]_(Promise!vars)
  <2>1. UNCHANGED <<sent, outcome>> /\ pc[j] = "judge" /\ status[j] # "absent"
    BY <1>4 DEF Judge, Life, Unborn
  <2>2. \/ status' = status
        \/ \E to \in {"failed", "needs_recovery", "cancelled"} : TransitionJob(j, to)
        \/ VerdictOf(j) = "succeed" /\ TransitionJob(j, "succeeded")
    BY <1>4 DEF Judge, ActsOnVerdict, Ends, Continues, finishJob
  <2>3. VerdictOf(j) = "succeed" => sent[j] # {}
    <3>1. VerdictOf(j) = "succeed" => LastResult(j).outcome = "completed"
      BY OnlyCleanSucceeds DEF VerdictOf, CleanSuccess
    <3>2. QED
      BY <2>1, <3>1 DEF Dispatching, Dispatched
  <2>4. CASE status' = status
    BY <2>1, <2>4, StutterMaps
  <2>5. CASE \E to \in {"failed", "needs_recovery", "cancelled"} : TransitionJob(j, to)
    BY <2>1, <2>5, MoveMaps DEF JobState
  <2>6. CASE VerdictOf(j) = "succeed" /\ TransitionJob(j, "succeeded")
    BY <2>1, <2>3, <2>6, MoveMaps DEF JobState
  <2>7. QED
    BY <2>2, <2>4, <2>5, <2>6
<1>5. ASSUME NEW j \in Jobs, RefusedBeforeLaunch(j) \/ NoCapacity(j) \/ LaunchFails(j)
      PROVE  [Promise!Next]_(Promise!vars)
  <2>1. /\ UNCHANGED <<status, sent>>
        /\ \E r : outcome' = [outcome EXCEPT ![j][Current(j)] = r]
    BY <1>5 DEF RefusedBeforeLaunch, NoCapacity, LaunchFails, Returned, rows
  <2>2. Current(j) \notin sent[j]
    <3>1. CASE pc[j] = "launch"
      BY <3>1 DEF Owned, BusyPc
    <3>2. CASE pc[j] = "loop" /\ ~MayNotLaunch(j)
      BY <3>2, NextTryFresh DEF Fresh
    <3>3. QED
      BY <1>5, <3>1, <3>2 DEF RefusedBeforeLaunch, NoCapacity, LaunchFails
  <2>3. \A k \in Jobs : \A n \in sent[k] : outcome'[k][n] = outcome[k][n]
    BY <2>1, <2>2 DEF TypeInv, TypeOK, WorldTypes
  <2>4. QED
    BY <2>1, <2>3, StutterMaps
<1>6. ASSUME NEW j \in Jobs, LaunchOk(j) PROVE [Promise!Next]_(Promise!vars)
  BY <1>6, LaunchMaps DEF Promise!Next
<1>7. QED
  BY <1>1, <1>2, <1>3, <1>4, <1>5, <1>6, SubmitMaps, ResultMaps, RestartMaps, MapSteps

LEMMA InitMaps == Init => Promise!Init
<1> SUFFICES ASSUME Init PROVE Promise!Init
  OBVIOUS
<1>1. \A j \in Jobs : PhaseOf(status[j]) = "none"
  BY PhaseValues DEF Init
<1>2. \A j \in Jobs : Cardinality(sent[j]) = 0
  BY FS_EmptySet DEF Init
<1>3. \A j \in Jobs : sent[j] = {}
  BY DEF Init
<1>4. QED
  BY <1>1, <1>2, <1>3 DEF Promise!Init

\* The runtime implements the promise: a task is dispatched only while nothing is left
\* of its earlier runs, at most max_attempts times, never after the job failed,
\* succeeded or was parked; success needs a dispatch; what is settled stays.
THEOREM Implements == Spec => PromiseKept
<1>1. Init => Dispatching /\ CleanSoFar /\ Promise!Init
  BY InitMaps DEF Init, CleanSoFar, BusyPc, Dispatching, Unheard, Dispatched, FailedIsOver
<1>2. /\ TypeInv /\ Life /\ Owned /\ CleanSoFar /\ Dispatching /\ [Next]_vars
      => (CleanSoFar /\ Dispatching)'
  BY CleanStep, UnheardStep, DispatchedStep, FailedStep DEF Dispatching
<1>3. /\ TypeInv /\ Life /\ Owned /\ CleanSoFar /\ Dispatching /\ [Next]_vars
      => [Promise!Next]_(Promise!vars)
  BY NextMaps
<1>4. QED
  BY <1>1, <1>2, <1>3, Lifecycle, PTL DEF Spec, PromiseKept, Promise!Spec
=============================================================================
