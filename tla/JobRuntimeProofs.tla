------------------------- MODULE JobRuntimeProofs -------------------------
(***************************************************************************)
(* Types and safety properties of JobRuntime, for any jobs, plugins,       *)
(* routes, limits and number of crashes.                                   *)
(*                                                                         *)
(* TypeInv and Life, together inductive, say which rows, reservations and  *)
(* processes can exist at each await; the other invariants are inductive   *)
(* relative to them:                                                       *)
(*                                                                         *)
(*   CapacityBound                 relative to TypeInv /\ Life             *)
(*   Owned                         relative to TypeInv /\ Life             *)
(*   HeldWhileBusy, RowsOwned      relative to TypeInv /\ Life /\ Owned    *)
(*   LockHeld, SettledStays        relative to TypeInv /\ Life             *)
(*   WorkspaceExclusive            from CapacityBound and HeldWhileBusy    *)
(*   HeldExplained                 relative to all of these and RowsOwned  *)
(*                                                                         *)
(* ReservationsKept follows from HeldExplained and HeldWhileBusy';         *)
(* ExecutionsEnd is the measure StepsLeft.                                 *)
(*                                                                         *)
(* A step lemma goes through the actions that touch the variables of its   *)
(* invariant; a lemma named ...Steps says which ones these are.            *)
(***************************************************************************)
EXTENDS JobRuntimeInv, FiniteSetTheorems, TLAPS

\* An execution that is busy with an attempt has a try left for it, and one that
\* judges a result has made a try.
TriesLeft ==
  \A j \in Jobs : /\ pc[j] \in {"launch", "run", "stop"} => tried[j] < MaxAttempts
                  /\ pc[j] = "judge" => tried[j] # 0

TypeInv == TypeOK /\ TriesLeft

-----------------------------------------------------------------------------
LEMMA MovedType ==
  ASSUME NEW from, NEW to
  PROVE  Moved(from, to) \in {from, to}
BY DEF Moved

LEMMA AfterReleaseType ==
  ASSUME NEW s \in ReservationState, NEW u
  PROVE  AfterRelease(s, u) \in ReservationState
BY DEF AfterRelease, ReservationState

LEMMA RefusedType == \A code \in ErrorCode : Refused(code) \in RunResult
BY DEF Refused, RunResult, ErrorCode, CompletionStatus, SideEffects, RetrySafety

LEMMA UnknownOutcomeType == UnknownOutcome \in RunResult
BY DEF UnknownOutcome, RunResult, ErrorCode, CompletionStatus, SideEffects, RetrySafety

LEMMA CurrentType ==
  ASSUME TypeInv, NEW j \in Jobs,
         pc[j] \in {"launch", "run", "stop"} \/ ~MayNotLaunch(j)
  PROVE  Current(j) \in Tries
BY RuntimeAssumption DEF TypeInv, TypeOK, LoopTypes, TriesLeft, RuntimeAssumption, MayNotLaunch, Current, Tries


LEMMA TypeInit == Init => TypeInv
<1> SUFFICES ASSUME Init PROVE TypeInv
  OBVIOUS
<1> USE RuntimeAssumption
<1>1. RowTypes
  <2>1. (CHOOSE p \in Plugins : TRUE) \in Plugins
    BY DEF RuntimeAssumption
  <2>2. plug \in [Jobs -> [Tries -> Plugins]]
    BY <2>1 DEF Init
  <2>3. QED
    BY <2>2 DEF Init, RowTypes, ReservationState
<1>2. LoopTypes
  BY DEF Init, LoopTypes, PcValue, RuntimeAssumption
<1>3. DaemonTypes
  <2>1. cancelling \in [Jobs -> 0 .. MaxAttempts] /\ waiters \in [Jobs -> SUBSET Tries]
    BY DEF Init, RuntimeAssumption
  <2>2. QED
    BY <2>1 DEF Init, DaemonTypes
<1>4. WorldTypes
  BY UnknownOutcomeType DEF Init, WorldTypes, RuntimeAssumption
<1>5. TriesLeft
  BY DEF Init, TriesLeft
<1>6. QED
  BY <1>1, <1>2, <1>3, <1>4, <1>5 DEF TypeInv, TypeOK

LEMMA JobMovedType ==
  ASSUME status \in [Jobs -> JobState \cup {"absent"}], NEW j \in Jobs, NEW to \in JobState
  PROVE  JobMoved(status, j, to) \in [Jobs -> JobState \cup {"absent"}]
BY MovedType DEF JobMoved

LEMMA UnlockedType ==
  ASSUME lock \in [Handles -> Jobs \cup {Nobody}], NEW s, NEW j \in Jobs
  PROVE  UnlockedIfTerminal(lock, s, j) \in [Handles -> Jobs \cup {Nobody}]
BY RuntimeAssumption DEF UnlockedIfTerminal, RuntimeAssumption

LEMMA FinishAttemptType ==
  ASSUME att \in [Jobs -> [Tries -> JobState \cup {"absent"}]],
         NEW j \in Jobs, NEW n \in Tries, NEW to \in JobState, finishAttempt(j, n, to)
  PROVE  att' \in [Jobs -> [Tries -> JobState \cup {"absent"}]]
BY MovedType DEF finishAttempt

LEMMA LoopTryType ==
  ASSUME TypeInv, NEW j \in Jobs, ~MayNotLaunch(j)
  PROVE  Current(j) \in Tries /\ plan[j][cand[j]] \in Plugins
<1>1. Current(j) \in Tries
  BY CurrentType
<1>2. plan[j] \in Seq(Plugins)
  BY RuntimeAssumption DEF TypeInv, TypeOK, LoopTypes, RuntimeAssumption, MayNotLaunch
<1>3. cand[j] \in 1 .. Len(plan[j])
  BY <1>2 DEF TypeInv, TypeOK, LoopTypes, MayNotLaunch
<1>4. QED
  BY <1>1, <1>2, <1>3

LEMMA ReturnedType ==
  ASSUME TypeOK, NEW j \in Jobs, NEW r \in RunResult, Current(j) \in Tries,
         Returned(j, r)
  PROVE  /\ outcome' \in [Jobs -> [Tries -> RunResult]]
         /\ tried' \in [Jobs -> 0 .. MaxAttempts]
         /\ pc' \in [Jobs -> PcValue]
<1>1. tried[j] + 1 \in 0 .. MaxAttempts
  BY RuntimeAssumption DEF Current, Tries, TypeOK, LoopTypes, RuntimeAssumption
<1>2. tried' \in [Jobs -> 0 .. MaxAttempts]
  BY <1>1 DEF Returned, TypeOK, LoopTypes
<1>3. pc' \in [Jobs -> PcValue]
  BY DEF Returned, TypeOK, LoopTypes, PcValue, MidHandler, Deciding
<1>4. outcome' \in [Jobs -> [Tries -> RunResult]]
  BY DEF Returned, TypeOK, WorldTypes
<1>5. QED
  BY <1>2, <1>3, <1>4

LEMMA FinishJobType ==
  ASSUME TypeOK, NEW j \in Jobs, NEW to \in JobState, finishJob(j, to)
  PROVE  /\ status' \in [Jobs -> JobState \cup {"absent"}]
         /\ pc' \in [Jobs -> PcValue] /\ pc' = [pc EXCEPT ![j] = "unlock"]
BY JobMovedType DEF finishJob, TransitionJob, TypeOK, RowTypes, LoopTypes, PcValue, MidHandler

LEMMA AttemptOutcomeType == \A r \in RunResult : AttemptOutcome(r) \in JobState
BY DEF AttemptOutcome, RunResult, JobState

LEMMA TypeStep == TypeInv /\ [Next]_vars => TypeInv'
<1> SUFFICES ASSUME TypeInv, [Next]_vars PROVE TypeInv'
  OBVIOUS
<1> USE RuntimeAssumption DEF TypeInv, TypeOK
<1>1. ASSUME NEW j \in Jobs, Submit(j) PROVE TypeInv'
  <2>1. RowTypes'
    BY <1>1 DEF Submit, RowTypes, JobState, RuntimeAssumption
  <2>2. LoopTypes'
    BY <1>1 DEF Submit, LoopTypes, loopv, PcValue, AtAwait
  <2>3. QED
    BY <1>1, <2>1, <2>2 DEF Submit, RowTypes, LoopTypes, DaemonTypes, WorldTypes, TriesLeft, loopv, rows, os
<1>2. ASSUME NEW j \in Jobs, PlanReady(j) PROVE TypeInv'
  <2>1. PICK route \in Routes :
           /\ plan' = [plan EXCEPT ![j] = route]
           /\ IF route = <<>> THEN Exhausted(j)
              ELSE /\ pc' = [pc EXCEPT ![j] = "loop"]
                   /\ UNCHANGED status
    BY <1>2 DEF PlanReady
  <2>2. RowTypes'
    <3>1. CASE Exhausted(j)
      BY <1>2, <3>1, FinishJobType DEF PlanReady, Exhausted, RowTypes, JobState
    <3>2. CASE UNCHANGED status
      BY <1>2, <3>2 DEF PlanReady, RowTypes
    <3>3. QED
      BY <2>1, <3>1, <3>2
  <2>3. LoopTypes'
    BY <1>2, <2>1, FinishJobType DEF PlanReady, Exhausted, LoopTypes, PcValue, MidHandler,
       Deciding, JobState
  <2>4. TriesLeft'
    BY <1>2, <2>1 DEF PlanReady, Exhausted, finishJob, LoopTypes, TriesLeft
  <2>5. QED
    BY <1>2, <2>2, <2>3, <2>4 DEF PlanReady, DaemonTypes, WorldTypes, os
<1>3. ASSUME NEW j \in Jobs, PlanThrows(j) PROVE TypeInv'
  <2>1. RowTypes'
    BY <1>3, JobMovedType DEF PlanThrows, RowTypes, JobState
  <2>2. LoopTypes'
    BY <1>3 DEF PlanThrows, LoopTypes, loopv, PcValue
  <2>3. QED
    BY <1>3, <2>1, <2>2 DEF PlanThrows, RowTypes, LoopTypes, DaemonTypes, WorldTypes, TriesLeft, loopv, rows, os
<1>4. ASSUME NEW j \in Jobs, LoopEnds(j) PROVE TypeInv'
  <2>1. RowTypes'
    BY <1>4, FinishJobType DEF LoopEnds, Exhausted, RowTypes, JobState
  <2>2. LoopTypes' /\ TriesLeft'
    BY <1>4 DEF LoopEnds, Exhausted, finishJob, LoopTypes, TriesLeft, loopv, PcValue, MidHandler
  <2>3. QED
    BY <1>4, <2>1, <2>2 DEF LoopEnds, RowTypes, LoopTypes, DaemonTypes, WorldTypes, TriesLeft, loopv, rows, os
<1>5. ASSUME NEW j \in Jobs, RefusedBeforeLaunch(j) PROVE TypeInv'
  <2>1. PICK r \in RunResult : Returned(j, r)
    BY <1>5, RefusedType DEF RefusedBeforeLaunch, RuntimeAssumption
  <2>2. Current(j) \in Tries
    BY <1>5, LoopTryType, CurrentType DEF RefusedBeforeLaunch
  <2>3. /\ outcome' \in [Jobs -> [Tries -> RunResult]]
        /\ tried' \in [Jobs -> 0 .. MaxAttempts]
        /\ pc' \in [Jobs -> PcValue]
    BY <2>1, <2>2, ReturnedType
  <2>4. TriesLeft'
    BY <2>1 DEF Returned, LoopTypes, TriesLeft
  <2>5. RowTypes'
    BY <1>5 DEF RefusedBeforeLaunch, RowTypes, rows
  <2>6. proc' \in [Jobs -> [Tries -> {"none", "live", "orphan", "dead"}]]
    BY <1>5, <2>2 DEF RefusedBeforeLaunch, WorldTypes, os, Stopped
  <2>7. QED
    BY <1>5, <2>3, <2>4, <2>5, <2>6 DEF RefusedBeforeLaunch, LoopTypes, DaemonTypes, WorldTypes, loopv, os
<1>6. ASSUME NEW j \in Jobs, NoCapacity(j) PROVE TypeInv'
  <2>1. PICK r \in RunResult : Returned(j, r)
    BY <1>6, RefusedType DEF NoCapacity, ErrorCode
  <2>2. Current(j) \in Tries
    BY <1>6, LoopTryType, CurrentType DEF NoCapacity
  <2>3. /\ outcome' \in [Jobs -> [Tries -> RunResult]]
        /\ tried' \in [Jobs -> 0 .. MaxAttempts]
        /\ pc' \in [Jobs -> PcValue]
    BY <2>1, <2>2, ReturnedType
  <2>4. TriesLeft'
    BY <2>1 DEF Returned, LoopTypes, TriesLeft
  <2>5. RowTypes'
    BY <1>6, <2>2, LoopTryType, MovedType DEF NoCapacity, RowTypes, JobState
  <2>6. proc' \in [Jobs -> [Tries -> {"none", "live", "orphan", "dead"}]]
    BY <1>6, <2>2 DEF NoCapacity, WorldTypes, os, Stopped
  <2>7. QED
    BY <1>6, <2>3, <2>4, <2>5, <2>6 DEF NoCapacity, LoopTypes, DaemonTypes, WorldTypes, loopv, os
<1>7. ASSUME NEW j \in Jobs, StartLaunch(j) PROVE TypeInv'
  <2>1. Current(j) \in Tries /\ plan[j][cand[j]] \in Plugins
    BY <1>7, LoopTryType DEF StartLaunch
  <2>2. RowTypes'
    BY <1>7, <2>1 DEF StartLaunch, RowTypes, JobState, ReservationState
  <2>3. LoopTypes'
    BY <1>7, <2>1 DEF StartLaunch, LoopTypes, loopv, PcValue, AtAwait
  <2>4. TriesLeft'
    BY <1>7, <2>1 DEF StartLaunch, LoopTypes, TriesLeft, Current, Tries, RuntimeAssumption
  <2>5. WorldTypes'
    BY <1>7, <2>1 DEF StartLaunch, WorldTypes
  <2>6. QED
    BY <1>7, <2>1, <2>2, <2>3, <2>4, <2>5 DEF StartLaunch, RowTypes, LoopTypes, DaemonTypes, WorldTypes, TriesLeft, loopv, rows, os
<1>8. ASSUME NEW j \in Jobs, LaunchOk(j) PROVE TypeInv'
  <2>1. Current(j) \in Tries
    BY <1>8, CurrentType DEF LaunchOk
  <2>2. RowTypes'
    BY <1>8, <2>1, JobMovedType DEF LaunchOk, RowTypes, TransitionJob, JobState
  <2>3. LoopTypes' /\ TriesLeft'
    BY <1>8 DEF LaunchOk, LoopTypes, TriesLeft, loopv, PcValue, AtAwait
  <2>4. WorldTypes'
    BY <1>8, <2>1 DEF LaunchOk, WorldTypes, os
  <2>5. QED
    BY <1>8, <2>1, <2>2, <2>3, <2>4 DEF LaunchOk, RowTypes, LoopTypes, DaemonTypes, WorldTypes, TriesLeft, loopv, rows, os
<1>9. ASSUME NEW j \in Jobs, LaunchFails(j) PROVE TypeInv'
  <2>1. PICK r \in RunResult : Returned(j, r)
    BY <1>9, UnknownOutcomeType DEF LaunchFails
  <2>2. Current(j) \in Tries
    BY <1>9, LoopTryType, CurrentType DEF LaunchFails
  <2>3. /\ outcome' \in [Jobs -> [Tries -> RunResult]]
        /\ tried' \in [Jobs -> 0 .. MaxAttempts]
        /\ pc' \in [Jobs -> PcValue]
    BY <2>1, <2>2, ReturnedType
  <2>4. TriesLeft'
    BY <2>1 DEF Returned, LoopTypes, TriesLeft
  <2>5. RowTypes'
    <3>1. att' \in [Jobs -> [Tries -> JobState \cup {"absent"}]]
      BY <1>9, <2>2, FinishAttemptType DEF LaunchFails, RowTypes, JobState
    <3>2. res' \in [Jobs -> [Tries -> ReservationState]]
      BY <1>9, <2>2, AfterReleaseType DEF LaunchFails, RowTypes
    <3>3. QED
      BY <1>9, <3>1, <3>2 DEF LaunchFails, RowTypes
  <2>6. proc' \in [Jobs -> [Tries -> {"none", "live", "orphan", "dead"}]]
    BY <1>9, <2>2 DEF LaunchFails, WorldTypes, os, Stopped
  <2>7. QED
    BY <1>9, <2>3, <2>4, <2>5, <2>6 DEF LaunchFails, LoopTypes, DaemonTypes, WorldTypes, loopv, os
<1>10. ASSUME NEW j \in Jobs, RunAnswered(j) PROVE TypeInv'
  <2>1. PICK r \in RunResult, to \in JobState : RunSettles(j, r, to)
    BY <1>10, AttemptOutcomeType DEF RunAnswered, RuntimeAssumption
  <2>2. Current(j) \in Tries
    BY <1>10, CurrentType DEF RunAnswered
  <2>3. RowTypes'
    BY <2>1, <2>2, FinishAttemptType DEF RunSettles, RowTypes
  <2>4. LoopTypes' /\ TriesLeft'
    BY <1>10, <2>1 DEF RunAnswered, RunSettles, LoopTypes, TriesLeft, loopv, PcValue, AtAwait
  <2>5. DaemonTypes'
    BY <2>1 DEF RunSettles, DaemonTypes
  <2>6. WorldTypes'
    BY <2>1, <2>2 DEF RunSettles, WorldTypes, os
  <2>7. QED
    BY <2>3, <2>4, <2>5, <2>6
<1>11. ASSUME NEW j \in Jobs, RunRejected(j) PROVE TypeInv'
  <2>1. PICK r \in RunResult, to \in JobState : RunSettles(j, r, to)
    BY <1>11, UnknownOutcomeType DEF RunRejected, JobState
  <2>2. Current(j) \in Tries
    BY <1>11, CurrentType DEF RunRejected
  <2>3. RowTypes'
    BY <2>1, <2>2, FinishAttemptType DEF RunSettles, RowTypes
  <2>4. LoopTypes' /\ TriesLeft'
    BY <1>11, <2>1 DEF RunRejected, RunSettles, LoopTypes, TriesLeft, loopv, PcValue, AtAwait
  <2>5. DaemonTypes'
    BY <2>1 DEF RunSettles, DaemonTypes
  <2>6. WorldTypes'
    BY <2>1, <2>2 DEF RunSettles, WorldTypes, os
  <2>7. QED
    BY <2>3, <2>4, <2>5, <2>6
<1>12. ASSUME NEW j \in Jobs, StopDone(j) PROVE TypeInv'
  <2>1. Current(j) \in Tries
    BY <1>12, CurrentType DEF StopDone
  <2>2. RowTypes'
    <3>1. PICK u : res' = [res EXCEPT ![j][Current(j)] = AfterRelease(@, u)]
      BY <1>12 DEF StopDone
    <3>2. res' \in [Jobs -> [Tries -> ReservationState]]
      BY <2>1, <3>1, AfterReleaseType DEF RowTypes
    <3>3. QED
      BY <1>12, <3>2 DEF StopDone, RowTypes
  <2>3. tried[j] + 1 \in 0 .. MaxAttempts
    BY <2>1 DEF Current, Tries, LoopTypes, RuntimeAssumption
  <2>4. LoopTypes' /\ TriesLeft'
    BY <1>12, <2>3 DEF StopDone, LoopTypes, TriesLeft, loopv, PcValue, MidHandler, Deciding
  <2>5. WorldTypes'
    BY <1>12, <2>1 DEF StopDone, WorldTypes, Stopped, ChildStopped
  <2>6. QED
    BY <1>12, <2>1, <2>2, <2>3, <2>4, <2>5 DEF StopDone, RowTypes, LoopTypes, DaemonTypes, WorldTypes, TriesLeft, loopv, rows, os
<1>13. ASSUME NEW j \in Jobs, Judge(j) PROVE TypeInv'
  <2>1. CASE \E to \in JobState : Ends(j, to)
    <3>1. RowTypes'
      BY <1>13, <2>1, FinishJobType DEF Judge, Ends, RowTypes
    <3>2. LoopTypes' /\ TriesLeft'
      BY <1>13, <2>1 DEF Judge, Ends, finishJob, LoopTypes, TriesLeft, PcValue, MidHandler
    <3>3. QED
      BY <1>13, <3>1, <3>2 DEF Judge, DaemonTypes, WorldTypes, os
  <2>2. CASE /\ \E i \in Nat \ {0} : Continues(j, i)
             /\ seen' \in [Jobs -> SUBSET Signatures]
    <3>1. RowTypes'
      BY <1>13, <2>2 DEF Judge, Continues, RowTypes
    <3>2. LoopTypes' /\ TriesLeft'
      <4>1. PICK i \in Nat \ {0} : Continues(j, i)
        BY <2>2
      <4>2. cand' \in [Jobs -> Nat \ {0}]
        BY <4>1 DEF Continues, LoopTypes
      <4>3. pc' \in [Jobs -> PcValue] /\ TriesLeft'
        BY <1>13, <4>1 DEF Judge, Continues, LoopTypes, TriesLeft, PcValue, MidHandler, Deciding
      <4>4. QED
        BY <1>13, <2>2, <4>2, <4>3 DEF Judge, LoopTypes
    <3>3. QED
      BY <1>13, <3>1, <3>2 DEF Judge, DaemonTypes, WorldTypes, os
  <2>3. Signature(LastResult(j)) \in Signatures
    <3>1. tried[j] \in Tries
      BY <1>13 DEF Judge, TriesLeft, LoopTypes, Tries, RuntimeAssumption
    <3>2. LastResult(j) \in RunResult
      BY <3>1 DEF LastResult, WorldTypes
    <3>3. QED
      BY <3>2 DEF Signature, Signatures, RunResult
  <2>4. cand[j] + 1 \in Nat \ {0} /\ 1 \in Nat \ {0}
    BY DEF LoopTypes
  <2>5. VerdictOf(j) = "next" /\ ActsOnVerdict(j) => seen' \in [Jobs -> SUBSET Signatures]
    BY <2>3 DEF ActsOnVerdict, LoopTypes
  <2>6. QED
    BY <1>13, <2>1, <2>2, <2>4, <2>5 DEF Judge, ActsOnVerdict, JobState, LoopTypes
<1>14. ASSUME NEW j \in Jobs, PermissionRequired(j) PROVE TypeInv'
  <2>1. RowTypes'
    BY <1>14, JobMovedType DEF PermissionRequired, RowTypes, TransitionJob, JobState
  <2>2. DaemonTypes'
    BY <1>14, CurrentType DEF PermissionRequired, DaemonTypes
  <2>3. QED
    BY <1>14, <2>1, <2>2 DEF PermissionRequired, RowTypes, LoopTypes, DaemonTypes, WorldTypes, TriesLeft, loopv, rows, os
<1>15. ASSUME NEW j \in Jobs, WaiterFires(j) PROVE TypeInv'
  <2>1. RowTypes'
    BY <1>15, JobMovedType DEF WaiterFires, RowTypes, TransitionJob, JobState
  <2>2. DaemonTypes'
    BY <1>15, CurrentType DEF WaiterFires, DaemonTypes
  <2>3. QED
    BY <1>15, <2>1, <2>2 DEF WaiterFires, RowTypes, LoopTypes, DaemonTypes, WorldTypes, TriesLeft, loopv, rows, os
<1>16. ASSUME NEW j \in Jobs, Cancel(j) PROVE TypeInv'
  <2>1. RowTypes'
    BY <1>16, JobMovedType DEF Cancel, RowTypes, TransitionJob, JobState
  <2>2. InFlight(j) => Current(j) \in 0 .. MaxAttempts
    BY CurrentType DEF InFlight, Tries, RuntimeAssumption
  <2>3. DaemonTypes'
    BY <1>16, <2>2 DEF Cancel, DaemonTypes
  <2>4. QED
    BY <1>16, <2>1, <2>2, <2>3 DEF Cancel, RowTypes, LoopTypes, DaemonTypes, WorldTypes, TriesLeft, loopv, rows, os
<1>17. ASSUME NEW j \in Jobs, CancelReturns(j) PROVE TypeInv'
  <2>1. DaemonTypes'
    BY <1>17 DEF CancelReturns, DaemonTypes, RuntimeAssumption
  <2>2. QED
    BY <1>17, <2>1 DEF CancelReturns, RowTypes, LoopTypes, DaemonTypes, WorldTypes, TriesLeft, loopv, rows, os
<1>18. ASSUME NEW j \in Jobs, CancelKills(j) PROVE TypeInv'
  <2>1. cancelling[j] \in Tries
    BY <1>18 DEF CancelKills, DaemonTypes, Tries, RuntimeAssumption
  <2>2. WorldTypes'
    <3>1. proc' \in [Jobs -> [Tries -> {"none", "live", "orphan", "dead"}]]
      <4>1. PICK p \in Stopped(proc[j][cancelling[j]]) :
               proc' = [proc EXCEPT ![j][cancelling[j]] = p]
        BY <1>18 DEF CancelKills
      <4>2. p \in {"none", "live", "orphan", "dead"}
        BY <2>1 DEF WorldTypes, Stopped
      <4>3. QED
        BY <2>1, <4>1, <4>2 DEF WorldTypes
    <3>2. child' \in [Jobs -> [Tries -> {"none", "live", "dead"}]]
      <4>1. PICK c \in ChildStopped(child[j][cancelling[j]],
                                   \/ childRec[j][cancelling[j]]
                                   \/ proc[j][cancelling[j]] = "live") :
               child' = [child EXCEPT ![j][cancelling[j]] = c]
        BY <1>18 DEF CancelKills
      <4>2. c \in {"none", "live", "dead"}
        BY <2>1 DEF WorldTypes, ChildStopped
      <4>3. QED
        BY <2>1, <4>1, <4>2 DEF WorldTypes
    <3>3. QED
      BY <1>18, <3>1, <3>2 DEF CancelKills, WorldTypes
  <2>3. DaemonTypes'
    BY <1>18 DEF CancelKills, DaemonTypes, RuntimeAssumption
  <2>4. RowTypes'
    BY <1>18 DEF CancelKills, RowTypes, rows
  <2>5. QED
    BY <1>18, <2>1, <2>2, <2>3, <2>4 DEF CancelKills, RowTypes, LoopTypes, DaemonTypes, WorldTypes, TriesLeft, loopv, rows, os
<1>19. ASSUME NEW j \in Jobs, ChildReported(j) PROVE TypeInv'
  <2>1. Current(j) \in Tries
    BY <1>19, CurrentType DEF ChildReported
  <2>2. RowTypes'
    BY <1>19, <2>1 DEF ChildReported, RowTypes
  <2>3. QED
    BY <1>19, <2>1, <2>2 DEF ChildReported, RowTypes, LoopTypes, DaemonTypes, WorldTypes, TriesLeft, loopv, rows, os
<1>20. ASSUME NEW j \in Jobs, DeadlinePasses(j) PROVE TypeInv'
  <2>1. WorldTypes'
    BY <1>20 DEF DeadlinePasses, WorldTypes
  <2>2. RowTypes'
    BY <1>20 DEF DeadlinePasses, RowTypes, rows
  <2>3. QED
    BY <1>20, <2>1, <2>2 DEF DeadlinePasses, RowTypes, LoopTypes, DaemonTypes, WorldTypes, TriesLeft, loopv, rows, os
<1>21. ASSUME NEW j \in Jobs, NEW n \in Tries, Environment(j, n) PROVE TypeInv'
  <2>1. WorldTypes'
    <3>1. proc' \in [Jobs -> [Tries -> {"none", "live", "orphan", "dead"}]]
      <4>1. CASE PluginExits(j, n)
        <5>1. PICK p \in Stopped(proc[j][n]) \cup {"dead"} : proc' = [proc EXCEPT ![j][n] = p]
          BY <4>1 DEF PluginExits
        <5>2. p \in {"none", "live", "orphan", "dead"}
          BY DEF Stopped, WorldTypes
        <5>3. QED
          BY <5>1, <5>2 DEF WorldTypes
      <4>2. CASE UNCHANGED proc
        BY <4>2 DEF WorldTypes
      <4>3. QED
        BY <1>21, <4>1, <4>2 DEF Environment, ChildStarts, ChildExits
    <3>2. child' \in [Jobs -> [Tries -> {"none", "live", "dead"}]]
      <4>1. PICK c \in {"live", "dead"} : child' \in {child, [child EXCEPT ![j][n] = c]}
        BY <1>21 DEF Environment, ChildStarts, PluginExits, ChildExits
      <4>2. CASE child' = child
        BY <4>2 DEF WorldTypes
      <4>3. CASE child' = [child EXCEPT ![j][n] = c]
        BY <4>3 DEF WorldTypes
      <4>4. QED
        BY <4>1, <4>2, <4>3
    <3>3. QED
      BY <1>21, <3>1, <3>2 DEF Environment, ChildStarts, PluginExits, ChildExits, WorldTypes
  <2>2. UNCHANGED <<rows, up, stopping, pc, loopv, tried, kid, waiters, cancelling>>
    BY <1>21 DEF Environment, ChildStarts, PluginExits, ChildExits
  <2>3. QED
    BY <2>1, <2>2 DEF RowTypes, LoopTypes, DaemonTypes, TriesLeft, rows, loopv
<1>22. CASE Shutdown
  <2>1. WorldTypes'
    BY <1>22 DEF Shutdown, WorldTypes
  <2>2. QED
    BY <1>22, <2>1 DEF Shutdown, RowTypes, LoopTypes, DaemonTypes, TriesLeft, rows, loopv
<1>23. CASE Crash
  <2>1. LoopTypes' /\ TriesLeft'
    BY <1>23 DEF Crash, LoopTypes, TriesLeft, loopv, PcValue
  <2>2. cancelling' \in [Jobs -> 0 .. MaxAttempts] /\ crashes' \in 0 .. MaxCrashes
    BY <1>23 DEF Crash, WorldTypes, RuntimeAssumption
  <2>3. QED
    BY <1>23, <2>1, <2>2 DEF Crash, RowTypes, DaemonTypes, WorldTypes, rows, os
<1>24. CASE Restart
  <2>1. RowTypes'
    BY <1>24, MovedType, AfterReleaseType DEF Restart, RowTypes, JobState
  <2>2. WorldTypes'
    BY <1>24 DEF Restart, WorldTypes
  <2>3. QED
    BY <1>24, <2>1, <2>2 DEF Restart, LoopTypes, DaemonTypes, TriesLeft, loopv
<1>25. CASE UNCHANGED vars
  BY <1>25 DEF vars, rows, loopv, os, RowTypes, LoopTypes, DaemonTypes, WorldTypes, TriesLeft
<1>u. ASSUME NEW j \in Jobs, Unlock(j) PROVE TypeInv'
  <2>1. RowTypes'
    BY <1>u, UnlockedType DEF Unlock, RowTypes
  <2>2. LoopTypes' /\ TriesLeft'
    BY <1>u DEF Unlock, LoopTypes, TriesLeft, loopv, PcValue
  <2>3. QED
    BY <1>u, <2>1, <2>2 DEF Unlock, DaemonTypes, WorldTypes, os
<1>26. QED
  BY <1>1, <1>2, <1>3, <1>4, <1>5, <1>6, <1>7, <1>8, <1>9, <1>10, <1>11, <1>12, <1>13, <1>14, <1>15, <1>16, <1>17, <1>18, <1>19, <1>20, <1>21, <1>22, <1>23, <1>24, <1>25, <1>u
     DEF Next, Executes, OnItsOwn, LoopStep

\* Every reachable state is well typed, and no execution starts more attempts than
\* max_attempts allows.
THEOREM TypeCorrect == Spec => []TypeOK
<1>1. Init => TypeInv
  BY TypeInit
<1>2. TypeInv /\ [Next]_vars => TypeInv'
  BY TypeStep
<1>3. TypeInv => TypeOK
  BY DEF TypeInv
<1>4. QED
  BY <1>1, <1>2, <1>3, PTL DEF Spec

-----------------------------------------------------------------------------
(* Which attempts have left a trace *)

LEMMA FreshKept ==
  ASSUME UNCHANGED <<att, res, proc, child, childRec, sent>>, NEW j, NEW n
  PROVE  Fresh(j, n)' = Fresh(j, n)
BY DEF Fresh

LEMMA UnbornKept ==
  ASSUME Unborn,
         \A k \in Jobs : status'[k] = "absent" =>
           /\ status[k] = "absent"
           /\ pc'[k] = pc[k] /\ tried'[k] = tried[k] /\ waiters'[k] = waiters[k]
           /\ \A n \in Tries : Fresh(k, n) => Fresh(k, n)'
  PROVE  Unborn'
BY DEF Unborn, Tries

LEMMA AheadKept ==
  ASSUME Ahead,
         \A k \in Jobs : pc'[k] \in Executing =>
           /\ pc[k] \in Executing
           /\ \A n \in Tries : n > Begun(k)' => n > Begun(k) /\ (Fresh(k, n) => Fresh(k, n)')
  PROVE  Ahead'
BY DEF Ahead, Tries

LEMMA StatusMoves ==
  ASSUME NEW j \in Jobs, NEW to, TransitionJob(j, to), TypeInv, NEW k \in Jobs
  PROVE  status'[k] # status[k] => k = j /\ status'[k] = to
BY MovedType DEF TransitionJob, JobMoved, TypeInv, TypeOK, RowTypes

LEMMA LifeStep ==
  ASSUME TypeInv, Life, [Next]_vars
  PROVE  Life'
<1> USE RuntimeAssumption DEF Life
<1>1. ASSUME NEW j \in Jobs, Submit(j) PROVE Life'
  BY <1>1 DEF Submit, Quiet, Unborn, Ahead, Down, Over, Fresh, Begun, Current, Executing, BusyPc, AtAwait, MidHandler, Deciding, Settled, Terminal, TypeInv, TypeOK, RowTypes, LoopTypes, DaemonTypes, WorldTypes, TriesLeft, Tries, rows, loopv, os
<1>2. ASSUME NEW j \in Jobs, PlanReady(j) PROVE Life'
  <2>1. status[j] # "absent" /\ pc[j] = "plan"
    BY <1>2 DEF PlanReady, Unborn
  <2>2. /\ \A k \in Jobs : status'[k] # status[k] => k = j /\ status'[k] = "failed"
        /\ pc' \in {[pc EXCEPT ![j] = "unlock"], [pc EXCEPT ![j] = "loop"]}
    BY <1>2, StatusMoves DEF PlanReady, Exhausted, finishJob
  <2>3. UNCHANGED <<att, res, proc, child, childRec, sent, tried, waiters, up>> /\ up
    BY <1>2 DEF PlanReady, loopv, rows, os, Quiet
  <2>4. Unborn'
    BY <2>1, <2>2, <2>3, FreshKept, UnbornKept DEF TypeInv, TypeOK, LoopTypes
  <2>5. Ahead'
    <3>1. \A k \in Jobs : pc'[k] \in Executing => pc[k] \in Executing /\ Begun(k)' = Begun(k)
      BY <2>1, <2>2, <2>3 DEF TypeInv, TypeOK, LoopTypes, Begun, Current, BusyPc, Executing, AtAwait, MidHandler, Deciding
    <3>2. QED
      BY <2>3, <3>1, FreshKept, AheadKept
  <2>6. Down' /\ Over'
    BY <2>1, <2>2, <2>3 DEF Down, Over, TypeInv, TypeOK, LoopTypes, Executing, AtAwait, MidHandler, Deciding
  <2>7. QED
    BY <2>4, <2>5, <2>6
<1>3. ASSUME NEW j \in Jobs, PlanThrows(j) PROVE Life'
  BY <1>3 DEF PlanThrows, JobMoved, Moved, Quiet, Unborn, Ahead, Down, Over, Fresh, Begun, Current, Executing, BusyPc, AtAwait, MidHandler, Deciding, Settled, Terminal, TypeInv, TypeOK, RowTypes, LoopTypes, DaemonTypes, WorldTypes, TriesLeft, Tries, rows, loopv, os
<1>4. ASSUME NEW j \in Jobs, LoopEnds(j) PROVE Life'
  BY <1>4 DEF LoopEnds, Exhausted, finishJob, TransitionJob, JobMoved, Moved, Quiet, Unborn, Ahead, Down, Over, Fresh, Begun, Current, Executing, BusyPc, AtAwait, MidHandler, Deciding, Settled, Terminal, TypeInv, TypeOK, RowTypes, LoopTypes, DaemonTypes, WorldTypes, TriesLeft, Tries, rows, loopv, os
<1>5. ASSUME NEW j \in Jobs, RefusedBeforeLaunch(j) PROVE Life'
  BY <1>5 DEF RefusedBeforeLaunch, Returned, Quiet, Unborn, Ahead, Down, Over, Fresh, Begun, Current, Executing, BusyPc, AtAwait, MidHandler, Deciding, Settled, Terminal, TypeInv, TypeOK, RowTypes, LoopTypes, DaemonTypes, WorldTypes, TriesLeft, Tries, rows, loopv, os
<1>6. ASSUME NEW j \in Jobs, NoCapacity(j) PROVE Life'
  BY <1>6 DEF NoCapacity, Returned, Quiet, Unborn, Ahead, Down, Over, Fresh, Begun, Current, Executing, BusyPc, AtAwait, MidHandler, Deciding, Settled, Terminal, TypeInv, TypeOK, RowTypes, LoopTypes, DaemonTypes, WorldTypes, TriesLeft, Tries, rows, loopv, os
<1>7. ASSUME NEW j \in Jobs, StartLaunch(j) PROVE Life'
  BY <1>7 DEF StartLaunch, Quiet, Unborn, Ahead, Down, Over, Fresh, Begun, Current, Executing, BusyPc, AtAwait, MidHandler, Deciding, Settled, Terminal, TypeInv, TypeOK, RowTypes, LoopTypes, DaemonTypes, WorldTypes, TriesLeft, Tries, rows, loopv, os
<1>8. ASSUME NEW j \in Jobs, LaunchOk(j) PROVE Life'
  <2>1. status[j] # "absent" /\ pc[j] = "launch"
    BY <1>8 DEF LaunchOk, Unborn
  <2>2. \A k \in Jobs : status'[k] # status[k] => k = j /\ status'[k] = "running"
    BY <1>8, StatusMoves DEF LaunchOk
  <2>3. /\ UNCHANGED <<res, proc, child, childRec, tried, waiters, up>> /\ up
        /\ pc' = [pc EXCEPT ![j] = "run"]
        /\ sent' = [sent EXCEPT ![j] = @ \cup {Current(j)}]
    BY <1>8 DEF LaunchOk, loopv, os, Quiet
  <2>4. QED
    BY <1>8, <2>1, <2>2, <2>3 DEF LaunchOk, Quiet, Unborn, Ahead, Down, Over, Fresh, Begun, Current, Executing, BusyPc, AtAwait, MidHandler, Deciding, Settled, Terminal, TypeInv, TypeOK, RowTypes, LoopTypes, DaemonTypes, WorldTypes, TriesLeft, Tries, rows, loopv, os
<1>9. ASSUME NEW j \in Jobs, LaunchFails(j) PROVE Life'
  <2>1. /\ status[j] # "absent"
        /\ pc[j] \in BusyPc /\ pc' = [pc EXCEPT ![j] = "judge"]
        /\ tried' = [tried EXCEPT ![j] = @ + 1]
        /\ UNCHANGED <<status, waiters, up>> /\ up
    BY <1>9 DEF LaunchFails, Returned, Unborn, BusyPc, Quiet
  <2>2. \A k \in Jobs, n \in Tries : Fresh(k, n) /\ (k # j \/ n # Current(j)) => Fresh(k, n)'
    <3>1. \A k \in Jobs, n \in Tries : k # j \/ n # Current(j) =>
            /\ att'[k][n] = att[k][n] /\ res'[k][n] = res[k][n]
            /\ proc'[k][n] = proc[k][n] /\ child'[k][n] = child[k][n]
      <4>1. /\ \E p : proc' = [proc EXCEPT ![j][Current(j)] = p]
            /\ child' = child
            /\ \E r : res' = [res EXCEPT ![j][Current(j)] = r]
            /\ \E v : att' = [att EXCEPT ![j][Current(j)] = v]
        BY <1>9 DEF LaunchFails, finishAttempt
      <4>2. QED
        BY <4>1 DEF TypeInv, TypeOK, RowTypes, WorldTypes
    <3>2. UNCHANGED <<childRec, sent>>
      BY <1>9 DEF LaunchFails
    <3>3. QED
      BY <3>1, <3>2 DEF Fresh
  <2>3. Unborn'
    BY <2>1, <2>2, UnbornKept DEF TypeInv, TypeOK, LoopTypes
  <2>4. Ahead'
    <3>1. \A k \in Jobs : pc'[k] \in Executing => pc[k] \in Executing /\ Begun(k)' = Begun(k)
      BY <2>1 DEF TypeInv, TypeOK, LoopTypes, Begun, Current, BusyPc, Executing, AtAwait, MidHandler, Deciding
    <3>2. Begun(j) = Current(j)
      BY <2>1 DEF Begun
    <3>3. \A k \in Jobs, n \in Tries : pc'[k] \in Executing /\ n > Begun(k)' => k # j \/ n # Current(j)
      BY <3>1, <3>2 DEF Tries, Current, TypeInv, TypeOK, LoopTypes
    <3>4. QED
      BY <2>2, <3>1, <3>3, AheadKept
  <2>5. Down' /\ Over'
    BY <2>1 DEF Down, Over, BusyPc, TypeInv, TypeOK, LoopTypes, Executing, AtAwait, MidHandler, Deciding
  <2>6. QED
    BY <2>3, <2>4, <2>5
<1>10. ASSUME NEW j \in Jobs, RunAnswered(j) PROVE Life'
  BY <1>10 DEF RunAnswered, RunSettles, finishAttempt, Quiet, Unborn, Ahead, Down, Over, Fresh, Begun, Current, Executing, BusyPc, AtAwait, MidHandler, Deciding, Settled, Terminal, TypeInv, TypeOK, RowTypes, LoopTypes, DaemonTypes, WorldTypes, TriesLeft, Tries, rows, loopv, os
<1>11. ASSUME NEW j \in Jobs, RunRejected(j) PROVE Life'
  BY <1>11 DEF RunRejected, RunSettles, finishAttempt, Quiet, Unborn, Ahead, Down, Over, Fresh, Begun, Current, Executing, BusyPc, AtAwait, MidHandler, Deciding, Settled, Terminal, TypeInv, TypeOK, RowTypes, LoopTypes, DaemonTypes, WorldTypes, TriesLeft, Tries, rows, loopv, os
<1>12. ASSUME NEW j \in Jobs, StopDone(j) PROVE Life'
  <2>1. /\ status[j] # "absent"
        /\ pc[j] \in BusyPc /\ pc' = [pc EXCEPT ![j] = "judge"]
        /\ tried' = [tried EXCEPT ![j] = @ + 1]
        /\ UNCHANGED <<status, waiters, up>> /\ up
    BY <1>12 DEF StopDone, Returned, Unborn, BusyPc, Quiet
  <2>2. \A k \in Jobs, n \in Tries : Fresh(k, n) /\ (k # j \/ n # Current(j)) => Fresh(k, n)'
    <3>1. \A k \in Jobs, n \in Tries : k # j \/ n # Current(j) =>
            /\ att'[k][n] = att[k][n] /\ res'[k][n] = res[k][n]
            /\ proc'[k][n] = proc[k][n] /\ child'[k][n] = child[k][n]
      <4>1. /\ \E p : proc' = [proc EXCEPT ![j][Current(j)] = p]
            /\ \E c : child' = [child EXCEPT ![j][Current(j)] = c]
            /\ \E r : res' = [res EXCEPT ![j][Current(j)] = r]
            /\ att' = att
        BY <1>12 DEF StopDone
      <4>2. QED
        BY <4>1 DEF TypeInv, TypeOK, RowTypes, WorldTypes
    <3>2. UNCHANGED <<childRec, sent>>
      BY <1>12 DEF StopDone
    <3>3. QED
      BY <3>1, <3>2 DEF Fresh
  <2>3. Unborn'
    BY <2>1, <2>2, UnbornKept DEF TypeInv, TypeOK, LoopTypes
  <2>4. Ahead'
    <3>1. \A k \in Jobs : pc'[k] \in Executing => pc[k] \in Executing /\ Begun(k)' = Begun(k)
      BY <2>1 DEF TypeInv, TypeOK, LoopTypes, Begun, Current, BusyPc, Executing, AtAwait, MidHandler, Deciding
    <3>2. Begun(j) = Current(j)
      BY <2>1 DEF Begun
    <3>3. \A k \in Jobs, n \in Tries : pc'[k] \in Executing /\ n > Begun(k)' => k # j \/ n # Current(j)
      BY <3>1, <3>2 DEF Tries, Current, TypeInv, TypeOK, LoopTypes
    <3>4. QED
      BY <2>2, <3>1, <3>3, AheadKept
  <2>5. Down' /\ Over'
    BY <2>1 DEF Down, Over, BusyPc, TypeInv, TypeOK, LoopTypes, Executing, AtAwait, MidHandler, Deciding
  <2>6. QED
    BY <2>3, <2>4, <2>5
<1>13. ASSUME NEW j \in Jobs, Judge(j) PROVE Life'
  <2>1. status[j] # "absent" /\ pc[j] = "judge"
    BY <1>13 DEF Judge, Unborn
  <2>2. \/ /\ \E to \in Settled : TransitionJob(j, to)
           /\ pc' = [pc EXCEPT ![j] = "unlock"]
        \/ /\ status' = status
           /\ pc' = [pc EXCEPT ![j] = "loop"]
    BY <1>13 DEF Judge, ActsOnVerdict, Ends, Continues, finishJob, Settled, Terminal
  <2>3. \A k \in Jobs : status'[k] # status[k] =>
          k = j /\ status'[k] # "absent" /\ pc' = [pc EXCEPT ![j] = "unlock"]
    BY <2>2, StatusMoves DEF Settled, Terminal
  <2>4. UNCHANGED <<att, res, proc, child, childRec, sent, tried, waiters, up>> /\ up
    BY <1>13 DEF Judge, loopv, rows, os
  <2>5. Unborn'
    BY <2>1, <2>2, <2>3, <2>4, FreshKept, UnbornKept DEF TypeInv, TypeOK, LoopTypes
  <2>6. Ahead'
    <3>1. \A k \in Jobs : pc'[k] \in Executing => pc[k] \in Executing /\ Begun(k)' = Begun(k)
      BY <2>1, <2>2, <2>4 DEF TypeInv, TypeOK, LoopTypes, Begun, Current, BusyPc, Executing, AtAwait, MidHandler, Deciding
    <3>2. QED
      BY <2>4, <3>1, FreshKept, AheadKept
  <2>7. Down' /\ Over'
    BY <2>1, <2>2, <2>3, <2>4 DEF Down, Over, TypeInv, TypeOK, LoopTypes, Executing, AtAwait, MidHandler, Deciding
  <2>8. QED
    BY <2>5, <2>6, <2>7
<1>14. ASSUME NEW j \in Jobs, PermissionRequired(j) PROVE Life'
  <2>1. status[j] # "absent"
    BY <1>14 DEF PermissionRequired, Unborn
  <2>2. \A k \in Jobs : status'[k] # status[k] => k = j /\ status'[k] = "awaiting_approval"
    BY <1>14, StatusMoves DEF PermissionRequired
  <2>3. UNCHANGED <<att, res, proc, child, childRec, sent, pc, tried, up>>
    BY <1>14 DEF PermissionRequired, loopv, rows, os
  <2>4. \A k \in Jobs : k # j => waiters'[k] = waiters[k]
    BY <1>14 DEF PermissionRequired
  <2>5. Unborn'
    BY <2>1, <2>2, <2>3, <2>4, FreshKept, UnbornKept
  <2>6. Ahead'
    BY <2>3, FreshKept, AheadKept DEF Begun, Current
  <2>7. Down' /\ Over'
    BY <2>2, <2>3 DEF Down, Over
  <2>8. QED
    BY <2>5, <2>6, <2>7
<1>15. ASSUME NEW j \in Jobs, WaiterFires(j) PROVE Life'
  <2>1. status[j] # "absent"
    BY <1>15 DEF WaiterFires, Unborn
  <2>2. \A k \in Jobs : status'[k] # status[k] => k = j /\ status'[k] = "running"
    BY <1>15, StatusMoves DEF WaiterFires
  <2>3. UNCHANGED <<att, res, proc, child, childRec, sent, pc, tried, up>>
    BY <1>15 DEF WaiterFires, loopv, rows, os
  <2>4. \A k \in Jobs : k # j => waiters'[k] = waiters[k]
    BY <1>15 DEF WaiterFires
  <2>5. Unborn'
    BY <2>1, <2>2, <2>3, <2>4, FreshKept, UnbornKept
  <2>6. Ahead'
    BY <2>3, FreshKept, AheadKept DEF Begun, Current
  <2>7. Down' /\ Over'
    BY <2>2, <2>3 DEF Down, Over
  <2>8. QED
    BY <2>5, <2>6, <2>7
<1>16. ASSUME NEW j \in Jobs, Cancel(j) PROVE Life'
  <2>1. status[j] # "absent"
    BY <1>16 DEF Cancel, Unborn
  <2>2. \A k \in Jobs : status'[k] # status[k] => k = j /\ status'[k] = "cancelled"
    BY <1>16, StatusMoves DEF Cancel
  <2>3. UNCHANGED <<att, res, proc, child, childRec, sent, pc, tried, up>>
    BY <1>16 DEF Cancel, loopv, rows, os
  <2>4. \A k \in Jobs : k # j => waiters'[k] = waiters[k]
    BY <1>16 DEF Cancel
  <2>5. Unborn'
    BY <2>1, <2>2, <2>3, <2>4, FreshKept, UnbornKept
  <2>6. Ahead'
    BY <2>3, FreshKept, AheadKept DEF Begun, Current
  <2>7. Down' /\ Over'
    BY <2>2, <2>3 DEF Down, Over
  <2>8. QED
    BY <2>5, <2>6, <2>7
<1>17. ASSUME NEW j \in Jobs, CancelReturns(j) PROVE Life'
  BY <1>17 DEF CancelReturns, Quiet, Unborn, Ahead, Down, Over, Fresh, Begun, Current, Executing, BusyPc, AtAwait, MidHandler, Deciding, Settled, Terminal, TypeInv, TypeOK, RowTypes, LoopTypes, DaemonTypes, WorldTypes, TriesLeft, Tries, rows, loopv, os
<1>18. ASSUME NEW j \in Jobs, CancelKills(j) PROVE Life'
  BY <1>18 DEF CancelKills, Stopped, ChildStopped, Quiet, Unborn, Ahead, Down, Over, Fresh, Begun, Current, Executing, BusyPc, AtAwait, MidHandler, Deciding, Settled, Terminal, TypeInv, TypeOK, RowTypes, LoopTypes, DaemonTypes, WorldTypes, TriesLeft, Tries, rows, loopv, os
<1>19. ASSUME NEW j \in Jobs, ChildReported(j) PROVE Life'
  BY <1>19 DEF ChildReported, Quiet, Unborn, Ahead, Down, Over, Fresh, Begun, Current, Executing, BusyPc, AtAwait, MidHandler, Deciding, Settled, Terminal, TypeInv, TypeOK, RowTypes, LoopTypes, DaemonTypes, WorldTypes, TriesLeft, Tries, rows, loopv, os
<1>20. ASSUME NEW j \in Jobs, DeadlinePasses(j) PROVE Life'
  BY <1>20 DEF DeadlinePasses, Quiet, Unborn, Ahead, Down, Over, Fresh, Begun, Current, Executing, BusyPc, AtAwait, MidHandler, Deciding, Settled, Terminal, TypeInv, TypeOK, RowTypes, LoopTypes, DaemonTypes, WorldTypes, TriesLeft, Tries, rows, loopv, os
<1>21. ASSUME NEW j \in Jobs, NEW n \in Tries, Environment(j, n) PROVE Life'
  <2>1. \A k \in Jobs, m \in Tries : Fresh(k, m) => Fresh(k, m)'
    <3>1. \A k \in Jobs, m \in Tries : k # j \/ m # n =>
            proc'[k][m] = proc[k][m] /\ child'[k][m] = child[k][m]
      BY <1>21 DEF Environment, ChildStarts, PluginExits, ChildExits, TypeInv, TypeOK, WorldTypes
    <3>2. ~Fresh(j, n)
      BY <1>21 DEF Environment, ChildStarts, PluginExits, ChildExits, Fresh
    <3>3. UNCHANGED <<att, res, childRec, sent>>
      BY <1>21 DEF Environment, ChildStarts, PluginExits, ChildExits, rows
    <3>4. QED
      BY <3>1, <3>2, <3>3 DEF Fresh
  <2>2. UNCHANGED <<status, pc, tried, waiters, up>>
    BY <1>21 DEF Environment, ChildStarts, PluginExits, ChildExits, rows
  <2>3. Unborn'
    BY <2>1, <2>2, UnbornKept
  <2>4. Ahead'
    BY <2>1, <2>2, AheadKept DEF Begun, Current
  <2>5. QED
    BY <2>2, <2>3, <2>4 DEF Down, Over
<1>22. CASE Shutdown
  BY <1>22 DEF Shutdown, Quiet, Unborn, Ahead, Down, Over, Fresh, Begun, Current, Executing, BusyPc, AtAwait, MidHandler, Deciding, Settled, Terminal, TypeInv, TypeOK, RowTypes, LoopTypes, DaemonTypes, WorldTypes, TriesLeft, Tries, rows, loopv, os
<1>23. CASE Crash
  BY <1>23 DEF Crash, Quiet, Unborn, Ahead, Down, Over, Fresh, Begun, Current, Executing, BusyPc, AtAwait, MidHandler, Deciding, Settled, Terminal, TypeInv, TypeOK, RowTypes, LoopTypes, DaemonTypes, WorldTypes, TriesLeft, Tries, rows, loopv, os
<1>24. CASE Restart
  BY <1>24 DEF Restart, Unfinished, KilledAtRestart, AfterRelease, Moved, NonTerminalRow, Quiet, Unborn, Ahead, Down, Over, Fresh, Begun, Current, Executing, BusyPc, AtAwait, MidHandler, Deciding, Settled, Terminal, TypeInv, TypeOK, RowTypes, LoopTypes, DaemonTypes, WorldTypes, TriesLeft, Tries, rows, loopv, os
<1>25. CASE UNCHANGED vars
  BY <1>25 DEF vars, Quiet, Unborn, Ahead, Down, Over, Fresh, Begun, Current, Executing, BusyPc, AtAwait, MidHandler, Deciding, Settled, Terminal, TypeInv, TypeOK, RowTypes, LoopTypes, DaemonTypes, WorldTypes, TriesLeft, Tries, rows, loopv, os
<1>u. ASSUME NEW j \in Jobs, Unlock(j) PROVE Life'
  BY <1>u DEF Unlock, Quiet, Unborn, Ahead, Down, Over, Fresh, Begun, Current, Executing, BusyPc, AtAwait, MidHandler, Deciding, Settled, Terminal, TypeInv, TypeOK, RowTypes, LoopTypes, DaemonTypes, WorldTypes, TriesLeft, Tries, rows, loopv, os
<1>26. QED
  BY <1>1, <1>2, <1>3, <1>4, <1>5, <1>6, <1>7, <1>8, <1>9, <1>10, <1>11, <1>12, <1>13, <1>14, <1>15, <1>16, <1>17, <1>18, <1>19, <1>20, <1>21, <1>22, <1>23, <1>24, <1>25, <1>u
     DEF Next, Executes, OnItsOwn, LoopStep

-----------------------------------------------------------------------------
(* Capacity *)

LEMMA ReservationSteps ==
  ASSUME [Next]_vars
  PROVE  \/ UNCHANGED <<res, plug>>
         \/ Restart
         \/ \E j \in Jobs : NoCapacity(j) \/ StartLaunch(j) \/ LaunchFails(j) \/ StopDone(j)
BY DEF Next, Executes, OnItsOwn, LoopStep, Environment, vars, rows, loopv, os, Submit, PlanReady,
       PlanThrows, LoopEnds, RefusedBeforeLaunch, LaunchOk, RunAnswered, RunRejected,
       RunSettles, Judge, Unlock, PermissionRequired, WaiterFires, Cancel, CancelReturns, CancelKills,
       ChildReported, DeadlinePasses, ChildStarts, PluginExits, ChildExits, Shutdown, Crash

LEMMA CountsFinite == \A pool : IsFiniteSet(CountsAgainst(pool))
<1>1. IsFiniteSet(1 .. MaxAttempts)
  BY FS_Interval, RuntimeAssumption DEF RuntimeAssumption
<1>2. IsFiniteSet(Attempts)
  BY <1>1, FS_Product, RuntimeAssumption DEF RuntimeAssumption, Attempts, Tries
<1>3. QED
  BY <1>2, FS_Subset DEF CountsAgainst

LEMMA StillWithin ==
  ASSUME NEW pool, CountsAgainst(pool)' \subseteq CountsAgainst(pool),
         Cardinality(CountsAgainst(pool)) <= PoolMax(pool)
  PROVE  Cardinality(CountsAgainst(pool)') <= PoolMax(pool)
<1>1. /\ IsFiniteSet(CountsAgainst(pool)) /\ IsFiniteSet(CountsAgainst(pool)')
      /\ Cardinality(CountsAgainst(pool)') <= Cardinality(CountsAgainst(pool))
  BY CountsFinite, FS_Subset
<1>2. /\ Cardinality(CountsAgainst(pool)) \in Nat /\ Cardinality(CountsAgainst(pool)') \in Nat
      /\ PoolMax(pool) \in Nat
  BY <1>1, FS_CardinalityType, RuntimeAssumption DEF PoolMax, RuntimeAssumption
<1>3. QED
  BY <1>1, <1>2

\* The attempt a loop is about to begin has no trace yet.
LEMMA NextTryFresh ==
  ASSUME TypeInv, Life, NEW j \in Jobs, pc[j] = "loop", ~MayNotLaunch(j)
  PROVE  Current(j) \in Tries /\ Fresh(j, Current(j)) /\ plan[j][cand[j]] \in Plugins
<1>1. Current(j) \in Tries /\ plan[j][cand[j]] \in Plugins
  BY LoopTryType
<1>2. Begun(j) = tried[j] /\ Current(j) > tried[j]
  BY DEF Begun, BusyPc, Current, TypeInv, TypeOK, LoopTypes
<1>3. QED
  BY <1>1, <1>2 DEF Life, Ahead, Executing, MidHandler, Deciding

LEMMA CapacityStep ==
  ASSUME TypeInv, Life, CapacityBound, [Next]_vars
  PROVE  CapacityBound'
<1> SUFFICES ASSUME NEW pool \in Pool
             PROVE  Cardinality(CountsAgainst(pool)') <= PoolMax(pool)
  BY DEF CapacityBound
<1>1. CASE CountsAgainst(pool)' \subseteq CountsAgainst(pool)
  BY <1>1, StillWithin DEF CapacityBound
<1>2. CASE UNCHANGED <<res, plug>>
  <2>1. CountsAgainst(pool)' = CountsAgainst(pool)
    BY <1>2 DEF CountsAgainst
  <2>2. QED
    BY <1>1, <2>1
<1>3. ASSUME NEW j \in Jobs, NoCapacity(j) PROVE Cardinality(CountsAgainst(pool)') <= PoolMax(pool)
  <2>1. Current(j) \in Tries /\ res[j][Current(j)] = "none"
    BY <1>3, NextTryFresh DEF NoCapacity, Fresh
  <2>2. res' = res /\ plug' = [plug EXCEPT ![j][Current(j)] = plan[j][cand[j]]]
    BY <1>3 DEF NoCapacity
  <2>3. CountsAgainst(pool)' \subseteq CountsAgainst(pool)
    BY <2>1, <2>2 DEF CountsAgainst, Attempts, TypeInv, TypeOK, RowTypes
  <2>4. QED
    BY <1>1, <2>3
<1>4. ASSUME NEW j \in Jobs, StartLaunch(j) PROVE Cardinality(CountsAgainst(pool)') <= PoolMax(pool)
  <2> DEFINE n == Current(j)
             p == plan[j][cand[j]]
  <2>1. /\ n \in Tries /\ p \in Plugins /\ res[j][n] = "none"
        /\ res' = [res EXCEPT ![j][n] = "held"] /\ plug' = [plug EXCEPT ![j][n] = p]
        /\ CanReserve(j, p)
    BY <1>4, NextTryFresh DEF StartLaunch, Fresh
  <2>2. \A k \in Jobs, m \in Tries : k # j \/ m # n =>
          res'[k][m] = res[k][m] /\ plug'[k][m] = plug[k][m]
    BY <2>1 DEF TypeInv, TypeOK, RowTypes
  <2>3. res'[j][n] = "held" /\ plug'[j][n] = p
    BY <2>1 DEF TypeInv, TypeOK, RowTypes
  <2> HIDE DEF n, p
  <2>4. CASE pool \in PoolsOf(j, p)
    <3>1. CountsAgainst(pool)' \subseteq CountsAgainst(pool) \cup {<<j, n>>}
      BY <2>2 DEF CountsAgainst, Attempts
    <3>2. Cardinality(CountsAgainst(pool)) < PoolMax(pool)
      BY <2>1, <2>4 DEF CanReserve, PoolFree
    <3>3. /\ IsFiniteSet(CountsAgainst(pool))
          /\ IsFiniteSet(CountsAgainst(pool) \cup {<<j, n>>})
          /\ Cardinality(CountsAgainst(pool) \cup {<<j, n>>}) <= Cardinality(CountsAgainst(pool)) + 1
      <4>1. IsFiniteSet(CountsAgainst(pool))
        BY CountsFinite
      <4>2. Cardinality(CountsAgainst(pool)) \in Nat
        BY <4>1, FS_CardinalityType
      <4>3. /\ IsFiniteSet(CountsAgainst(pool) \cup {<<j, n>>})
            /\ \/ Cardinality(CountsAgainst(pool) \cup {<<j, n>>}) = Cardinality(CountsAgainst(pool))
               \/ Cardinality(CountsAgainst(pool) \cup {<<j, n>>}) = Cardinality(CountsAgainst(pool)) + 1
        BY <4>1, FS_AddElement
      <4>4. QED
        BY <4>1, <4>2, <4>3
    <3>4. Cardinality(CountsAgainst(pool)') <= Cardinality(CountsAgainst(pool) \cup {<<j, n>>})
      BY <3>1, <3>3, FS_Subset
    <3>5. /\ Cardinality(CountsAgainst(pool)) \in Nat /\ PoolMax(pool) \in Nat
          /\ Cardinality(CountsAgainst(pool) \cup {<<j, n>>}) \in Nat
          /\ Cardinality(CountsAgainst(pool)') \in Nat
      BY <3>3, CountsFinite, FS_CardinalityType, FS_Subset, <3>1, RuntimeAssumption DEF PoolMax, RuntimeAssumption
    <3>6. QED
      BY <3>2, <3>3, <3>4, <3>5
  <2>5. CASE pool \notin PoolsOf(j, p)
    <3>1. CountsAgainst(pool)' \subseteq CountsAgainst(pool)
      BY <2>2, <2>3, <2>5 DEF CountsAgainst, Attempts
    <3>2. QED
      BY <1>1, <3>1
  <2>6. QED
    BY <2>4, <2>5
<1>5. ASSUME plug' = plug,
             \A k \in Jobs, m \in Tries : res'[k][m] # res[k][m] => res[k][m] = "held"
      PROVE  Cardinality(CountsAgainst(pool)') <= PoolMax(pool)
  <2>1. CountsAgainst(pool)' \subseteq CountsAgainst(pool)
    BY <1>5 DEF CountsAgainst, Attempts
  <2>2. QED
    BY <1>1, <2>1
<1>6. ASSUME NEW j \in Jobs, LaunchFails(j) \/ StopDone(j)
      PROVE  Cardinality(CountsAgainst(pool)') <= PoolMax(pool)
  <2>1. PICK u : res' = [res EXCEPT ![j][Current(j)] = AfterRelease(@, u)]
    BY <1>6 DEF LaunchFails, StopDone
  <2>2. \A k \in Jobs, m \in Tries : res'[k][m] # res[k][m] => res[k][m] = "held"
    BY <2>1 DEF AfterRelease, TypeInv, TypeOK, RowTypes
  <2>3. QED
    BY <1>5, <1>6, <2>2 DEF LaunchFails, StopDone
<1>7. CASE Restart
  <2>1. \A k \in Jobs, m \in Tries : res'[k][m] # res[k][m] => res[k][m] = "held"
    BY <1>7 DEF Restart, AfterRelease, TypeInv, TypeOK, RowTypes
  <2>2. QED
    BY <1>5, <1>7, <2>1 DEF Restart
<1>8. QED
  BY <1>2, <1>3, <1>4, <1>6, <1>7, ReservationSteps

-----------------------------------------------------------------------------
(* The attempt an execution is busy with *)

LEMMA OwnedSteps ==
  ASSUME [Next]_vars
  PROVE  \/ UNCHANGED <<pc, res, att, sent, tried, up>>
         \/ Crash
         \/ Restart
         \/ \E j \in Jobs :
              \/ Submit(j) \/ PlanReady(j) \/ PlanThrows(j) \/ LoopEnds(j)
              \/ RefusedBeforeLaunch(j) \/ NoCapacity(j) \/ StartLaunch(j) \/ LaunchOk(j)
              \/ LaunchFails(j) \/ RunAnswered(j) \/ RunRejected(j) \/ StopDone(j) \/ Judge(j)
              \/ Unlock(j)
BY DEF Next, Executes, OnItsOwn, LoopStep, Environment, vars, rows, loopv, os, PermissionRequired, WaiterFires,
       Cancel, CancelReturns, CancelKills, ChildReported, DeadlinePasses, ChildStarts,
       PluginExits, ChildExits, Shutdown

LEMMA OwnedStep ==
  ASSUME TypeInv, Life, Owned, [Next]_vars
  PROVE  Owned'

<1>1. CASE UNCHANGED <<pc, res, att, sent, tried, up>>
  BY <1>1 DEF Owned, Current
<1>2. ASSUME NEW j \in Jobs, Submit(j) PROVE Owned'
  BY <1>2, NextTryFresh, CurrentType DEF Submit, Owned, BusyPc, Current, TypeInv, TypeOK, RowTypes, LoopTypes, WorldTypes, Tries, rows, loopv, os
<1>3. ASSUME NEW j \in Jobs, PlanReady(j) PROVE Owned'
  BY <1>3, NextTryFresh, CurrentType DEF PlanReady, Exhausted, finishJob, Owned, BusyPc, Current, TypeInv, TypeOK, RowTypes, LoopTypes, WorldTypes, Tries, rows, loopv, os
<1>4. ASSUME NEW j \in Jobs, PlanThrows(j) PROVE Owned'
  BY <1>4, NextTryFresh, CurrentType DEF PlanThrows, Owned, BusyPc, Current, TypeInv, TypeOK, RowTypes, LoopTypes, WorldTypes, Tries, rows, loopv, os
<1>5. ASSUME NEW j \in Jobs, LoopEnds(j) PROVE Owned'
  BY <1>5, NextTryFresh, CurrentType DEF LoopEnds, Exhausted, finishJob, Owned, BusyPc, Current, TypeInv, TypeOK, RowTypes, LoopTypes, WorldTypes, Tries, rows, loopv, os
<1>6. ASSUME NEW j \in Jobs, RefusedBeforeLaunch(j) PROVE Owned'
  BY <1>6, NextTryFresh, CurrentType DEF RefusedBeforeLaunch, Returned, Owned, BusyPc, Current, TypeInv, TypeOK, RowTypes, LoopTypes, WorldTypes, Tries, rows, loopv, os
<1>7. ASSUME NEW j \in Jobs, NoCapacity(j) PROVE Owned'
  BY <1>7, NextTryFresh, CurrentType DEF NoCapacity, Returned, Owned, BusyPc, Current, TypeInv, TypeOK, RowTypes, LoopTypes, WorldTypes, Tries, rows, loopv, os
<1>8. ASSUME NEW j \in Jobs, StartLaunch(j) PROVE Owned'
  <2>1. /\ Current(j) \in Tries /\ Current(j) \notin sent[j]
        /\ pc' = [pc EXCEPT ![j] = "launch"]
        /\ res' = [res EXCEPT ![j][Current(j)] = "held"]
        /\ att' = [att EXCEPT ![j][Current(j)] = "queued"]
        /\ UNCHANGED <<tried, sent>>
    BY <1>8, NextTryFresh DEF StartLaunch, Fresh
  <2>2. \A k \in Jobs : Current(k)' = Current(k)
    BY <2>1 DEF Current
  <2>3. res'[j][Current(j)] = "held" /\ att'[j][Current(j)] = "queued" /\ pc'[j] = "launch"
    BY <2>1 DEF TypeInv, TypeOK, RowTypes, LoopTypes
  <2>4. \A k \in Jobs : k # j => pc'[k] = pc[k] /\ res'[k] = res[k] /\ att'[k] = att[k]
    BY <2>1 DEF TypeInv, TypeOK, RowTypes, LoopTypes
  <2>5. QED
    BY <2>1, <2>2, <2>3, <2>4 DEF Owned
<1>9. ASSUME NEW j \in Jobs, LaunchOk(j) PROVE Owned'
  BY <1>9, NextTryFresh, CurrentType, ZenonT(60) DEF LaunchOk, Owned, BusyPc, Current, TypeInv, TypeOK, RowTypes, LoopTypes, WorldTypes, Tries, rows, loopv, os
<1>10. ASSUME NEW j \in Jobs, LaunchFails(j) PROVE Owned'
  BY <1>10, NextTryFresh, CurrentType DEF LaunchFails, Returned, finishAttempt, Owned, BusyPc, Current, TypeInv, TypeOK, RowTypes, LoopTypes, WorldTypes, Tries, rows, loopv, os
<1>11. ASSUME NEW j \in Jobs, RunAnswered(j) PROVE Owned'
  BY <1>11, NextTryFresh, CurrentType DEF RunAnswered, RunSettles, finishAttempt, Owned, BusyPc, Current, TypeInv, TypeOK, RowTypes, LoopTypes, WorldTypes, Tries, rows, loopv, os
<1>12. ASSUME NEW j \in Jobs, RunRejected(j) PROVE Owned'
  BY <1>12, NextTryFresh, CurrentType DEF RunRejected, RunSettles, finishAttempt, Owned, BusyPc, Current, TypeInv, TypeOK, RowTypes, LoopTypes, WorldTypes, Tries, rows, loopv, os
<1>13. ASSUME NEW j \in Jobs, StopDone(j) PROVE Owned'
  BY <1>13, NextTryFresh, CurrentType DEF StopDone, Owned, BusyPc, Current, TypeInv, TypeOK, RowTypes, LoopTypes, WorldTypes, Tries, rows, loopv, os
<1>14. ASSUME NEW j \in Jobs, Judge(j) PROVE Owned'
  BY <1>14, NextTryFresh, CurrentType DEF Judge, ActsOnVerdict, Ends, Continues, finishJob, Owned, BusyPc, Current, TypeInv, TypeOK, RowTypes, LoopTypes, WorldTypes, Tries, rows, loopv, os
<1>15. CASE Crash
  BY <1>15 DEF Crash, Owned, BusyPc
<1>16. CASE Restart
  BY <1>16 DEF Restart, Owned, BusyPc, Life, Down
<1>u. ASSUME NEW j \in Jobs, Unlock(j) PROVE Owned'
  BY <1>u DEF Unlock, Owned, BusyPc, Current, TypeInv, TypeOK, RowTypes, LoopTypes, WorldTypes, Tries, rows, loopv, os
<1>17. QED
  BY <1>1, <1>2, <1>3, <1>4, <1>5, <1>6, <1>7, <1>8, <1>9, <1>10, <1>11, <1>12, <1>13, <1>14, <1>15, <1>16, <1>u, OwnedSteps

-----------------------------------------------------------------------------
(* Rows and executions *)

LEMMA MovedSettles ==
  /\ Moved("queued", "failed") = "failed"
  /\ \A s \in NonTerminalRow : Moved(s, "needs_recovery") = "needs_recovery"
  /\ \A to \in Settled : Moved("running", to) = to
BY DEF Moved, Transitions, NonTerminalRow, Settled, Terminal

LEMMA AttemptOutcomeSettled == \A r \in RunResult : AttemptOutcome(r) \in Settled
BY DEF AttemptOutcome, RunResult, Settled, Terminal

LEMMA RowsOwnedStep ==
  ASSUME TypeInv, Life, Owned, RowsOwned, [Next]_vars
  PROVE  RowsOwned'

<1>1. CASE UNCHANGED <<pc, res, att, sent, tried, up>>
  BY <1>1 DEF RowsOwned, Current
<1>2. ASSUME NEW j \in Jobs, Submit(j) PROVE RowsOwned'
  <2>1. pc[j] = "idle" /\ up
    BY <1>2 DEF Submit, Life, Unborn, Quiet
  <2>2. UNCHANGED <<att, tried>> /\ pc' = [pc EXCEPT ![j] = "plan"]
    BY <1>2 DEF Submit
  <2>3. QED
    BY <2>1, <2>2 DEF RowsOwned, Current, TypeInv, TypeOK, LoopTypes
<1>3. ASSUME NEW j \in Jobs, PlanReady(j) PROVE RowsOwned'
  <2>1. pc[j] = "plan" /\ up /\ UNCHANGED <<att, tried>>
    BY <1>3 DEF PlanReady, Quiet
  <2>2. \E to : pc' = [pc EXCEPT ![j] = to]
    BY <1>3 DEF PlanReady, Exhausted, finishJob
  <2>3. QED
    BY <2>1, <2>2 DEF RowsOwned, Current, TypeInv, TypeOK, LoopTypes
<1>4. ASSUME NEW j \in Jobs, PlanThrows(j) PROVE RowsOwned'
  BY <1>4, NextTryFresh, CurrentType, MovedSettles, AttemptOutcomeSettled, RuntimeAssumption DEF PlanThrows, Owned, RowsOwned, RuntimeAssumption, NonTerminalRow, Settled, Terminal, BusyPc, Current, TypeInv, TypeOK, RowTypes, LoopTypes, WorldTypes, Tries, rows, loopv, os
<1>5. ASSUME NEW j \in Jobs, LoopEnds(j) PROVE RowsOwned'
  BY <1>5, NextTryFresh, CurrentType, MovedSettles, AttemptOutcomeSettled, RuntimeAssumption DEF LoopEnds, Exhausted, finishJob, Owned, RowsOwned, RuntimeAssumption, NonTerminalRow, Settled, Terminal, BusyPc, Current, TypeInv, TypeOK, RowTypes, LoopTypes, WorldTypes, Tries, rows, loopv, os
<1>6. ASSUME NEW j \in Jobs, RefusedBeforeLaunch(j) PROVE RowsOwned'
  BY <1>6, NextTryFresh, CurrentType, MovedSettles, AttemptOutcomeSettled, RuntimeAssumption DEF RefusedBeforeLaunch, Returned, Owned, RowsOwned, RuntimeAssumption, NonTerminalRow, Settled, Terminal, BusyPc, Current, TypeInv, TypeOK, RowTypes, LoopTypes, WorldTypes, Tries, rows, loopv, os
<1>7. ASSUME NEW j \in Jobs, NoCapacity(j) PROVE RowsOwned'
  BY <1>7, NextTryFresh, CurrentType, MovedSettles, AttemptOutcomeSettled, RuntimeAssumption DEF NoCapacity, Returned, Owned, RowsOwned, RuntimeAssumption, NonTerminalRow, Settled, Terminal, BusyPc, Current, TypeInv, TypeOK, RowTypes, LoopTypes, WorldTypes, Tries, rows, loopv, os
<1>8. ASSUME NEW j \in Jobs, StartLaunch(j) PROVE RowsOwned'
  BY <1>8, NextTryFresh, CurrentType, MovedSettles, AttemptOutcomeSettled, RuntimeAssumption DEF StartLaunch, Fresh, Owned, RowsOwned, RuntimeAssumption, NonTerminalRow, Settled, Terminal, BusyPc, Current, TypeInv, TypeOK, RowTypes, LoopTypes, WorldTypes, Tries, rows, loopv, os
<1>9. ASSUME NEW j \in Jobs, LaunchOk(j) PROVE RowsOwned'
  BY <1>9, NextTryFresh, CurrentType, MovedSettles, AttemptOutcomeSettled, RuntimeAssumption DEF LaunchOk, Owned, RowsOwned, RuntimeAssumption, NonTerminalRow, Settled, Terminal, BusyPc, Current, TypeInv, TypeOK, RowTypes, LoopTypes, WorldTypes, Tries, rows, loopv, os
<1>10. ASSUME NEW j \in Jobs, LaunchFails(j) PROVE RowsOwned'
  BY <1>10, NextTryFresh, CurrentType, MovedSettles, AttemptOutcomeSettled, RuntimeAssumption DEF LaunchFails, Returned, finishAttempt, Owned, RowsOwned, RuntimeAssumption, NonTerminalRow, Settled, Terminal, BusyPc, Current, TypeInv, TypeOK, RowTypes, LoopTypes, WorldTypes, Tries, rows, loopv, os
<1>11. ASSUME NEW j \in Jobs, RunAnswered(j) PROVE RowsOwned'
  <2>1. PICK r \in RunResult : RunSettles(j, r, AttemptOutcome(r))
    BY <1>11, RuntimeAssumption DEF RunAnswered, RuntimeAssumption
  <2>2. Current(j) \in Tries /\ att[j][Current(j)] = "running" /\ up
    BY <1>11, CurrentType DEF RunAnswered, Owned, BusyPc, Quiet
  <2>3. \E to \in Settled : att' = [att EXCEPT ![j][Current(j)] = to]
    BY <2>1, <2>2, AttemptOutcomeSettled, MovedSettles DEF RunSettles, finishAttempt, TypeInv, TypeOK, RowTypes
  <2>4. pc' = [pc EXCEPT ![j] = "stop"] /\ tried' = tried
    BY <2>1 DEF RunSettles
  <2>5. QED
    BY <2>2, <2>3, <2>4 DEF RowsOwned, Current, TypeInv, TypeOK, RowTypes, LoopTypes
<1>12. ASSUME NEW j \in Jobs, RunRejected(j) PROVE RowsOwned'
  BY <1>12, NextTryFresh, CurrentType, MovedSettles, AttemptOutcomeSettled, RuntimeAssumption DEF RunRejected, RunSettles, finishAttempt, Owned, RowsOwned, RuntimeAssumption, NonTerminalRow, Settled, Terminal, BusyPc, Current, TypeInv, TypeOK, RowTypes, LoopTypes, WorldTypes, Tries, rows, loopv, os
<1>13. ASSUME NEW j \in Jobs, StopDone(j) PROVE RowsOwned'
  BY <1>13, NextTryFresh, CurrentType, MovedSettles, AttemptOutcomeSettled, RuntimeAssumption DEF StopDone, Owned, RowsOwned, RuntimeAssumption, NonTerminalRow, Settled, Terminal, BusyPc, Current, TypeInv, TypeOK, RowTypes, LoopTypes, WorldTypes, Tries, rows, loopv, os
<1>14. ASSUME NEW j \in Jobs, Judge(j) PROVE RowsOwned'
  <2>1. pc[j] = "judge" /\ up /\ UNCHANGED <<att, tried>>
    BY <1>14 DEF Judge
  <2>2. \E to : pc' = [pc EXCEPT ![j] = to]
    BY <1>14 DEF Judge, ActsOnVerdict, Ends, Continues, finishJob
  <2>3. QED
    BY <2>1, <2>2 DEF RowsOwned, Current, TypeInv, TypeOK, LoopTypes
<1>15. CASE Crash
  BY <1>15 DEF Crash, RowsOwned
<1>16. CASE Restart
  BY <1>16, MovedSettles DEF Restart, RowsOwned, Unfinished, TypeInv, TypeOK, RowTypes, JobState, NonTerminalRow, Settled, Terminal
<1>u. ASSUME NEW j \in Jobs, Unlock(j) PROVE RowsOwned'
  BY <1>u DEF Unlock, RowsOwned, Current, TypeInv, TypeOK, LoopTypes
<1>17. QED
  BY <1>1, <1>2, <1>3, <1>4, <1>5, <1>6, <1>7, <1>8, <1>9, <1>10, <1>11, <1>12, <1>13, <1>14, <1>15, <1>16, <1>u, OwnedSteps

-----------------------------------------------------------------------------
(* Reservations of attempts whose processes may be alive *)

LEMMA ProcessSteps ==
  ASSUME [Next]_vars
  PROVE  \/ UNCHANGED <<sent, proc, child, childRec, res>>
         \/ Shutdown
         \/ Restart
         \/ \E j \in Jobs :
              \/ StartLaunch(j) \/ LaunchOk(j) \/ LaunchFails(j) \/ StopDone(j)
              \/ CancelKills(j) \/ ChildReported(j)
              \/ \E n \in Tries : Environment(j, n)
BY DEF Next, Executes, OnItsOwn, LoopStep, vars, rows, loopv, os, Submit, PlanReady,
       PlanThrows, LoopEnds, RefusedBeforeLaunch, NoCapacity, RunAnswered, RunRejected,
       RunSettles, Judge, Unlock, PermissionRequired, WaiterFires, Cancel, CancelReturns,
       DeadlinePasses, Crash

LEMMA HeldStep ==
  ASSUME TypeInv, Life, Owned, HeldWhileBusy, [Next]_vars
  PROVE  HeldWhileBusy'
<1>1. CASE UNCHANGED <<sent, proc, child, childRec, res>>
  BY <1>1 DEF HeldWhileBusy, Busy, NotConfirmedDead

<1>2. ASSUME NEW j \in Jobs, StartLaunch(j) PROVE HeldWhileBusy'
  BY <1>2, NextTryFresh, CurrentType DEF StartLaunch, Fresh, Owned, HeldWhileBusy, Busy, NotConfirmedDead, TypeInv, TypeOK, RowTypes, WorldTypes, Tries, rows, loopv, os
<1>3. ASSUME NEW j \in Jobs, LaunchOk(j) PROVE HeldWhileBusy'
  BY <1>3, NextTryFresh, CurrentType DEF LaunchOk, BusyPc, Owned, HeldWhileBusy, Busy, NotConfirmedDead, TypeInv, TypeOK, RowTypes, WorldTypes, Tries, rows, loopv, os
<1>4. ASSUME NEW j \in Jobs, LaunchFails(j) PROVE HeldWhileBusy'
  BY <1>4, NextTryFresh, CurrentType DEF LaunchFails, Stopped, AfterRelease, BusyPc, Owned, HeldWhileBusy, Busy, NotConfirmedDead, TypeInv, TypeOK, RowTypes, WorldTypes, Tries, rows, loopv, os
<1>5. ASSUME NEW j \in Jobs, StopDone(j) PROVE HeldWhileBusy'
  BY <1>5, NextTryFresh, CurrentType DEF StopDone, Stopped, ChildStopped, AfterRelease, BusyPc, Owned, HeldWhileBusy, Busy, NotConfirmedDead, TypeInv, TypeOK, RowTypes, WorldTypes, Tries, rows, loopv, os
<1>6. ASSUME NEW j \in Jobs, CancelKills(j) PROVE HeldWhileBusy'
  BY <1>6, NextTryFresh, CurrentType DEF CancelKills, Stopped, ChildStopped, Owned, HeldWhileBusy, Busy, NotConfirmedDead, TypeInv, TypeOK, RowTypes, WorldTypes, Tries, rows, loopv, os
<1>7. ASSUME NEW j \in Jobs, ChildReported(j) PROVE HeldWhileBusy'
  BY <1>7, NextTryFresh, CurrentType DEF ChildReported, Owned, HeldWhileBusy, Busy, NotConfirmedDead, TypeInv, TypeOK, RowTypes, WorldTypes, Tries, rows, loopv, os
<1>8. ASSUME NEW j \in Jobs, NEW n \in Tries, Environment(j, n) PROVE HeldWhileBusy'
  <2>1. UNCHANGED <<res, sent, childRec>>
    BY <1>8 DEF Environment, ChildStarts, PluginExits, ChildExits, rows
  <2>2. \A k \in Jobs, m \in Tries : k # j \/ m # n =>
          proc'[k][m] = proc[k][m] /\ child'[k][m] = child[k][m]
    BY <1>8 DEF Environment, ChildStarts, PluginExits, ChildExits, TypeInv, TypeOK, WorldTypes
  <2>3. NotConfirmedDead(proc'[j][n], child'[j][n], childRec[j][n])
          => NotConfirmedDead(proc[j][n], child[j][n], childRec[j][n])
    BY <1>8 DEF Environment, ChildStarts, PluginExits, ChildExits, NotConfirmedDead,
                TypeInv, TypeOK, WorldTypes
  <2>4. QED
    BY <2>1, <2>2, <2>3 DEF HeldWhileBusy, Busy, NotConfirmedDead
<1>9. CASE Shutdown
  BY <1>9 DEF Shutdown, HeldWhileBusy, Busy, NotConfirmedDead, TypeInv, TypeOK, RowTypes, WorldTypes, Tries, rows
<1>10. CASE Restart
  BY <1>10 DEF Restart, AfterRelease, UnknownAtRestart, HeldWhileBusy, Busy, NotConfirmedDead, TypeInv, TypeOK, RowTypes, WorldTypes, Tries, rows
<1>11. QED
  BY <1>1, <1>2, <1>3, <1>4, <1>5, <1>6, <1>7, <1>8, <1>9, <1>10, ProcessSteps

-----------------------------------------------------------------------------
(* Settled jobs, and the workspaces of open ones *)

LEMMA TerminalStays == \A s \in Terminal : \A to : Moved(s, to) = s
BY DEF Moved, Transitions, Terminal

LEMMA RecoveryStays ==
  \A to \in {"running", "awaiting_approval", "needs_recovery"} :
    Moved("needs_recovery", to) = "needs_recovery"
BY DEF Moved, Transitions

LEMMA StatusSteps ==
  ASSUME [Next]_vars
  PROVE  \/ UNCHANGED <<status, pc, lock>>
         \/ Crash
         \/ Restart
         \/ \E j \in Jobs :
              \/ Submit(j) \/ PlanReady(j) \/ PlanThrows(j) \/ LoopEnds(j)
              \/ RefusedBeforeLaunch(j) \/ NoCapacity(j) \/ StartLaunch(j) \/ LaunchOk(j)
              \/ LaunchFails(j) \/ RunAnswered(j) \/ RunRejected(j) \/ StopDone(j) \/ Judge(j)
              \/ Unlock(j) \/ PermissionRequired(j) \/ WaiterFires(j) \/ Cancel(j)
BY DEF Next, Executes, OnItsOwn, LoopStep, Environment, vars, rows, loopv, os,
       CancelReturns, CancelKills, ChildReported, DeadlinePasses, ChildStarts,
       PluginExits, ChildExits, Shutdown

Occupied == AtAwait \cup MidHandler

\* A job whose workspace has to stay locked.
Holding(j) == status[j] \notin Terminal \cup {"absent"} \/ pc[j] \in Occupied

LEMMA LockKept ==
  ASSUME LockHeld, lock' = lock, \A k \in Jobs : Holding(k)' => Holding(k)
  PROVE  LockHeld'
BY DEF LockHeld, Holding, Occupied

\* The execution whose job finishJob settles has its workspace until Unlock.
LEMMA FinishKeepsLocks ==
  ASSUME TypeInv, LockHeld, NEW j \in Jobs, NEW to, finishJob(j, to), pc[j] \in Executing,
         lock' = lock
  PROVE  LockHeld'
<1>1. \A i \in Jobs : i # j => status'[i] = status[i] /\ pc'[i] = pc[i]
  BY StatusMoves DEF finishJob, TypeInv, TypeOK, LoopTypes
<1>2. Holding(j)
  BY DEF Holding, Occupied, Executing, MidHandler
<1>3. QED
  BY <1>1, <1>2, LockKept DEF Holding

\* Unlock gives back only the workspace of its own job.
LEMMA UnlockKeepsLocks ==
  ASSUME TypeInv, LockHeld, NEW j \in Jobs, Unlock(j)
  PROVE  LockHeld'
<1> SUFFICES ASSUME NEW k \in Jobs, HandleOf[k] # NoHandle, Holding(k)'
             PROVE  lock'[HandleOf[k]] = k
  BY DEF LockHeld, Holding, Occupied
<1>1. /\ pc[j] = "unlock" /\ pc' = [pc EXCEPT ![j] = "done"] /\ status' = status
      /\ lock' = UnlockedIfTerminal(lock, status, j)
  BY DEF Unlock
<1>2. Holding(k)
  BY <1>1 DEF Holding, Occupied, MidHandler, TypeInv, TypeOK, LoopTypes
<1>3. lock[HandleOf[k]] = k /\ HandleOf[k] \in Handles
  BY <1>2, RuntimeAssumption DEF LockHeld, Holding, Occupied, RuntimeAssumption
<1>4. lock' = lock \/ (status[j] \in Terminal /\ lock[HandleOf[j]] = j
                       /\ lock' = [lock EXCEPT ![HandleOf[j]] = Nobody])
  BY <1>1 DEF UnlockedIfTerminal
<1>5. k = j => status[j] \notin Terminal
  BY <1>1 DEF Holding, Occupied, AtAwait, MidHandler, Deciding, TypeInv, TypeOK, LoopTypes
<1>6. QED
  BY <1>3, <1>4, <1>5 DEF TypeInv, TypeOK, RowTypes

LEMMA LockStep ==
  ASSUME TypeInv, Life, LockHeld, [Next]_vars
  PROVE  LockHeld'
<1>1. CASE UNCHANGED <<status, pc, lock>>
  BY <1>1 DEF LockHeld

<1>2. ASSUME NEW j \in Jobs, Submit(j) PROVE LockHeld'
  <2>1. /\ status[j] = "absent" /\ pc[j] = "idle"
        /\ status' = [status EXCEPT ![j] = "queued"]
        /\ pc' = [pc EXCEPT ![j] = "plan"]
    BY <1>2 DEF Submit, Life, Unborn
  <2>2. /\ HandleOf[j] # NoHandle => lock[HandleOf[j]] = Nobody
        /\ lock' = IF HandleOf[j] = NoHandle THEN lock ELSE [lock EXCEPT ![HandleOf[j]] = j]
    BY <1>2 DEF Submit
  <2>3. QED
    BY <2>1, <2>2, RuntimeAssumption DEF LockHeld, TypeInv, TypeOK, RowTypes, LoopTypes, RuntimeAssumption
<1>3. ASSUME NEW j \in Jobs, PlanReady(j) PROVE LockHeld'
  <2>1. status[j] # "absent" /\ pc[j] = "plan"
    BY <1>3 DEF PlanReady, Life, Unborn
  <2>2. CASE Exhausted(j)
    BY <1>3, <2>1, <2>2, FinishKeepsLocks DEF PlanReady, Exhausted, Executing, AtAwait
  <2>3. CASE pc' = [pc EXCEPT ![j] = "loop"] /\ UNCHANGED <<status, lock>>
    BY <2>1, <2>3, LockKept DEF Holding, Occupied, AtAwait, MidHandler, Deciding, TypeInv, TypeOK, LoopTypes
  <2>4. QED
    BY <1>3, <2>2, <2>3 DEF PlanReady
<1>4. ASSUME NEW j \in Jobs, PlanThrows(j) PROVE LockHeld'
  <2>1. /\ status[j] # "absent" /\ pc[j] = "plan"
        /\ pc' = [pc EXCEPT ![j] = "done"] /\ lock' = lock
        /\ status' = status \/ TransitionJob(j, "needs_recovery")
    BY <1>4 DEF PlanThrows, Life, Unborn, TransitionJob
  <2>2. \A k \in Jobs : Holding(k)' => Holding(k)
    BY <2>1, StatusMoves DEF Holding, Occupied, AtAwait, MidHandler, Deciding, TypeInv, TypeOK, LoopTypes
  <2>3. QED
    BY <2>1, <2>2, LockKept
<1>5. ASSUME NEW j \in Jobs, LoopEnds(j) PROVE LockHeld'
  <2>1. status[j] # "absent" /\ pc[j] \in Executing
    BY <1>5 DEF LoopEnds, Life, Unborn, Executing, AtAwait, MidHandler, Deciding
  <2>2. QED
    BY <1>5, <2>1, FinishKeepsLocks DEF LoopEnds, Exhausted
<1>6. ASSUME NEW j \in Jobs, RefusedBeforeLaunch(j) PROVE LockHeld'
  BY <1>6, LockKept DEF RefusedBeforeLaunch, Returned, rows, Holding, Occupied, AtAwait, MidHandler, Deciding, TypeInv, TypeOK, LoopTypes
<1>7. ASSUME NEW j \in Jobs, NoCapacity(j) PROVE LockHeld'
  BY <1>7, LockKept DEF NoCapacity, Returned, Holding, Occupied, AtAwait, MidHandler, Deciding, TypeInv, TypeOK, LoopTypes
<1>8. ASSUME NEW j \in Jobs, StartLaunch(j) PROVE LockHeld'
  BY <1>8, LockKept DEF StartLaunch, Holding, Occupied, AtAwait, MidHandler, Deciding, TypeInv, TypeOK, LoopTypes
<1>9. ASSUME NEW j \in Jobs, LaunchFails(j) PROVE LockHeld'
  BY <1>9, LockKept DEF LaunchFails, Returned, Holding, Occupied, AtAwait, MidHandler, Deciding, TypeInv, TypeOK, LoopTypes
<1>10. ASSUME NEW j \in Jobs, RunAnswered(j) PROVE LockHeld'
  BY <1>10, LockKept DEF RunAnswered, RunSettles, Holding, Occupied, AtAwait, MidHandler, Deciding, TypeInv, TypeOK, LoopTypes
<1>11. ASSUME NEW j \in Jobs, RunRejected(j) PROVE LockHeld'
  BY <1>11, LockKept DEF RunRejected, RunSettles, Holding, Occupied, AtAwait, MidHandler, Deciding, TypeInv, TypeOK, LoopTypes
<1>12. ASSUME NEW j \in Jobs, StopDone(j) PROVE LockHeld'
  BY <1>12, LockKept DEF StopDone, Holding, Occupied, AtAwait, MidHandler, Deciding, TypeInv, TypeOK, LoopTypes
<1>13. ASSUME NEW j \in Jobs, LaunchOk(j) PROVE LockHeld'
  <2>1. /\ status[j] # "absent" /\ lock' = lock
        /\ \A k \in Jobs : pc'[k] \in Occupied => pc[k] \in Occupied
    BY <1>13 DEF LaunchOk, Life, Unborn, Occupied, AtAwait, MidHandler, Deciding, TypeInv, TypeOK, LoopTypes
  <2>2. status' = status \/ TransitionJob(j, "running")
    BY <1>13 DEF LaunchOk
  <2>3. status[j] \in Terminal => status' = status
    BY <2>2, TerminalStays DEF TransitionJob, JobMoved, TypeInv, TypeOK, RowTypes
  <2>4. \A k \in Jobs : Holding(k)' => Holding(k)
    BY <2>1, <2>2, <2>3, StatusMoves DEF Holding
  <2>5. QED
    BY <2>1, <2>4, LockKept
<1>14. ASSUME NEW j \in Jobs, PermissionRequired(j) PROVE LockHeld'
  <2>1. /\ status[j] # "absent" /\ lock' = lock
        /\ \A k \in Jobs : pc'[k] \in Occupied => pc[k] \in Occupied
    BY <1>14 DEF PermissionRequired, Life, Unborn, Occupied, AtAwait, MidHandler, Deciding, TypeInv, TypeOK, LoopTypes
  <2>2. status' = status \/ TransitionJob(j, "awaiting_approval")
    BY <1>14 DEF PermissionRequired
  <2>3. status[j] \in Terminal => status' = status
    BY <2>2, TerminalStays DEF TransitionJob, JobMoved, TypeInv, TypeOK, RowTypes
  <2>4. \A k \in Jobs : Holding(k)' => Holding(k)
    BY <2>1, <2>2, <2>3, StatusMoves DEF Holding
  <2>5. QED
    BY <2>1, <2>4, LockKept
<1>15. ASSUME NEW j \in Jobs, WaiterFires(j) PROVE LockHeld'
  <2>1. /\ status[j] # "absent" /\ lock' = lock
        /\ \A k \in Jobs : pc'[k] \in Occupied => pc[k] \in Occupied
    BY <1>15 DEF WaiterFires, Life, Unborn, Occupied, AtAwait, MidHandler, Deciding, TypeInv, TypeOK, LoopTypes
  <2>2. status' = status \/ TransitionJob(j, "running")
    BY <1>15 DEF WaiterFires
  <2>3. status[j] \in Terminal => status' = status
    BY <2>2, TerminalStays DEF TransitionJob, JobMoved, TypeInv, TypeOK, RowTypes
  <2>4. \A k \in Jobs : Holding(k)' => Holding(k)
    BY <2>1, <2>2, <2>3, StatusMoves DEF Holding
  <2>5. QED
    BY <2>1, <2>4, LockKept
<1>16. ASSUME NEW j \in Jobs, Cancel(j) PROVE LockHeld'
  <2>1. /\ status[j] # "absent" /\ lock' = lock
        /\ \A k \in Jobs : pc'[k] \in Occupied => pc[k] \in Occupied
    BY <1>16 DEF Cancel, Life, Unborn, Occupied, AtAwait, MidHandler, Deciding, TypeInv, TypeOK, LoopTypes
  <2>2. status' = status \/ TransitionJob(j, "cancelled")
    BY <1>16 DEF Cancel
  <2>3. status[j] \in Terminal => status' = status
    BY <2>2, TerminalStays DEF TransitionJob, JobMoved, TypeInv, TypeOK, RowTypes
  <2>4. \A k \in Jobs : Holding(k)' => Holding(k)
    BY <2>1, <2>2, <2>3, StatusMoves DEF Holding
  <2>5. QED
    BY <2>1, <2>4, LockKept
<1>17. ASSUME NEW j \in Jobs, Judge(j) PROVE LockHeld'
  <2>1. status[j] # "absent" /\ pc[j] \in Executing
    BY <1>17 DEF Judge, Life, Unborn, Executing, AtAwait, MidHandler, Deciding
  <2>2. CASE \E to : Ends(j, to)
    BY <1>17, <2>1, <2>2, FinishKeepsLocks DEF Judge, Ends
  <2>3. CASE \E n : Continues(j, n)
    BY <1>17, <2>1, <2>3, LockKept DEF Judge, Continues, Holding, Occupied, AtAwait, MidHandler, Deciding, TypeInv, TypeOK, LoopTypes
  <2>4. QED
    BY <1>17, <2>2, <2>3 DEF Judge, ActsOnVerdict
<1>18. CASE Crash
  BY <1>18, LockKept DEF Crash, rows, Holding, Occupied, AtAwait, MidHandler, Deciding
<1>19. CASE Restart
  <2>1. lock' = lock /\ pc' = pc
    BY <1>19 DEF Restart, loopv
  <2>2. \A k \in Jobs : status'[k] # status[k] => status[k] \notin Settled /\ Moved(status[k], "needs_recovery") = status'[k] /\ \E n \in Tries : Unfinished(k, n)
    BY <1>19 DEF Restart
  <2>3. \A k \in Jobs : status[k] = "absent" => \A n \in Tries : ~Unfinished(k, n)
    BY DEF Life, Unborn, Fresh, Unfinished, NonTerminalRow
  <2>4. \A k \in Jobs : Holding(k)' => Holding(k)
    BY <2>1, <2>2, <2>3 DEF Holding, Settled
  <2>5. QED
    BY <2>1, <2>4, LockKept
<1>20. QED
  BY <1>1, <1>2, <1>3, <1>4, <1>5, <1>6, <1>7, <1>8, <1>9, <1>10, <1>11, <1>12, <1>13, <1>14, <1>15, <1>16, <1>17, <1>18, <1>19, UnlockKeepsLocks, StatusSteps

LEMMA SettledStep ==
  ASSUME TypeInv, Life, [Next]_vars
  PROVE  \A k \in Jobs : status[k] \in Settled => status'[k] = status[k]
<1> SUFFICES ASSUME NEW k \in Jobs, status[k] \in Settled, status'[k] # status[k]
             PROVE  FALSE
  OBVIOUS
<1>1. status[k] = "needs_recovery" => pc[k] \notin Executing
  BY DEF Life, Over
<1>2. ASSUME NEW to, TransitionJob(k, to)
      PROVE  status[k] = "needs_recovery" /\ to \notin {"running", "awaiting_approval", "needs_recovery"}
  BY <1>2, TerminalStays, RecoveryStays DEF TransitionJob, JobMoved, Settled, TypeInv, TypeOK, RowTypes
<1>3. \A j \in Jobs : \A to : TransitionJob(j, to) => j = k
  BY StatusMoves
<1>4. ASSUME NEW j \in Jobs, Submit(j) PROVE FALSE
  BY <1>4 DEF Submit, Settled, Terminal, TypeInv, TypeOK, RowTypes
<1>5. ASSUME NEW j \in Jobs, PlanReady(j) \/ LoopEnds(j) \/ Judge(j) PROVE FALSE
  <2>1. pc[j] \in Executing
    BY <1>5 DEF PlanReady, LoopEnds, Judge, Executing, AtAwait, MidHandler, Deciding
  <2>2. \E to : TransitionJob(j, to)
    BY <1>5 DEF PlanReady, LoopEnds, Judge, Exhausted, finishJob, ActsOnVerdict, Ends, Continues
  <2>3. QED
    BY <1>1, <1>2, <1>3, <2>1, <2>2
<1>6. ASSUME NEW j \in Jobs, PlanThrows(j) PROVE FALSE
  <2>1. status' = status \/ TransitionJob(j, "needs_recovery")
    BY <1>6 DEF PlanThrows, TransitionJob
  <2>2. QED
    BY <1>2, <1>3, <2>1
<1>7. ASSUME NEW j \in Jobs, LaunchOk(j) \/ PermissionRequired(j) \/ WaiterFires(j) PROVE FALSE
  <2>1. \E to \in {"running", "awaiting_approval"} : TransitionJob(j, to)
    BY <1>7 DEF LaunchOk, PermissionRequired, WaiterFires
  <2>2. QED
    BY <1>2, <1>3, <2>1
<1>8. ASSUME NEW j \in Jobs, Cancel(j) PROVE FALSE
  BY <1>3, <1>8 DEF Cancel
<1>9. CASE Restart
  BY <1>9 DEF Restart
<1>10. QED
  BY <1>4, <1>5, <1>6, <1>7, <1>8, <1>9, StatusSteps
     DEF Crash, RefusedBeforeLaunch, NoCapacity, StartLaunch, LaunchFails, RunAnswered,
         RunRejected, RunSettles, StopDone, Unlock, rows

-----------------------------------------------------------------------------
(* The theorems *)

LEMMA InvariantsInit ==
  Init => TypeInv /\ Life /\ Owned /\ RowsOwned /\ HeldWhileBusy /\ LockHeld
<1> SUFFICES ASSUME Init PROVE TypeInv /\ Life /\ Owned /\ RowsOwned /\ HeldWhileBusy /\ LockHeld
  OBVIOUS
<1>1. TypeInv
  BY TypeInit
<1>2. /\ \A j \in Jobs : /\ status[j] = "absent" /\ pc[j] = "idle" /\ tried[j] = 0
                        /\ waiters[j] = {} /\ sent[j] = {}
      /\ \A j \in Jobs, n \in Tries : Fresh(j, n)
      /\ up
  BY DEF Init, Fresh
<1>3. Life
  BY <1>2 DEF Life, Unborn, Ahead, Down, Over, Executing, AtAwait, MidHandler, Deciding
<1>4. Owned
  BY <1>2 DEF Owned, BusyPc
<1>5. RowsOwned
  BY <1>2 DEF RowsOwned, Fresh
<1>6. HeldWhileBusy
  BY <1>2 DEF HeldWhileBusy, Busy
<1>7. LockHeld
  BY <1>2 DEF LockHeld, AtAwait, MidHandler, Deciding
<1>8. QED
  BY <1>1, <1>3, <1>4, <1>5, <1>6, <1>7

LEMMA CapacityInit == Init => CapacityBound
<1> SUFFICES ASSUME Init, NEW pool \in Pool PROVE Cardinality(CountsAgainst(pool)) <= PoolMax(pool)
  BY DEF CapacityBound
<1>1. CountsAgainst(pool) = {}
  BY DEF Init, CountsAgainst, Attempts
<1>2. PoolMax(pool) \in Nat
  BY RuntimeAssumption DEF PoolMax, RuntimeAssumption
<1>3. QED
  BY <1>1, <1>2, FS_EmptySet

\* At every moment of every execution: which jobs have rows and reservations, and
\* that the attempt being launched, run or stopped is the one holding its slots.
THEOREM Lifecycle == Spec => [](TypeInv /\ Life /\ Owned)
<1>1. Init => TypeInv /\ Life /\ Owned
  BY InvariantsInit
<1>2. TypeInv /\ Life /\ Owned /\ [Next]_vars => (TypeInv /\ Life /\ Owned)'
  BY TypeStep, LifeStep, OwnedStep
<1>3. QED
  BY <1>1, <1>2, PTL DEF Spec

\* The limits of reserveCapacityMulti hold for every pool, whatever the number of
\* jobs, the candidates routed to and the crashes in between.
THEOREM Capacity == Spec => []CapacityBound
<1>1. Init => CapacityBound
  BY CapacityInit
<1>2. TypeInv /\ Life /\ Owned /\ CapacityBound /\ [Next]_vars => CapacityBound'
  BY CapacityStep
<1>3. QED
  BY <1>1, <1>2, Lifecycle, PTL DEF Spec

\* runAttempt and recoverOnStart never free the slots of a dispatched attempt with
\* a tracked process that may be alive.
THEOREM Held == Spec => []HeldWhileBusy
<1>1. Init => HeldWhileBusy
  BY InvariantsInit
<1>2. TypeInv /\ Life /\ Owned /\ HeldWhileBusy /\ [Next]_vars => HeldWhileBusy'
  BY HeldStep
<1>3. QED
  BY <1>1, <1>2, Lifecycle, PTL DEF Spec

LEMMA OneSlot ==
  ASSUME CapacityBound, HeldWhileBusy
  PROVE  WorkspaceExclusive
<1> SUFFICES ASSUME NEW a \in Attempts, NEW b \in Attempts,
                    Busy(a[1], a[2]), Busy(b[1], b[2]),
                    WorkspacePool(a[1]) = WorkspacePool(b[1]), a # b
             PROVE  FALSE
  BY DEF WorkspaceExclusive
<1> DEFINE pool == WorkspacePool(a[1])
<1>1. pool \in Pool /\ PoolMax(pool) = 1
  BY RuntimeAssumption DEF WorkspacePool, Pool, PoolMax, Attempts, RuntimeAssumption
<1>2. {a, b} \subseteq CountsAgainst(pool)
  BY DEF HeldWhileBusy, CountsAgainst, PoolsOf, Attempts
<1> HIDE DEF pool
<1>3. IsFiniteSet(CountsAgainst(pool)) /\ Cardinality(CountsAgainst(pool)) <= 1
  BY <1>1, CountsFinite DEF CapacityBound
<1>4. Cardinality({a, b}) <= Cardinality(CountsAgainst(pool)) /\ IsFiniteSet({a, b})
  BY <1>2, <1>3, FS_Subset
<1>5. /\ IsFiniteSet({a}) /\ Cardinality({a}) = 1
      /\ Cardinality({a} \cup {b}) = Cardinality({a}) + 1
  BY FS_Singleton, FS_AddElement
<1>6. {a} \cup {b} = {a, b}
  OBVIOUS
<1>7. Cardinality(CountsAgainst(pool)) \in Nat
  BY <1>3, FS_CardinalityType
<1>8. QED
  BY <1>3, <1>4, <1>5, <1>6, <1>7

\* Two dispatched runs are never in the same workspace at once: the one slot of its
\* pool is held until the processes of the first are known to be dead.
THEOREM Exclusive == Spec => []WorkspaceExclusive
<1>1. CapacityBound /\ HeldWhileBusy => WorkspaceExclusive
  BY OneSlot
<1>2. QED
  BY <1>1, Capacity, Held, PTL

\* No attempt row is left open by an execution that is over or by recovery.
THEOREM Rows == Spec => []RowsOwned
<1>1. Init => RowsOwned
  BY InvariantsInit
<1>2. TypeInv /\ Life /\ Owned /\ RowsOwned /\ [Next]_vars => RowsOwned'
  BY RowsOwnedStep
<1>3. QED
  BY <1>1, <1>2, Lifecycle, PTL DEF Spec

\* An open or executing job keeps its workspace locked: finishJob of another job
\* and submit never take it away.
THEOREM Locks == Spec => []LockHeld
<1>1. Init => LockHeld
  BY InvariantsInit
<1>2. TypeInv /\ Life /\ Owned /\ LockHeld /\ [Next]_vars => LockHeld'
  BY LockStep
<1>3. QED
  BY <1>1, <1>2, Lifecycle, PTL DEF Spec

\* A settled job is never moved again by the router, needs_recovery included, which
\* the transition table would let go on.
THEOREM SettledForGood == Spec => SettledStays
<1>1. TypeInv /\ Life /\ Owned /\ [Next]_vars
        => [\A j \in Jobs : status[j] \in Settled => status'[j] = status[j]]_vars
  BY SettledStep
<1>2. QED
  BY <1>1, Lifecycle, PTL DEF Spec, SettledStays

-----------------------------------------------------------------------------
(* Reservations: who holds them, and how they are given back. *)

LEMMA HeldExplainedInit == Init => HeldExplained
BY DEF Init, HeldExplained

\* The router deletes no job row.
LEMMA StatusStays ==
  ASSUME TypeInv, [Next]_vars, NEW k \in Jobs, status[k] # "absent"
  PROVE  status'[k] # "absent"
<1> USE DEF TypeInv, TypeOK, RowTypes
<1>1. ASSUME NEW j \in Jobs, NEW to, TransitionJob(j, to), to # "absent" PROVE status'[k] # "absent"
  BY <1>1, StatusMoves
<1>2. \A s : Moved(s, "needs_recovery") \in {s, "needs_recovery"}
  BY MovedType
<1>3. ASSUME NEW j \in Jobs, PlanThrows(j) PROVE status'[k] # "absent"
  BY <1>3, <1>2 DEF PlanThrows, JobMoved
<1>4. ASSUME NEW j \in Jobs, PlanReady(j) \/ LoopEnds(j) \/ Judge(j) PROVE status'[k] # "absent"
  <2>1. status' = status \/ \E to : to # "absent" /\ TransitionJob(j, to)
    BY <1>4 DEF PlanReady, LoopEnds, Judge, Exhausted, finishJob, ActsOnVerdict, Ends, Continues
  <2>2. QED
    BY <1>1, <2>1
<1>5. ASSUME NEW j \in Jobs, Submit(j) \/ LaunchOk(j) \/ PermissionRequired(j) \/ WaiterFires(j) \/ Cancel(j)
      PROVE  status'[k] # "absent"
  BY <1>1, <1>5 DEF Submit, LaunchOk, PermissionRequired, WaiterFires, Cancel
<1>6. CASE Restart
  BY <1>2, <1>6 DEF Restart
<1>7. QED
  BY <1>3, <1>4, <1>5, <1>6, StatusSteps
     DEF Crash, RefusedBeforeLaunch, NoCapacity, StartLaunch, LaunchFails, RunAnswered,
         RunRejected, RunSettles, StopDone, Unlock, rows

\* What an action of one execution does to the others' rows and to its own.
LEMMA ExplainedKept ==
  ASSUME TypeInv, HeldExplained, NEW j \in Jobs, up, up', crashes' = crashes,
         \A k \in Jobs : status[k] # "absent" => status'[k] # "absent",
         \A k \in Jobs \ {j} : /\ pc'[k] = pc[k] /\ tried'[k] = tried[k]
                               /\ att'[k] = att[k] /\ res'[k] = res[k],
         pc[j] # "idle",
         \A n \in Tries : res'[j][n] = "held" =>
           att'[j][n] # "absent" /\ pc'[j] \in BusyPc /\ n = Current(j)'
  PROVE  HeldExplained'
<1> SUFFICES ASSUME NEW k \in Jobs, NEW n \in Tries, res'[k][n] = "held"
             PROVE  /\ att'[k][n] # "absent"
                    /\ (pc'[k] \in BusyPc /\ n = Current(k)') \/ LeftBehind(k, n)'
  BY DEF HeldExplained, Tries
<1>1. CASE k = j
  BY <1>1
<1>2. CASE k # j
  BY <1>2 DEF HeldExplained, LeftBehind, Current
<1>3. QED
  BY <1>1, <1>2

\* Only Crash counts crashes.
LEMMA CrashesStay ==
  ASSUME [Next]_vars
  PROVE  Crash \/ crashes' = crashes
<1>1. ASSUME NEW j \in Jobs, Executes(j) PROVE crashes' = crashes
  BY <1>1 DEF Executes, OnItsOwn, LoopStep, PlanReady, PlanThrows, LoopEnds, RefusedBeforeLaunch,
       NoCapacity, StartLaunch, LaunchOk, LaunchFails, RunAnswered, RunRejected, RunSettles,
       finishJob, StopDone, Judge, Unlock
<1>2. ASSUME NEW j \in Jobs, NEW n \in Tries, Environment(j, n) PROVE crashes' = crashes
  BY <1>2 DEF Environment, ChildStarts, PluginExits, ChildExits
<1>3. QED
  BY <1>1, <1>2 DEF Next, vars, Submit, PermissionRequired, WaiterFires, Cancel, CancelReturns,
       CancelKills, ChildReported, DeadlinePasses, Shutdown, Restart

\* Each action that writes a reservation frees its own attempt's, or is StartLaunch,
\* which becomes busy with it; a crash leaves them to recovery.
LEMMA HeldExplainedStep ==
  ASSUME TypeInv, Life, Owned, RowsOwned, HeldExplained, [Next]_vars
  PROVE  HeldExplained'
<1>0. \A k \in Jobs : status[k] # "absent" => status'[k] # "absent"
  BY StatusStays
<1>1. CASE UNCHANGED <<pc, res, att, sent, tried, up>>
  <2>1. crashes' = crashes \/ Crash
    BY CrashesStay
  <2>2. crashes' = crashes
    BY <1>1, <2>1 DEF Crash
  <2>3. QED
    BY <1>0, <1>1, <2>2 DEF HeldExplained, LeftBehind, Current, Tries
<1>2. ASSUME NEW j \in Jobs, Submit(j) PROVE HeldExplained'
  <2>1. /\ \A n \in Tries : res[j][n] # "held"
        /\ UNCHANGED <<res, att, tried, up, crashes>> /\ pc' = [pc EXCEPT ![j] = "plan"]
    BY <1>2 DEF Submit, Life, Unborn, Fresh
  <2>2. QED
    BY <1>0, <2>1 DEF HeldExplained, LeftBehind, Current, Tries, TypeInv, TypeOK, LoopTypes
<1>3. ASSUME NEW j \in Jobs,
             PlanReady(j) \/ PlanThrows(j) \/ LoopEnds(j) \/ Judge(j) \/ Unlock(j)
      PROVE  HeldExplained'
  <2>1. /\ UNCHANGED <<res, att, tried, up, crashes>> /\ up
        /\ pc[j] \notin BusyPc \cup {"idle"}
        /\ \E to : pc' = [pc EXCEPT ![j] = to]
    BY <1>3 DEF PlanReady, PlanThrows, LoopEnds, Judge, Unlock, Quiet, Exhausted, ActsOnVerdict,
       Ends, Continues, finishJob, BusyPc
  <2>2. \A n \in Tries : res[j][n] # "held"
    BY <2>1 DEF HeldExplained, LeftBehind
  <2>3. QED
    BY <1>0, <2>1, <2>2, ExplainedKept DEF TypeInv, TypeOK, LoopTypes
<1>4. ASSUME NEW j \in Jobs, RefusedBeforeLaunch(j) \/ NoCapacity(j) PROVE HeldExplained'
  <2>1. /\ UNCHANGED <<res, up, crashes>> /\ up
        /\ pc[j] = "loop" /\ pc' = [pc EXCEPT ![j] = "judge"]
        /\ tried' = [tried EXCEPT ![j] = @ + 1]
        /\ att' = att \/ att' = [att EXCEPT ![j][Current(j)] = Moved("queued", "failed")]
    BY <1>4 DEF RefusedBeforeLaunch, NoCapacity, Returned, rows
  <2>2. \A n \in Tries : res[j][n] # "held"
    BY <2>1 DEF HeldExplained, LeftBehind, BusyPc
  <2>3. \A k \in Jobs \ {j} : pc'[k] = pc[k] /\ tried'[k] = tried[k] /\ att'[k] = att[k] /\ res'[k] = res[k]
    BY <2>1 DEF TypeInv, TypeOK, LoopTypes, RowTypes
  <2>4. QED
    BY <1>0, <2>1, <2>2, <2>3, ExplainedKept
<1>5. ASSUME NEW j \in Jobs, StartLaunch(j) PROVE HeldExplained'
  <2>1. /\ UNCHANGED <<tried, up, crashes>> /\ up
        /\ pc[j] = "loop" /\ pc' = [pc EXCEPT ![j] = "launch"]
        /\ res' = [res EXCEPT ![j][Current(j)] = "held"]
        /\ att' = [att EXCEPT ![j][Current(j)] = "queued"]
        /\ Current(j) \in Tries
    BY <1>5, NextTryFresh DEF StartLaunch
  <2>2. \A n \in Tries : res[j][n] # "held"
    BY <2>1 DEF HeldExplained, LeftBehind, BusyPc
  <2>3. \A k \in Jobs \ {j} : pc'[k] = pc[k] /\ tried'[k] = tried[k] /\ att'[k] = att[k] /\ res'[k] = res[k]
    BY <2>1 DEF TypeInv, TypeOK, LoopTypes, RowTypes
  <2>4. \A n \in Tries : res'[j][n] = "held" =>
           att'[j][n] # "absent" /\ pc'[j] \in BusyPc /\ n = Current(j)'
    BY <2>1, <2>2 DEF TypeInv, TypeOK, LoopTypes, RowTypes, BusyPc, Current
  <2>5. QED
    BY <1>0, <2>1, <2>3, <2>4, ExplainedKept
<1>6. ASSUME NEW j \in Jobs, LaunchOk(j) \/ RunAnswered(j) \/ RunRejected(j) PROVE HeldExplained'
  <2>1. /\ UNCHANGED <<tried, up, crashes, res>> /\ up
        /\ pc[j] \in BusyPc /\ \E to \in BusyPc : pc' = [pc EXCEPT ![j] = to]
        /\ \E to \in JobState : att' = [att EXCEPT ![j][Current(j)] = IF @ = "queued" THEN to ELSE @]
                             \/ att' = [att EXCEPT ![j][Current(j)] = Moved(@, to)]
    BY <1>6, AttemptOutcomeType, RuntimeAssumption
    DEF LaunchOk, RunAnswered, RunRejected, RunSettles, finishAttempt, BusyPc, Quiet, JobState, RuntimeAssumption
  <2>2. \A k \in Jobs \ {j} : pc'[k] = pc[k] /\ tried'[k] = tried[k] /\ att'[k] = att[k] /\ res'[k] = res[k]
    BY <2>1 DEF TypeInv, TypeOK, LoopTypes, RowTypes
  <2>3. pc[j] # "idle" /\ pc'[j] \in BusyPc /\ Current(j)' = Current(j)
    BY <2>1 DEF TypeInv, TypeOK, LoopTypes, BusyPc, Current
  <2>4. \A n \in Tries : att[j][n] # "absent" => att'[j][n] # "absent"
    BY <2>1, MovedType DEF TypeInv, TypeOK, RowTypes, JobState
  <2>5. \A n \in Tries : res'[j][n] = "held" => att'[j][n] # "absent" /\ n = Current(j)'
    BY <2>1, <2>3, <2>4 DEF HeldExplained, LeftBehind
  <2>6. QED
    BY <1>0, <2>1, <2>2, <2>3, <2>5, ExplainedKept
<1>7. ASSUME NEW j \in Jobs, LaunchFails(j) \/ StopDone(j) PROVE HeldExplained'
  <2>1. /\ UNCHANGED <<up, crashes>> /\ up
        /\ pc[j] \in BusyPc /\ pc' = [pc EXCEPT ![j] = "judge"]
        /\ tried' = [tried EXCEPT ![j] = @ + 1]
        /\ \E u : res' = [res EXCEPT ![j][Current(j)] = AfterRelease(@, u)]
        /\ att' = att \/ \E to : att' = [att EXCEPT ![j][Current(j)] = to]
    BY <1>7 DEF LaunchFails, StopDone, Returned, finishAttempt, BusyPc, Quiet
  <2>2. \A k \in Jobs \ {j} : pc'[k] = pc[k] /\ tried'[k] = tried[k] /\ att'[k] = att[k] /\ res'[k] = res[k]
    BY <2>1 DEF TypeInv, TypeOK, LoopTypes, RowTypes
  <2>3. pc[j] # "idle" /\ \A n \in Tries : res[j][n] = "held" => n = Current(j)
    BY <2>1 DEF HeldExplained, LeftBehind, BusyPc
  <2>4. \A n \in Tries : res'[j][n] # "held"
    BY <2>1, <2>3 DEF AfterRelease, TypeInv, TypeOK, RowTypes
  <2>5. QED
    BY <1>0, <2>1, <2>2, <2>3, <2>4, ExplainedKept
<1>8. CASE Crash
  <2>1. /\ \A j \in Jobs : pc'[j] = "idle"
        /\ ~up' /\ crashes' # 0 /\ UNCHANGED <<res, att>>
    BY <1>8, RuntimeAssumption DEF Crash, TypeInv, TypeOK, WorldTypes, rows, RuntimeAssumption
  <2>2. \A j \in Jobs, n \in Tries : res[j][n] = "held" => status[j] # "absent"
    BY DEF Life, Unborn, Fresh
  <2>3. QED
    BY <1>0, <2>1, <2>2 DEF HeldExplained, LeftBehind, Tries
<1>9. CASE Restart
  <2>1. UNCHANGED <<pc, tried, crashes>> /\ ~up
    BY <1>9 DEF Restart
  <2>2. \A j \in Jobs : pc[j] = "idle"
    BY <2>1 DEF Life, Down
  <2>3. \A j \in Jobs, n \in Tries : res'[j][n] = "held" =>
          ~Unfinished(j, n) /\ res[j][n] = "held" /\ att'[j][n] = att[j][n]
    BY <1>9 DEF Restart, AfterRelease
  <2>4. \A j \in Jobs, n \in Tries : res[j][n] = "held" /\ ~Unfinished(j, n) => att[j][n] \in Settled
    BY DEF HeldExplained, Unfinished, NonTerminalRow, Settled, Terminal, JobState, TypeInv, TypeOK, RowTypes
  <2>5. QED
    BY <1>0, <2>1, <2>2, <2>3, <2>4 DEF HeldExplained, LeftBehind, BusyPc, Tries
<1>10. QED
  BY <1>1, <1>2, <1>3, <1>4, <1>5, <1>6, <1>7, <1>8, <1>9, OwnedSteps

\* A held reservation belongs to an attempt being launched, run or stopped, or a crash
\* left it behind: no path through runAttempt returns with one still held.
THEOREM SlotsExplained == Spec => []HeldExplained
<1>1. Init => RowsOwned /\ HeldExplained
  BY InvariantsInit, HeldExplainedInit
<1>2. TypeInv /\ Life /\ Owned /\ RowsOwned /\ HeldExplained /\ [Next]_vars => (RowsOwned /\ HeldExplained)'
  BY RowsOwnedStep, HeldExplainedStep
<1>3. QED
  BY <1>1, <1>2, Lifecycle, PTL DEF Spec

\* Without a crash the comment at runtime.ts:641 is true of every held reservation; the
\* run next_owner shows that one crash is enough to break it.
THEOREM NoCrashNoLeak ==
  ASSUME MaxCrashes = 0
  PROVE  Spec => []NextOwnerReleases
<1>1. TypeInv /\ HeldExplained => NextOwnerReleases
  BY DEF HeldExplained, LeftBehind, NextOwnerReleases, BusyPc, TypeInv, TypeOK, WorldTypes
<1>2. QED
  BY <1>1, Lifecycle, SlotsExplained, PTL

\* releaseCapacity updates held reservations only.
LEMMA OnceGiven ==
  ASSUME TypeInv, Life, [Next]_vars, NEW k \in Jobs, NEW n \in Tries,
         res[k][n] \in {"released", "quarantined"}
  PROVE  res'[k][n] = res[k][n]
<1> USE DEF TypeInv, TypeOK, RowTypes
<1>1. ASSUME NEW j \in Jobs, StartLaunch(j) PROVE res'[k][n] = res[k][n]
  <2>1. res[j][Current(j)] = "none" /\ res' = [res EXCEPT ![j][Current(j)] = "held"]
    BY <1>1, NextTryFresh DEF StartLaunch, Fresh
  <2>2. QED
    BY <2>1
<1>2. ASSUME NEW j \in Jobs, LaunchFails(j) \/ StopDone(j) PROVE res'[k][n] = res[k][n]
  <2>1. \E u : res' = [res EXCEPT ![j][Current(j)] = AfterRelease(@, u)]
    BY <1>2 DEF LaunchFails, StopDone
  <2>2. QED
    BY <2>1 DEF AfterRelease
<1>3. CASE Restart
  BY <1>3 DEF Restart, AfterRelease
<1>4. QED
  BY <1>1, <1>2, <1>3, ReservationSteps DEF NoCapacity

\* A settled attempt whose processes are dead is not quarantined.
LEMMA Quarantines ==
  ASSUME TypeInv, Life, RowsOwned, HeldExplained, [Next]_vars, NEW k \in Jobs, NEW n \in Tries,
         res[k][n] = "held", res'[k][n] = "quarantined"
  PROVE  att[k][n] = "queued" \/ proc[k][n] # "dead" \/ child[k][n] = "live"
<1> USE DEF TypeInv, TypeOK, RowTypes
<1>1. ASSUME NEW j \in Jobs, StartLaunch(j) PROVE FALSE
  <2>1. res' = [res EXCEPT ![j][Current(j)] = "held"]
    BY <1>1 DEF StartLaunch
  <2>2. QED
    BY <2>1
<1>2. ASSUME NEW j \in Jobs, LaunchFails(j) PROVE FALSE
  <2>1. res' = [res EXCEPT ![j][Current(j)] = AfterRelease(@, FALSE)]
    BY <1>2 DEF LaunchFails
  <2>2. QED
    BY <2>1 DEF AfterRelease
<1>3. ASSUME NEW j \in Jobs, StopDone(j)
      PROVE  proc[k][n] # "dead" \/ child[k][n] = "live"
  <2>1. PICK p \in Stopped(proc[j][Current(j)]),
             c \in ChildStopped(child[j][Current(j)], childRec[j][Current(j)] \/ kid[j]) :
          res' = [res EXCEPT ![j][Current(j)] =
                    AfterRelease(@, \/ att[j][Current(j)] \notin Settled
                                    \/ NotConfirmedDead(p, c, childRec[j][Current(j)] \/ kid[j]))]
    BY <1>3 DEF StopDone
  <2>2. k = j /\ n = Current(j)
    BY <2>1
  <2>3. att[j][n] \notin Settled \/ NotConfirmedDead(p, c, childRec[j][n] \/ kid[j])
    BY <2>1, <2>2 DEF AfterRelease
  <2>4. att[j][n] \in Settled
    BY <1>3, <2>2 DEF StopDone, Quiet, RowsOwned, HeldExplained
  <2>5. p # "dead" \/ c = "live"
    BY <2>3, <2>4 DEF NotConfirmedDead
  <2>6. p \in Stopped(proc[j][n]) /\ c \in ChildStopped(child[j][n], childRec[j][n] \/ kid[j])
    BY <2>2
  <2>7. p # "dead" => proc[j][n] # "dead"
    BY <2>6 DEF Stopped
  <2>8. c = "live" => child[j][n] = "live"
    BY <2>6 DEF ChildStopped
  <2>9. QED
    BY <2>2, <2>5, <2>7, <2>8
<1>4. CASE Restart
  BY <1>4 DEF Restart, AfterRelease, UnknownAtRestart, NotConfirmedDead
<1>5. QED
  BY <1>1, <1>2, <1>3, <1>4, ReservationSteps DEF NoCapacity

\* runAttempt and recoverOnStart give every reservation back at most once, never under
\* a tracked process that may be alive, and never quarantine one without a reason.
THEOREM SlotsGivenBack == Spec => ReservationsKept
<1> DEFINE Step ==
      \A j \in Jobs, n \in Tries :
        /\ res[j][n] \in {"released", "quarantined"} => res'[j][n] = res[j][n]
        /\ res[j][n] = "held" /\ res'[j][n] = "released" => ~Busy(j, n)'
        /\ res[j][n] = "held" /\ res'[j][n] = "quarantined" =>
             att[j][n] = "queued" \/ proc[j][n] # "dead" \/ child[j][n] = "live"
<1>1. TypeInv /\ Life /\ RowsOwned /\ HeldExplained /\ HeldWhileBusy' /\ [Next]_vars => Step
  <2> SUFFICES ASSUME TypeInv, Life, RowsOwned, HeldExplained, HeldWhileBusy', [Next]_vars,
                      NEW j \in Jobs, NEW n \in Tries
               PROVE  /\ res[j][n] \in {"released", "quarantined"} => res'[j][n] = res[j][n]
                      /\ res[j][n] = "held" /\ res'[j][n] = "released" => ~Busy(j, n)'
                      /\ res[j][n] = "held" /\ res'[j][n] = "quarantined" =>
                           att[j][n] = "queued" \/ proc[j][n] # "dead" \/ child[j][n] = "live"
    OBVIOUS
  <2>1. Busy(j, n)' => res'[j][n] \in {"held", "quarantined"}
    BY DEF HeldWhileBusy, Tries
  <2>2. QED
    BY <2>1, OnceGiven, Quarantines
<1>2. QED
  BY <1>1, Lifecycle, Rows, Held, SlotsExplained, PTL DEF Spec, ReservationsKept

-----------------------------------------------------------------------------
(* The loop of executeInner has a measure. *)

LEMMA StepsLeftType ==
  ASSUME TypeInv, NEW j \in Jobs
  PROVE  StepsLeft(j) \in 0 .. 5 * MaxAttempts + 4
<1>1. /\ tried[j] \in Nat /\ MaxAttempts \in Nat /\ tried[j] <= MaxAttempts
      /\ pc[j] \in {"launch", "run", "stop"} => tried[j] < MaxAttempts
  BY RuntimeAssumption DEF RuntimeAssumption, TypeInv, TypeOK, LoopTypes, TriesLeft
<1>2. CASE pc[j] \in {"plan", "judge", "loop"}
  <2>1. Phase[pc[j]] \in {3, 4}
    BY <1>2 DEF Phase
  <2>2. QED
    BY <1>1, <1>2, <2>1 DEF StepsLeft, Executing, AtAwait, MidHandler, Deciding
<1>3. CASE pc[j] \in {"launch", "run", "stop"}
  <2>1. Phase[pc[j]] \in {2, 1, 0}
    BY <1>3 DEF Phase
  <2>2. QED
    BY <1>1, <1>3, <2>1 DEF StepsLeft, Executing, AtAwait, MidHandler, Deciding
<1>4. CASE pc[j] \notin Executing
  BY <1>1, <1>4 DEF StepsLeft
<1>5. QED
  BY <1>2, <1>3, <1>4 DEF Executing, AtAwait, Deciding

LEMMA StepsLeftSteps ==
  ASSUME TypeInv, Life, [Next]_vars, NEW k \in Jobs, status[k] # "absent"
  PROVE  \/ StepsLeft(k)' < StepsLeft(k)
         \/ StepsLeft(k)' = StepsLeft(k) /\ (pc[k] \in Executing => pc'[k] = pc[k])
<1> DEFINE Goal == \/ StepsLeft(k)' < StepsLeft(k)
                   \/ StepsLeft(k)' = StepsLeft(k) /\ (pc[k] \in Executing => pc'[k] = pc[k])
<1>0. /\ tried \in [Jobs -> Nat] /\ MaxAttempts \in Nat /\ pc \in [Jobs -> PcValue]
      /\ \A j \in Jobs : tried[j] <= MaxAttempts /\ (pc[j] \in BusyPc => tried[j] < MaxAttempts)
  BY RuntimeAssumption DEF RuntimeAssumption, TypeInv, TypeOK, LoopTypes, TriesLeft, BusyPc
<1>a. ASSUME pc'[k] = pc[k], tried'[k] = tried[k] PROVE Goal
  BY <1>a DEF StepsLeft
<1>b. ASSUME pc'[k] \notin Executing, pc'[k] = "unlock" => pc[k] \in Executing \cup {"unlock"}
      PROVE  Goal
  <2>1. StepsLeft(k)' = IF pc'[k] = "unlock" THEN 1 ELSE 0
    BY <1>b DEF StepsLeft
  <2>2. CASE pc[k] \notin Executing
    BY <1>b, <2>1, <2>2 DEF StepsLeft
  <2>3. CASE pc[k] \in BusyPc
    BY <1>0, <2>1, <2>3 DEF StepsLeft, Phase, BusyPc, Executing, AtAwait, Deciding
  <2>4. CASE pc[k] \in Executing \ BusyPc
    BY <1>0, <2>1, <2>4 DEF StepsLeft, Phase, BusyPc, Executing, AtAwait, Deciding
  <2>5. QED
    BY <2>2, <2>3, <2>4
<1>c. ASSUME NEW j \in Jobs, NEW to, pc' = [pc EXCEPT ![j] = to], tried' = tried,
             <<pc[j], to>> \in {<<"plan", "loop">>, <<"loop", "launch">>, <<"launch", "run">>,
                                <<"run", "stop">>, <<"judge", "loop">>}
      PROVE  Goal
  <2>1. CASE k # j
    BY <1>0, <1>a, <1>c, <2>1
  <2>2. CASE k = j
    <3>1. /\ pc[k] \in Executing /\ pc'[k] = to /\ to \in Executing
          /\ Phase[to] \in Int /\ Phase[pc[k]] \in Int /\ Phase[to] < Phase[pc[k]]
      BY <1>0, <1>c, <2>2 DEF Executing, AtAwait, MidHandler, Deciding, Phase
    <3>2. QED
      BY <1>0, <1>c, <3>1 DEF StepsLeft
  <2>3. QED
    BY <2>1, <2>2
<1>d. ASSUME NEW j \in Jobs, pc[j] \in {"loop", "launch", "stop"}, pc' = [pc EXCEPT ![j] = "judge"],
             tried' = [tried EXCEPT ![j] = @ + 1]
      PROVE  Goal
  <2>1. CASE k # j
    BY <1>0, <1>a, <1>d, <2>1
  <2>2. CASE k = j
    <3>1. /\ pc[k] \in Executing /\ pc'[k] = "judge" /\ "judge" \in Executing
          /\ Phase["judge"] = 4 /\ Phase[pc[k]] \in Int /\ Phase[pc[k]] >= 0
          /\ tried'[k] = tried[k] + 1
      BY <1>0, <1>d, <2>2 DEF Executing, AtAwait, MidHandler, Deciding, Phase
    <3>2. 5 * (MaxAttempts - tried'[k]) + 4 < 5 * (MaxAttempts - tried[k]) + Phase[pc[k]]
      BY <1>0, <3>1
    <3>3. QED
      BY <3>1, <3>2 DEF StepsLeft
  <2>3. QED
    BY <2>1, <2>2
<1>e. ASSUME NEW j \in Jobs, tried' = tried,
             \/ pc' = [pc EXCEPT ![j] = "done"]
             \/ pc' = [pc EXCEPT ![j] = "unlock"] /\ pc[j] \in Executing
      PROVE  Goal
  <2>1. CASE k # j
    BY <1>0, <1>a, <1>e, <2>1
  <2>2. CASE k = j
    BY <1>0, <1>b, <1>e, <2>2 DEF Executing, AtAwait, MidHandler, Deciding
  <2>3. QED
    BY <2>1, <2>2
<1>1. CASE UNCHANGED <<pc, res, att, sent, tried, up>>
  BY <1>1, <1>a
<1>2. CASE Crash
  BY <1>2, <1>b DEF Crash, Executing, AtAwait, MidHandler, Deciding
<1>3. CASE Restart
  BY <1>3, <1>a DEF Restart
<1>4. ASSUME NEW j \in Jobs, Submit(j) PROVE Goal
  BY <1>0, <1>4, <1>a DEF Submit
<1>5. ASSUME NEW j \in Jobs,
             PlanReady(j) \/ PlanThrows(j) \/ LoopEnds(j) \/ Judge(j) \/ Unlock(j)
      PROVE  Goal
  <2>1. /\ tried' = tried
        /\ \/ pc' = [pc EXCEPT ![j] = "done"]
           \/ pc' = [pc EXCEPT ![j] = "unlock"] /\ pc[j] \in Executing
           \/ pc' = [pc EXCEPT ![j] = "loop"] /\ pc[j] \in {"plan", "judge"}
    BY <1>5 DEF PlanReady, PlanThrows, LoopEnds, Judge, Unlock, Exhausted, finishJob,
       ActsOnVerdict, Ends, Continues, Executing, AtAwait, Deciding
  <2>2. QED
    BY <2>1, <1>c, <1>e
<1>6. ASSUME NEW j \in Jobs, StartLaunch(j) \/ LaunchOk(j) \/ RunAnswered(j) \/ RunRejected(j) PROVE Goal
  <2>1. /\ tried' = tried
        /\ \/ pc' = [pc EXCEPT ![j] = "launch"] /\ pc[j] = "loop"
           \/ pc' = [pc EXCEPT ![j] = "run"] /\ pc[j] = "launch"
           \/ pc' = [pc EXCEPT ![j] = "stop"] /\ pc[j] = "run"
    BY <1>6 DEF StartLaunch, LaunchOk, RunAnswered, RunRejected, RunSettles
  <2>2. QED
    BY <2>1, <1>c
<1>7. ASSUME NEW j \in Jobs, RefusedBeforeLaunch(j) \/ NoCapacity(j) \/ LaunchFails(j) \/ StopDone(j) PROVE Goal
  <2>1. /\ pc[j] \in {"loop", "launch", "stop"} /\ pc' = [pc EXCEPT ![j] = "judge"]
        /\ tried' = [tried EXCEPT ![j] = @ + 1]
    BY <1>7 DEF RefusedBeforeLaunch, NoCapacity, LaunchFails, StopDone, Returned
  <2>2. QED
    BY <2>1, <1>d
<1>8. QED
  BY <1>1, <1>2, <1>3, <1>4, <1>5, <1>6, <1>7, OwnedSteps

\* The loop over the candidates cannot go round for ever, whatever the plugins, clients
\* and crashes do: the part of JobSettles that does not rest on fairness.
THEOREM ExecutionsTerminate ==
  Spec => [](\A j \in Jobs : StepsLeft(j) \in 0 .. 5 * MaxAttempts + 4) /\ ExecutionsEnd
<1> DEFINE Step ==
      \A j \in Jobs : status[j] # "absent" =>
        \/ StepsLeft(j)' < StepsLeft(j)
        \/ StepsLeft(j)' = StepsLeft(j) /\ (pc[j] \in Executing => pc'[j] = pc[j])
<1> DEFINE Bounded == \A j \in Jobs : StepsLeft(j) \in 0 .. 5 * MaxAttempts + 4
<1>1. TypeInv => Bounded
  BY StepsLeftType
<1>2. TypeInv /\ Life /\ [Next]_vars => Step
  BY StepsLeftSteps
<1>3. QED
  BY <1>1, <1>2, Lifecycle, PTL DEF Spec, ExecutionsEnd
=============================================================================
