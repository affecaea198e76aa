----------------------------- MODULE JobPromise -----------------------------
(***************************************************************************)
(* What the router promises about a job, with no processes, rows or pools: *)
(* a task is handed to a plugin again only after it was established that   *)
(* nothing came of the previous time, at most MaxRuns times, and a settled *)
(* job stays as it is.  JobRuntime implements this (JobRuntimeRefines).    *)
(***************************************************************************)
EXTENDS Naturals

CONSTANTS Jobs, MaxRuns

VARIABLES
  phase,   \* "none", "open", or how the job settled
  runs,    \* how often the task was handed to a plugin
  clean    \* nothing is left of the runs so far: no effects, safe to repeat

vars == <<phase, runs, clean>>

Outcomes == {"succeeded", "failed", "cancelled", "needs_recovery"}

Init ==
  /\ phase = [j \in Jobs |-> "none"]
  /\ runs  = [j \in Jobs |-> 0]
  /\ clean = [j \in Jobs |-> TRUE]

Admit(j) ==
  /\ phase[j] = "none"
  /\ phase' = [phase EXCEPT ![j] = "open"]
  /\ UNCHANGED <<runs, clean>>

\* A cancel may have overtaken the launch of the plugin.
Dispatch(j) ==
  /\ phase[j] \in {"open", "cancelled"}
  /\ clean[j]
  /\ runs[j] < MaxRuns
  /\ runs' = [runs EXCEPT ![j] = @ + 1]
  /\ clean' = [clean EXCEPT ![j] = FALSE]
  /\ UNCHANGED phase

\* The run reports that it had no effects and is safe to repeat.
ComesToNothing(j) ==
  /\ runs[j] > 0 /\ ~clean[j]
  /\ clean' = [clean EXCEPT ![j] = TRUE]
  /\ UNCHANGED <<phase, runs>>

Settle(j) ==
  /\ phase[j] = "open"
  /\ \E to \in Outcomes :
       /\ to = "succeeded" => runs[j] > 0
       /\ phase' = [phase EXCEPT ![j] = to]
  /\ UNCHANGED <<runs, clean>>

\* A restarted daemon settles several jobs at once.
ParkSome(S) ==
  /\ \A j \in S : phase[j] = "open"
  /\ phase' = [j \in Jobs |-> IF j \in S THEN "needs_recovery" ELSE phase[j]]
  /\ UNCHANGED <<runs, clean>>

Next ==
  \/ \E j \in Jobs : Admit(j) \/ Dispatch(j) \/ ComesToNothing(j) \/ Settle(j)
  \/ \E S \in SUBSET Jobs : ParkSome(S)

Spec == Init /\ [][Next]_vars
=============================================================================
