-------------------------- MODULE JobRuntimeRefines --------------------------
(***************************************************************************)
(* JobRuntime implements JobPromise: the refinement mapping.               *)
(***************************************************************************)
EXTENDS JobRuntime

PhaseOf(s) ==
  CASE s = "absent"     -> "none"
    [] s \in Settled    -> s
    [] s \in NonTerminalRow -> "open"

CameToNothing(r) == r.side_effects = "none" /\ r.retry_safety = "safe"

Promise == INSTANCE JobPromise WITH
  MaxRuns <- MaxAttempts,
  phase   <- [j \in Jobs |-> PhaseOf(status[j])],
  runs    <- [j \in Jobs |-> Cardinality(sent[j])],
  clean   <- [j \in Jobs |-> \A n \in sent[j] : CameToNothing(outcome[j][n])]

\* Every step of the runtime is a step of the promise or changes nothing in it:
\* no task is dispatched while an earlier dispatch may have had effects, none is
\* dispatched for a job that failed, succeeded or is parked for recovery.
PromiseKept == Promise!Spec
=============================================================================
