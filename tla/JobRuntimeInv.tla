---------------------------- MODULE JobRuntimeInv ----------------------------
(***************************************************************************)
(* The inductive invariant behind the safety properties of JobRuntime, in  *)
(* named parts: what is true of rows, reservations and processes at every  *)
(* await of an execution.                                                  *)
(***************************************************************************)
EXTENDS JobRuntime

Executing == AtAwait \cup Deciding

BusyPc == {"launch", "run", "stop"}

\* The number of attempts the execution of j has begun.
Begun(j) == IF pc[j] \in BusyPc THEN Current(j) ELSE tried[j]

\* Nothing exists of the n-th attempt.
Fresh(j, n) ==
  /\ att[j][n] = "absent" /\ res[j][n] = "none"
  /\ proc[j][n] = "none" /\ child[j][n] = "none"
  /\ ~childRec[j][n]
  /\ n \notin sent[j]

\* A job that was not submitted has no trace.
Unborn ==
  \A j \in Jobs : status[j] = "absent" =>
    /\ pc[j] = "idle" /\ tried[j] = 0 /\ waiters[j] = {}
    /\ \A n \in Tries : Fresh(j, n)

\* Attempts an execution has not begun leave no trace either.
Ahead ==
  \A j \in Jobs, n \in Tries : pc[j] \in Executing /\ n > Begun(j) => Fresh(j, n)

\* A daemon that is down executes nothing.
Down == \A j \in Jobs : ~up => pc[j] = "idle"

\* Jobs that succeeded or need recovery are not being executed.
Over == \A j \in Jobs : status[j] \in {"succeeded", "needs_recovery"} => pc[j] \notin Executing

Life == Unborn /\ Ahead /\ Down /\ Over

\* The row and the reservation of the attempt an execution is busy with.
Owned ==
  \A j \in Jobs : pc[j] \in BusyPc =>
    /\ res[j][Current(j)] = "held"
    /\ pc[j] = "launch" => att[j][Current(j)] = "queued" /\ Current(j) \notin sent[j]
    /\ pc[j] = "run" => att[j][Current(j)] = "running"

Clean(r) == r.side_effects = "none" /\ r.retry_safety = "safe"

\* The loop goes on only over attempts of which nothing came.
CleanSoFar ==
  \A j \in Jobs :
    /\ pc[j] = "plan" => tried[j] = 0
    /\ pc[j] \in BusyPc \cup {"loop"} => \A n \in 1 .. tried[j] : Clean(outcome[j][n])
    /\ pc[j] = "judge" => \A n \in 1 .. (tried[j] - 1) : Clean(outcome[j][n])

\* A result that says completed was written to the row of its attempt.
Recorded ==
  \A j \in Jobs :
    /\ pc[j] = "stop" /\ outcome[j][Current(j)].outcome = "completed"
         => att[j][Current(j)] = "succeeded"
    /\ pc[j] = "judge" /\ LastResult(j).outcome = "completed"
         => att[j][tried[j]] = "succeeded"

\* A daemon that died left the reservation behind; the next one frees it only if the
\* attempt's row was still open (recoverOnStart).
LeftBehind(j, n) ==
  /\ crashes # 0 /\ pc[j] = "idle" /\ status[j] # "absent"
  /\ up => att[j][n] \in Settled

\* A reservation that is held has an attempt row, and belongs to the execution that is
\* busy with that attempt unless a crash left it behind (runAttempt, recoverOnStart).
HeldExplained ==
  \A j \in Jobs, n \in Tries : res[j][n] = "held" =>
    /\ att[j][n] # "absent"
    /\ (pc[j] \in BusyPc /\ n = Current(j)) \/ LeftBehind(j, n)

\* What becomes of a reservation (releaseCapacity and its callers): once released or
\* quarantined it stays so; it is released only when no tracked process of its attempt
\* may be alive, and quarantined only if the attempt was left queued by a daemon that
\* died or one of its processes was not known to be dead.
ReservationsKept ==
  [][\A j \in Jobs, n \in Tries :
      /\ res[j][n] \in {"released", "quarantined"} => res'[j][n] = res[j][n]
      /\ res[j][n] = "held" /\ res'[j][n] = "released" => ~Busy(j, n)'
      /\ res[j][n] = "held" /\ res'[j][n] = "quarantined" =>
           att[j][n] = "queued" \/ proc[j][n] # "dead" \/ child[j][n] = "live"]_vars

\* How far the execution of j is from its end: the tries it has left and, of the current
\* one, the awaits it has left; at last the second statement of finishJob.
Phase == [plan |-> 4, judge |-> 4, loop |-> 3, launch |-> 2, run |-> 1, stop |-> 0]
StepsLeft(j) ==
  IF pc[j] \in Executing THEN 5 * (MaxAttempts - tried[j]) + Phase[pc[j]]
  ELSE IF pc[j] = "unlock" THEN 1 ELSE 0

\* No step takes an execution back: each of its own lowers StepsLeft, and the others
\* leave it where it is, so executeInner always comes to an end, after at most
\* 5 * MaxAttempts + 4 steps of its own, if each await returns.
ExecutionsEnd ==
  [][\A j \in Jobs : status[j] # "absent" =>
        \/ StepsLeft(j)' < StepsLeft(j)
        \/ StepsLeft(j)' = StepsLeft(j) /\ (pc[j] \in Executing => pc'[j] = pc[j])]_vars

\* The safety half of LockReturned, over crashes and restarts too: if a terminal job
\* still holds its workspace, then its execution is going on and has yet to come to
\* Unlock, or it had no plan (it may have thrown, or been given an empty one), or the
\* daemon died before it got that far, and then no later one gives the workspace back.
LockFreed ==
  \A j \in Jobs :
    HandleOf[j] # NoHandle /\ status[j] \in Terminal /\ lock[HandleOf[j]] = j =>
      \/ pc[j] \in AtAwait \cup MidHandler
      \/ pc[j] = "done" /\ plan[j] = <<>>
      \/ pc[j] = "idle" /\ crashes # 0

\* There is a plan only behind the planning.
NoPlanYet == \A j \in Jobs : status[j] = "absent" \/ pc[j] = "plan" => plan[j] = <<>>
=============================================================================
