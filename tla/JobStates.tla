----------------------------- MODULE JobStates -----------------------------
(***************************************************************************)
(* The state machine shared by job rows and attempt rows, and the verdict  *)
(* the execution loop reaches on a finished run.  Pure definitions: the    *)
(* modules that own rows (JobRuntime, Approvals, Admission) extend this    *)
(* one.                                                                    *)
(*                                                                         *)
(*   src/src/storage/store.ts       states, transition table               *)
(*   src/src/router-core/router.ts  classifyFailure                        *)
(*   src/src/runtime/runtime.ts     the decisions of executeInner          *)
(*                                                                         *)
(* A definition whose comment describes a defect is a faulty variant of    *)
(* the one below it, used to confirm that a property can fail.             *)
(***************************************************************************)
EXTENDS Naturals, Sequences

JobState == {"queued", "running", "awaiting_approval", "verifying",
             "succeeded", "failed", "cancelled", "needs_recovery"}

Terminal == {"succeeded", "failed", "cancelled"}

\* No step of the router takes a settled job any further by itself.
Settled == Terminal \cup {"needs_recovery"}

\* Recovery that forgets attempts still being launched.
NonTerminalRowLaunched == {"running", "awaiting_approval", "verifying"}

NonTerminalRow == {"queued", "running", "awaiting_approval", "verifying"}

\* A table without queued -> failed: an exhausted job that never ran stays queued.
TransitionsNoEarlyFailure ==
  [ queued            |-> {"running", "cancelled", "needs_recovery"},
    running           |-> {"awaiting_approval", "verifying", "succeeded",
                           "failed", "cancelled", "needs_recovery"},
    awaiting_approval |-> {"running", "cancelled", "failed", "needs_recovery"},
    verifying         |-> {"succeeded", "failed", "needs_recovery"},
    succeeded         |-> {},
    failed            |-> {},
    cancelled         |-> {},
    needs_recovery    |-> {"queued", "failed", "cancelled"} ]

Transitions ==
  [ queued            |-> {"running", "cancelled", "failed", "needs_recovery"},
    running           |-> {"awaiting_approval", "verifying", "succeeded",
                           "failed", "cancelled", "needs_recovery"},
    awaiting_approval |-> {"running", "cancelled", "failed", "needs_recovery"},
    verifying         |-> {"succeeded", "failed", "needs_recovery"},
    succeeded         |-> {},
    failed            |-> {},
    cancelled         |-> {},
    needs_recovery    |-> {"queued", "failed", "cancelled"} ]

\* A row update without the table.
MovedUnchecked(from, to) == to

\* The value of a row's status after an attempt to move it to "to": a move the
\* table does not list is refused and the row is left as it was.
Moved(from, to) == IF to \in Transitions[from] THEN to ELSE from

-----------------------------------------------------------------------------
(***************************************************************************)
(* What a plugin answers to "run".  "absent" is an omitted optional field; *)
(* code is the error code, which only the repeated-failure rule looks at.  *)
(***************************************************************************)
SideEffects == {"none", "present", "unknown"}
RetrySafety == {"safe", "unsafe", "unknown"}
CompletionStatus == {"completed", "partial", "blocked", "unknown", "absent"}
ErrorCode == {"absent", "RATE_LIMITED", "QUOTA_EXHAUSTED", "CLI_NOT_INSTALLED",
              "PERMISSION_DENIED", "UNSUPPORTED_CAPABILITY", "TIMEOUT",
              "UNKNOWN_NATIVE_OUTCOME", "OTHER"}

RunResult ==
  [ outcome      : {"completed", "failed", "cancelled"},
    status       : CompletionStatus,
    side_effects : SideEffects,
    retry_safety : RetrySafety,
    confirmed    : BOOLEAN,
    code         : ErrorCode ]

\* The result the router makes up when it refuses an attempt before launch.
Refused(code) ==
  [ outcome |-> "failed", status |-> "absent", side_effects |-> "none",
    retry_safety |-> "safe", confirmed |-> FALSE, code |-> code ]

\* The result the router makes up when launch or run throws.
UnknownOutcome ==
  [ outcome |-> "failed", status |-> "absent", side_effects |-> "unknown",
    retry_safety |-> "unknown", confirmed |-> FALSE,
    code |-> "UNKNOWN_NATIVE_OUTCOME" ]

FailAction == {"needs_recovery", "next_candidate", "retry_bounded", "lead_handoff"}

\* Retry safety trusted whatever the side effects.
classifyBySafetyAlone(r, used, max, more) ==
  IF r.outcome = "cancelled" THEN "needs_recovery"
  ELSE IF r.retry_safety = "safe" /\ used < max
    THEN IF more THEN "next_candidate" ELSE "retry_bounded"
  ELSE "lead_handoff"

\* more: a candidate follows this one in the plan; used: attempts so far.
classifyFailure(r, used, max, more) ==
  IF r.outcome = "cancelled" \/ r.side_effects \in {"present", "unknown"}
    THEN "needs_recovery"
  ELSE IF r.retry_safety = "safe" /\ used < max
    THEN IF more THEN "next_candidate" ELSE "retry_bounded"
  ELSE "lead_handoff"

Signature(r) == <<r.code, r.status>>

Signatures == ErrorCode \X CompletionStatus

\* Partial and blocked completions taken for success.
CompletedIsSuccess(r) == r.outcome = "completed"

CleanSuccess(r) ==
  r.outcome = "completed" /\ r.status = "completed" /\ r.side_effects # "unknown"

SoftCompletion(r) == r.outcome = "completed" /\ r.status \in {"partial", "blocked"}

\* The five ways the loop can leave a finished attempt (the handoff of an
\* exhausted job is "handoff").  seen: signatures that already failed once.
Verdict(r, used, max, more, seen) ==
  IF CleanSuccess(r) THEN "succeed"
  ELSE IF SoftCompletion(r) THEN
    IF r.side_effects # "none" THEN "recover"
    ELSE IF classifyFailure([r EXCEPT !.outcome = "failed"], used, max, more)
              = "next_candidate"
         THEN "next" ELSE "handoff"
  ELSE IF r.outcome = "cancelled" THEN IF r.confirmed THEN "cancel" ELSE "recover"
  ELSE CASE classifyFailure(r, used, max, more) = "needs_recovery" -> "recover"
         [] classifyFailure(r, used, max, more) = "next_candidate" ->
              IF Signature(r) \in seen THEN "recover" ELSE "next"
         [] classifyFailure(r, used, max, more) = "retry_bounded" -> "retry"
         [] classifyFailure(r, used, max, more) = "lead_handoff" -> "handoff"

\* The row status an answered run leaves on its attempt.
AttemptOutcome(r) ==
  CASE r.outcome = "completed" -> "succeeded"
    [] r.outcome = "failed"    -> "failed"
    [] r.outcome = "cancelled" -> IF r.confirmed THEN "cancelled" ELSE "needs_recovery"
=============================================================================
