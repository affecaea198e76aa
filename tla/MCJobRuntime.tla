---------------------------- MODULE MCJobRuntime ----------------------------
(***************************************************************************)
(* Small instances of JobRuntime for TLC.                                  *)
(***************************************************************************)
EXTENDS JobRuntimeRefines, TLC

CONSTANTS j1, j2, h1, p1, p2

Result(out, st, se, rs, conf, code) ==
  [outcome |-> out, status |-> st, side_effects |-> se, retry_safety |-> rs,
   confirmed |-> conf, code |-> code]

Good        == Result("completed", "completed", "present", "safe", FALSE, "absent")
Partial     == Result("completed", "partial", "none", "safe", FALSE, "absent")
Blocked     == Result("completed", "blocked", "present", "unsafe", FALSE, "absent")
SafeFailure == Result("failed", "absent", "none", "safe", FALSE, "RATE_LIMITED")
Effects     == Result("failed", "absent", "present", "safe", FALSE, "OTHER")
Unsure      == Result("failed", "absent", "none", "unknown", FALSE, "UNKNOWN_NATIVE_OUTCOME")
Confirmed   == Result("cancelled", "absent", "unknown", "unknown", TRUE, "absent")
Unconfirmed == Result("cancelled", "absent", "unknown", "unknown", FALSE, "absent")

AllResults  == {Good, Partial, Blocked, SafeFailure, Effects, Unsure, Confirmed, Unconfirmed}
LoopResults == {Good, Blocked, SafeFailure, Effects}
FewResults  == {Good, SafeFailure}

SameHandle  == [j \in Jobs |-> h1]
FreshOnly   == [j \in Jobs |-> NoHandle]

TwoRoutes   == {<<>>, <<p1, p2>>}
LoopRoutes  == {<<p1>>, <<p1, p2, p1>>}
ShortRoutes == {<<>>, <<p1>>}

JobSymmetry == Permutations(Jobs)
=============================================================================
