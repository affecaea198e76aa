---------------------------- MODULE MCApprovals ----------------------------
(***************************************************************************)
(* Instances of Approvals: one request that offers typed options with      *)
(* opaque ids, one with nothing to refuse with, one with ids only.         *)
(***************************************************************************)
EXTENDS Approvals, TLC

CONSTANTS r1, r2, yes, no, ok, opaque

OptionKind == [o \in Options |->
                 CASE o = yes -> "allow" [] o = no -> "reject"
                   [] o = ok -> "unknown" [] o = opaque -> "reject"]

\* "yes" is an opaque id, "ok" an untyped one that reads allow.
OptionLooks == [o \in Options |->
                  CASE o = yes -> "other" [] o = no -> "reject"
                    [] o = ok -> "allow" [] o = opaque -> "other"]

TellingIds == [r \in Requests |-> IF r = r1 THEN {yes, no} ELSE {ok}]

OpaqueIds == (r1 :> {yes, opaque})
=============================================================================
