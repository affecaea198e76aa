------------------------------ MODULE MCParts ------------------------------
(***************************************************************************)
(* Small instances of the components a job passes through that share no    *)
(* variable in the code: the planning of candidates, the run of a native   *)
(* agent, the redaction of its text and the streams of its events.  What   *)
(* one of them does takes nothing from another's state, and so each is     *)
(* explored by itself, the others being in their initial states.           *)
(***************************************************************************)
EXTENDS RoutePlan, NativeRun, Redactor, EventStream, TLC

CONSTANTS j1, j2, j3, pA, pB, m1, m2, r1

-----------------------------------------------------------------------------
(* Candidates. *)

Catalog2 ==
  m1 :> [plugin |-> pA, roles |-> {"coding", "review"}, explicit |-> FALSE,
         billing |-> "metered", cost |-> 1, ident |-> 1] @@
  m2 :> [plugin |-> pA, roles |-> {"coding"}, explicit |-> TRUE, billing |-> "free",
         cost |-> Unknown, ident |-> 2]

Strict ==
  [allowed |-> {pA}, model |-> AnyModel, role |-> "coding", requireKnown |-> TRUE,
   maxStale |-> 0, maxCost |-> Unknown, unknownCost |-> TRUE,
   aliases |-> ("standard" :> <<m2, m1>>)]

TwoPlugins  == <<pB, pA>>
Lenient     == [Strict EXCEPT !.requireKnown = FALSE]
Requests    == j1 :> Strict @@ j2 :> [Lenient EXCEPT !.model = m1]
SameRequest == [j \in Planners |-> Lenient]
AllSetups   == {<<"active", TRUE>>, <<"shadow", TRUE>>, <<"off", FALSE>>}
OffSetup    == {<<"off", FALSE>>}
Answers == {<<"supported", "known">>, <<"supported", "exhausted">>}

-----------------------------------------------------------------------------
(* Text: a marker <<b, d>>, a marker inside a token <<k1, k2>> and a secret of     *)
(* three pieces, of which the second ends with a delimiter.                        *)

MarkerPairs == {<<"b", "d">>, <<"k1", "k2">>}
SecretText  == <<"x1", "x2", "x3">>
UnitChars   == [u \in Units |-> CASE u = "x1" -> 4 [] u = "x3" -> 3
                                  [] u \in {"d", "x2"} -> 1 [] OTHER -> 2]

\* The pattern Bearer\s+\S+ of redactText, for which the marker <<b, d>> need not begin a
\* token: where it stands in s.  A text is read from the left; b and spaces match if a
\* run of other units follows.
BearerShaped(s, i) ==
  LET read[k \in 0..Len(s)] ==
        IF k = 0 THEN "text"
        ELSE IF s[k] = "d" THEN IF read[k - 1] \in {"bearer", "space"} THEN "space" ELSE "text"
        ELSE IF read[k - 1] \in {"space", "run"} THEN "run"
        ELSE IF s[k] = "b" THEN "bearer" ELSE "text"
  IN  \E k \in i..Len(s) : /\ read[k] = "run"
                           /\ read[i] \in {"bearer", "space", "run"}
                           /\ \A j \in (i + 1)..(k - 1) : read[j] \in {"space", "run"}

\* The secrets are such that nothing of a text is shown or lost because of a cut.
ASSUME PartsAssumption == SecretsApart

-----------------------------------------------------------------------------

\* The component that moves.  The configuration of the router and the kind of agent
\* are fixed while they do not matter.
VARIABLE moving

Alone(part) ==
  /\ moving = part
  /\ part # "plan" => setup = CHOOSE s \in Setups : TRUE
  /\ part # "native" => kind = CHOOSE k \in Kinds : TRUE

PartsInit ==
  /\ PlanInit /\ NativeInit /\ RedactorInit /\ StreamInit
  /\ \E part \in {"plan", "native", "text", "stream"} : Alone(part)

OnlyPlan   == UNCHANGED <<moving, nativeVars, redactorVars, streamVars>>
OnlyNative == UNCHANGED <<moving, planVars, redactorVars, streamVars>>
OnlyText   == UNCHANGED <<moving, planVars, nativeVars, streamVars>>
OnlyStream == UNCHANGED <<moving, planVars, nativeVars, redactorVars>>

PartsNext ==
  \/ moving = "plan"   /\ PlanNext     /\ OnlyPlan
  \/ moving = "native" /\ NativeNext   /\ OnlyNative
  \/ moving = "text"   /\ RedactorNext /\ OnlyText
  \/ moving = "stream" /\ StreamNext   /\ OnlyStream

partsVars == <<moving, planVars, nativeVars, redactorVars, streamVars>>
PartsSpec == /\ PartsInit /\ [][PartsNext]_partsVars
             /\ PlanFairness /\ NativeFairness /\ StreamFairness

\* Planning alone.
PlanSpec ==
  /\ PartsInit /\ moving = "plan"
  /\ [][PlanNext /\ OnlyPlan]_partsVars

\* Every component keeps to its types and its buffers to their bounds.
TypeOK == PlanTypeOK /\ NativeTypeOK /\ RedactorTypeOK /\ StreamTypeOK
=============================================================================
