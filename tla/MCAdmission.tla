---------------------------- MODULE MCAdmission ----------------------------
(***************************************************************************)
(* An instance of Admission: a post that is retried (c1), the same key     *)
(* with a body that asks for the workspace of somebody else (c2), the same *)
(* key under another principal (c3), and a post without a key (c4).        *)
(***************************************************************************)
EXTENDS Admission, TLC

CONSTANTS c1, c2, c3, c4, d1, d2, alice, bob, k1, b1, b2, b3, h1, h2

PrincipalOf == c1 :> alice @@ c2 :> alice @@ c3 :> bob @@ c4 :> alice
KeyOf       == c1 :> k1 @@ c2 :> k1 @@ c3 :> k1 @@ c4 :> NoKey
BodyOf      == c1 :> b1 @@ c2 :> b2 @@ c3 :> b2 @@ c4 :> b3
HandleOf    == b1 :> h1 @@ b2 :> h2 @@ b3 :> Fresh
Owned       == h1 :> alice @@ h2 :> bob
Sends       == c1 :> 2 @@ c2 :> 1 @@ c3 :> 1 @@ c4 :> 1

\* The daemons are alike: no liveness is checked under this symmetry.
AlikeDaemons == Permutations(Daemons)
=============================================================================
