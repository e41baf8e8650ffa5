-------------------------- MODULE MCRelayRevocation --------------------------
(***************************************************************************)
(* Small instances of RelayRevocation: one token, created with the value   *)
(* of route r1; rotations issue those of r2 and r3.                        *)
(***************************************************************************)
EXTENDS RelayRevocation, TLC

CONSTANTS
  s1,           \* a session
  r1, r2, r3,   \* the routes of the token's values
  k1,
  i1            \* a target process instance

OneToken == [r \in Route |-> k1]
FirstValue == k1 :> r1

\* One Target with the first value.
LoneRole == s1 :> "target"
LoneRoute == s1 :> r1
LoneInstance == s1 :> i1

=============================================================================
