---------------------------- MODULE MCRelayServer ----------------------------
(***************************************************************************)
(* Small instances of RelayServer.  Each scenario fixes who the sessions   *)
(* are; every order in which they arrive, pair, time out, break and leave  *)
(* is explored.                                                            *)
(***************************************************************************)
EXTENDS RelayServer, TLC

CONSTANTS
  s1, s2, s3,   \* sessions
  r1, r2,       \* the routes of two values of token k1
  k1,
  i1, i2        \* target process instances

\* Two Targets of one process, and a Target of another one.
RivalRole == [s \in Session |-> "target"]
RivalInstance == s1 :> i1 @@ s2 :> i1 @@ s3 :> i2

\* A rotation: s2 presents the token's previous value, so it has the group of
\* s1 and s3 but a route of its own.
RotatedRoute == s1 :> r1 @@ s2 :> r2 @@ s3 :> r1

\* One Target and two Edges.
EdgesRole == s1 :> "target" @@ s2 :> "edge" @@ s3 :> "edge"
EdgesInstance == s1 :> i1 @@ s2 :> NoInstance @@ s3 :> NoInstance

\* One Target, one Edge.
PairRole == s1 :> "target" @@ s2 :> "edge"
PairInstance == s1 :> i1 @@ s2 :> NoInstance
OneRoute == [s \in Session |-> r1]

\* The two Edges of EdgesRole are interchangeable.
EdgeSymmetry == Permutations({s2, s3})

OneToken == [r \in Route |-> k1]

=============================================================================
